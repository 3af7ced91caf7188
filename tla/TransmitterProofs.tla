--------------------------- MODULE TransmitterProofs ---------------------------
(***************************************************************************)
(* Proofs about Transmitter, for every value of its constants: what the    *)
(* engine and the clients are told of what they handed over, and what the  *)
(* card plays.                                                             *)
(***************************************************************************)
EXTENDS Transmitter, InductionFacts, FiniteSetTheorems, SequenceTheorems

-----------------------------------------------------------------------------
(* Queues. *)

\* A set with the empty sequence, and with a sequence every longer one by an
\* element, has every sequence.
LEMMA SequenceInduction ==
  ASSUME NEW S, NEW T, <<>> \in T,
         \A q \in Seq(S), x \in S : q \in T => Append(q, x) \in T
  PROVE  Seq(S) \subseteq T
<1> DEFINE N == {n \in Nat : \A q \in Seq(S) : Len(q) = n => q \in T}
<1>1. 0 \in N
  BY EmptySeq
<1>2. ASSUME NEW n \in Nat, n \in N
      PROVE  n + 1 \in N
  <2>1. ASSUME NEW q \in Seq(S), Len(q) = n + 1
        PROVE  q \in T
    <3>1. q # <<>>
      BY <2>1, EmptySeq
    <3>2. PICK r \in Seq(S), x \in S : q = Append(r, x)
      BY <3>1, SequenceEmptyOrAppend
    <3>3. Len(r) = n
      BY <2>1, <3>2, AppendProperties
    <3> QED
      BY <1>2, <3>2, <3>3
  <2> QED
    BY <2>1
<1> HIDE DEF N
<1>3. Nat \subseteq N
  BY <1>1, <1>2, SetInduction
<1> QED
  BY <1>3 DEF N

KeptBy(q, whats, g, m) ==
  g = [n \in 0 .. m |->
         IF n = 0 THEN <<>>
         ELSE IF q[n].what \in whats THEN Append(g[n - 1], q[n])
         ELSE g[n - 1]]

\* Two runs of the recursion agree as far as their queues do.
LEMMA KeptAgree ==
  ASSUME NEW q, NEW r, NEW K, NEW g, NEW h, NEW m \in Nat, NEW n \in Nat, m <= n,
         KeptBy(q, K, g, m), KeptBy(r, K, h, n), \A i \in 1 .. m : q[i] = r[i]
  PROVE  \A i \in 0 .. m : g[i] = h[i]
<1> DEFINE T == {i \in Nat : i <= m => g[i] = h[i]}
<1>1. 0 \in T
  BY DEF KeptBy
<1>2. ASSUME NEW i \in Nat, i \in T
      PROVE  i + 1 \in T
  <2>1. CASE i + 1 <= m
    <3>1. g[i] = h[i] /\ q[i + 1] = r[i + 1] /\ i + 1 # 0 /\ (i + 1) - 1 = i
          /\ i + 1 \in 0 .. m /\ i + 1 \in 0 .. n
      BY <1>2, <2>1
    <3>2. g[i + 1] = IF q[i + 1].what \in K THEN Append(g[i], q[i + 1]) ELSE g[i]
      BY <3>1 DEF KeptBy
    <3>3. h[i + 1] = IF r[i + 1].what \in K THEN Append(h[i], r[i + 1]) ELSE h[i]
      BY <3>1 DEF KeptBy
    <3> QED
      BY <3>1, <3>2, <3>3
  <2> QED
    BY <2>1
<1> HIDE DEF T
<1>3. Nat \subseteq T
  BY <1>1, <1>2, SetInduction
<1> QED
  BY <1>3 DEF T

LEMMA KeptExists ==
  ASSUME NEW q, NEW K, NEW m \in Nat
  PROVE  \E g : KeptBy(q, K, g, m)
<1> DEFINE T == {n \in Nat : \E g : KeptBy(q, K, g, n)}
<1>1. 0 \in T
  <2>1. KeptBy(q, K, [n \in 0 .. 0 |-> <<>>], 0)
    BY DEF KeptBy
  <2> QED
    BY <2>1
<1>2. ASSUME NEW n \in Nat, n \in T
      PROVE  n + 1 \in T
  <2>1. PICK g : KeptBy(q, K, g, n)
    BY <1>2
  <2> DEFINE last == IF q[n + 1].what \in K THEN Append(g[n], q[n + 1]) ELSE g[n]
             h == [i \in 0 .. (n + 1) |-> IF i = n + 1 THEN last ELSE g[i]]
             k == [i \in 0 .. (n + 1) |->
                     IF i = 0 THEN <<>>
                     ELSE IF q[i].what \in K THEN Append(h[i - 1], q[i])
                     ELSE h[i - 1]]
  <2>2. ASSUME NEW i \in 0 .. (n + 1)
        PROVE  h[i] = k[i]
    <3>1. CASE i = n + 1
      <4>1. i # 0 /\ i - 1 = n /\ n \in 0 .. (n + 1) /\ n # n + 1
        BY <3>1
      <4>2. h[n] = g[n]
        BY <4>1
      <4> QED
        BY <3>1, <4>1, <4>2
    <3>2. CASE i # n + 1 /\ i # 0
      <4>1. i \in 0 .. n /\ i - 1 \in 0 .. (n + 1) /\ i - 1 # n + 1
        BY <3>2
      <4>2. g[i] = IF q[i].what \in K THEN Append(g[i - 1], q[i]) ELSE g[i - 1]
        BY <2>1, <3>2, <4>1 DEF KeptBy
      <4>3. h[i] = g[i] /\ h[i - 1] = g[i - 1]
        BY <3>2, <4>1
      <4> HIDE DEF h
      <4> QED
        BY <3>2, <4>2, <4>3
    <3>3. CASE i = 0
      <4>1. 0 \in 0 .. n /\ 0 # n + 1
        OBVIOUS
      <4>2. g[0] = <<>>
        BY <2>1, <4>1 DEF KeptBy
      <4> QED
        BY <3>3, <4>1, <4>2
    <3> QED
      BY <3>1, <3>2, <3>3
  <2>3. h = [i \in 0 .. (n + 1) |-> h[i]] /\ k = [i \in 0 .. (n + 1) |-> k[i]]
    OBVIOUS
  <2>4. h = k
    <3> HIDE DEF h, k
    <3> QED
      BY <2>2, <2>3
  <2>5. KeptBy(q, K, h, n + 1)
    <3> HIDE DEF h
    <3> QED
      BY <2>4 DEF KeptBy
  <2> QED
    BY <2>5
<1> HIDE DEF T
<1>3. Nat \subseteq T
  BY <1>1, <1>2, SetInduction
<1> QED
  BY <1>3 DEF T

LEMMA OfIsKept ==
  ASSUME NEW q, NEW K, Len(q) \in Nat, NEW g, KeptBy(q, K, g, Len(q))
  PROVE  Of(q, K) = g[Len(q)]
<1>1. ASSUME NEW h, KeptBy(q, K, h, Len(q))
      PROVE  h = g
  <2>1. \A i \in 0 .. Len(q) : h[i] = g[i]
    BY <1>1, KeptAgree
  <2>2. h = [i \in 0 .. Len(q) |-> h[i]] /\ g = [i \in 0 .. Len(q) |-> g[i]]
    BY <1>1 DEF KeptBy
  <2> QED
    BY <2>1, <2>2
<1> QED
  BY <1>1 DEF Of, KeptBy

\* One element more.
LEMMA OfEmpty ==
  ASSUME NEW K
  PROVE  Of(<<>>, K) = <<>>
<1>1. PICK g : KeptBy(<<>>, K, g, 0)
  BY KeptExists
<1>2. Len(<<>>) = 0
  OBVIOUS
<1>3. Of(<<>>, K) = g[0]
  BY <1>1, <1>2, OfIsKept
<1> QED
  BY <1>1, <1>3 DEF KeptBy

LEMMA OfAppend ==
  ASSUME NEW S, NEW q \in Seq(S), NEW x \in S, NEW K
  PROVE  Of(Append(q, x), K) = IF x.what \in K THEN Append(Of(q, K), x) ELSE Of(q, K)
<1> DEFINE r == Append(q, x)
           n == Len(q)
<1>1. n \in Nat /\ Len(r) = n + 1 /\ r[n + 1] = x /\ \A i \in 1 .. n : q[i] = r[i]
  BY AppendProperties, LenProperties
<1>2. PICK g : KeptBy(q, K, g, n)
  BY <1>1, KeptExists
<1> HIDE DEF r, n
<1>3. PICK h : KeptBy(r, K, h, n + 1)
  <2>1. n + 1 \in Nat
    BY <1>1
  <2> QED
    BY <2>1, KeptExists
<1>4. n + 1 \in Nat /\ n <= n + 1 /\ n \in 0 .. n /\ n + 1 \in 0 .. (n + 1) /\ n + 1 # 0
      /\ (n + 1) - 1 = n
  BY <1>1
<1>5. g[n] = h[n]
  BY <1>1, <1>2, <1>3, <1>4, KeptAgree
<1>6. Of(q, K) = g[n]
  BY <1>1, <1>2, OfIsKept DEF n
<1>7. Of(r, K) = h[n + 1]
  BY <1>1, <1>3, <1>4, OfIsKept
<1>8. h[n + 1] = IF r[n + 1].what \in K THEN Append(h[n], r[n + 1]) ELSE h[n]
  BY <1>3, <1>4 DEF KeptBy
<1> QED
  BY <1>1, <1>5, <1>6, <1>7, <1>8 DEF r
LEMMA OfType ==
  ASSUME NEW S, NEW q \in Seq(S), NEW K
  PROVE  /\ Of(q, K) \in Seq(S)
         /\ \A i \in 1 .. Len(Of(q, K)) : \E j \in 1 .. Len(q) :
              Of(q, K)[i] = q[j] /\ q[j].what \in K
<1> DEFINE Comes(p, i) == \E j \in 1 .. Len(p) : Of(p, K)[i] = p[j] /\ p[j].what \in K
           T == {p \in Seq(S) : Of(p, K) \in Seq(S) /\ \A i \in 1 .. Len(Of(p, K)) : Comes(p, i)}
<1>1. <<>> \in T
  <2>1. Of(<<>>, K) = <<>> /\ <<>> \in Seq(S) /\ 1 .. Len(<<>>) = {}
    BY OfEmpty, EmptySeq
  <2> HIDE DEF Comes
  <2> QED
    BY <2>1
<1>2. ASSUME NEW p \in Seq(S), NEW x \in S, p \in T
      PROVE  Append(p, x) \in T
  <2> DEFINE r == Append(p, x)
  <2>1. r \in Seq(S) /\ Len(r) = Len(p) + 1 /\ r[Len(p) + 1] = x /\ Len(p) \in Nat
        /\ \A j \in 1 .. Len(p) : r[j] = p[j]
    BY AppendProperties, LenProperties
  <2>2. ASSUME NEW i, Comes(p, i), Of(r, K)[i] = Of(p, K)[i]
        PROVE  Comes(r, i)
    <3>1. PICK j \in 1 .. Len(p) : Of(p, K)[i] = p[j] /\ p[j].what \in K
      BY <2>2
    <3>2. j \in 1 .. Len(r) /\ r[j] = p[j]
      BY <2>1
    <3> HIDE DEF r
    <3> QED
      BY <2>2, <3>1, <3>2
  <2>3. CASE x.what \in K
    <3>1. Of(r, K) = Append(Of(p, K), x)
      BY <2>3, OfAppend
    <3>2. /\ Of(r, K) \in Seq(S) /\ Len(Of(r, K)) = Len(Of(p, K)) + 1
          /\ Of(r, K)[Len(Of(p, K)) + 1] = x
          /\ \A i \in 1 .. Len(Of(p, K)) : Of(r, K)[i] = Of(p, K)[i]
          /\ Len(Of(p, K)) \in Nat
      BY <1>2, <3>1, AppendProperties, LenProperties
    <3>3. ASSUME NEW i \in 1 .. Len(Of(r, K))
          PROVE  Comes(r, i)
      <4>1. CASE i \in 1 .. Len(Of(p, K))
        BY <1>2, <2>2, <3>2, <4>1
      <4>2. CASE i = Len(Of(p, K)) + 1
        <5>1. Len(p) + 1 \in 1 .. Len(r)
          BY <2>1
        <5> QED
          BY <2>1, <2>3, <3>2, <4>2, <5>1
      <4> QED
        BY <3>2, <4>1, <4>2
    <3> QED
      BY <2>1, <3>2, <3>3
  <2>4. CASE x.what \notin K
    <3>1. Of(r, K) = Of(p, K)
      BY <2>4, OfAppend
    <3>2. ASSUME NEW i \in 1 .. Len(Of(r, K))
          PROVE  Comes(r, i)
      <4>1. Comes(p, i)
        BY <1>2, <3>1
      <4> HIDE DEF Comes
      <4> QED
        BY <2>2, <3>1, <4>1
    <3> HIDE DEF Comes
    <3> QED
      BY <1>2, <2>1, <3>1, <3>2
  <2> QED
    BY <2>3, <2>4
<1> HIDE DEF T
<1>3. Seq(S) \subseteq T
  BY <1>1, <1>2, SequenceInduction
<1> QED
  BY <1>3 DEF T

\* The first element, and what follows it.
LEMMA OfHead ==
  ASSUME NEW S, NEW q \in Seq(S), NEW x \in S, NEW K
  PROVE  Of(<<x>> \o q, K) = (IF x.what \in K THEN <<x>> ELSE <<>>) \o Of(q, K)
<1> DEFINE first == IF x.what \in K THEN <<x>> ELSE <<>>
           T == {p \in Seq(S) : Of(<<x>> \o p, K) = first \o Of(p, K)}
<1>1. <<>> \in T
  <2>1. <<x>> \o <<>> = Append(<<>>, x)
    OBVIOUS
  <2>2. Of(Append(<<>>, x), K) = IF x.what \in K THEN Append(<<>>, x) ELSE <<>>
    <3>1. <<>> \in Seq(S)
      BY EmptySeq
    <3>2. Of(Append(<<>>, x), K) =
            IF x.what \in K THEN Append(Of(<<>>, K), x) ELSE Of(<<>>, K)
      BY <3>1, OfAppend
    <3> QED
      BY <3>2, OfEmpty
  <2>3. first \o <<>> = IF x.what \in K THEN Append(<<>>, x) ELSE <<>>
    OBVIOUS
  <2> QED
    BY <2>1, <2>2, <2>3, OfEmpty, EmptySeq
<1>2. ASSUME NEW p \in Seq(S), NEW y \in S, p \in T
      PROVE  Append(p, y) \in T
  <2>1. <<x>> \o Append(p, y) = Append(<<x>> \o p, y) /\ <<x>> \o p \in Seq(S)
        /\ Append(p, y) \in Seq(S)
    OBVIOUS
  <2>2. Of(p, K) \in Seq(S) /\ first \in Seq(S)
    BY OfType
  <2> HIDE DEF first
  <2>3. Of(Append(<<x>> \o p, y), K) =
          IF y.what \in K THEN Append(first \o Of(p, K), y) ELSE first \o Of(p, K)
    BY <1>2, <2>1, OfAppend, ZenonT(40)
  <2>4. Append(first \o Of(p, K), y) = first \o Append(Of(p, K), y)
    <3>1. <<y>> \in Seq(S) /\ first \o Of(p, K) \in Seq(S)
      BY <2>2
    <3>2. Append(first \o Of(p, K), y) = (first \o Of(p, K)) \o <<y>>
      BY <3>1, AppendIsConcat
    <3>3. Append(Of(p, K), y) = Of(p, K) \o <<y>>
      BY <2>2, AppendIsConcat
    <3>4. (first \o Of(p, K)) \o <<y>> = first \o (Of(p, K) \o <<y>>)
      BY <2>2, <3>1, ConcatAssociative, SMTT(30)
    <3> QED
      BY <3>2, <3>3, <3>4
  <2>5. Of(Append(p, y), K) = IF y.what \in K THEN Append(Of(p, K), y) ELSE Of(p, K)
    BY OfAppend
  <2> QED
    BY <2>1, <2>3, <2>4, <2>5
<1> HIDE DEF T
<1>3. Seq(S) \subseteq T
  BY <1>1, <1>2, SequenceInduction
<1> QED
  BY <1>3 DEF T

\* What is kept of what is kept.
LEMMA OfOf ==
  ASSUME NEW S, NEW q \in Seq(S), NEW K, NEW L, L \subseteq K
  PROVE  Of(Of(q, K), L) = Of(q, L)
<1> DEFINE T == {p \in Seq(S) : Of(Of(p, K), L) = Of(p, L)}
<1>1. <<>> \in T
  BY OfEmpty, EmptySeq
<1>2. ASSUME NEW p \in Seq(S), NEW x \in S, p \in T
      PROVE  Append(p, x) \in T
  <2>1. Append(p, x) \in Seq(S) /\ Of(p, K) \in Seq(S)
    BY OfType, AppendProperties
  <2>2. Of(Append(p, x), K) = IF x.what \in K THEN Append(Of(p, K), x) ELSE Of(p, K)
    BY OfAppend
  <2>3. Of(Append(p, x), L) = IF x.what \in L THEN Append(Of(p, L), x) ELSE Of(p, L)
    BY OfAppend
  <2>4. Of(Append(Of(p, K), x), L) =
          IF x.what \in L THEN Append(Of(Of(p, K), L), x) ELSE Of(Of(p, K), L)
    BY <2>1, OfAppend
  <2> QED
    BY <1>2, <2>1, <2>2, <2>3, <2>4
<1> HIDE DEF T
<1>3. Seq(S) \subseteq T
  BY <1>1, <1>2, SequenceInduction
<1> QED
  BY <1>3 DEF T

\* Of what is not of these kinds nothing is kept.
LEMMA OfNone ==
  ASSUME NEW S, NEW q \in Seq(S), NEW K, NEW L, K \cap L = {}
  PROVE  Of(Of(q, K), L) = <<>>
<1>1. Of(q, K) \in Seq(S) /\ Of(Of(q, K), L) \in Seq(S)
  BY OfType
<1>2. ASSUME NEW i \in 1 .. Len(Of(Of(q, K), L))
      PROVE  FALSE
  <2>1. PICK j \in 1 .. Len(Of(q, K)) : Of(q, K)[j].what \in L
    BY <1>1, <1>2, OfType
  <2>2. PICK k \in 1 .. Len(q) : Of(q, K)[j] = q[k] /\ q[k].what \in K
    BY OfType
  <2> QED
    BY <2>1, <2>2
<1>3. Len(Of(Of(q, K), L)) = 0
  <2>1. Len(Of(Of(q, K), L)) \in Nat
    BY <1>1, LenProperties
  <2> QED
    BY <1>2, <2>1
<1> QED
  BY <1>1, <1>3, EmptySeq
-----------------------------------------------------------------------------
(* The engine's own in a queue. *)

IdsOf(links) == [i \in 1 .. Len(links) |-> links[i].id]

LEMMA IdsOfType ==
  ASSUME NEW q \in Seq(Items)
  PROVE  /\ IdsOf(q) \in Seq(Nat) /\ Len(IdsOf(q)) = Len(q)
         /\ \A i \in 1 .. Len(q) : IdsOf(q)[i] = q[i].id
<1>1. Len(q) \in Nat /\ \A i \in 1 .. Len(q) : q[i] \in Items
  BY LenProperties, ElementOfSeq
<1>2. \A i \in 1 .. Len(q) : q[i].id \in Nat
  BY <1>1 DEF Items
<1> QED
  BY <1>1, <1>2 DEF IdsOf

LEMMA IdsOfConcat ==
  ASSUME NEW q \in Seq(Items), NEW r \in Seq(Items)
  PROVE  IdsOf(q \o r) = IdsOf(q) \o IdsOf(r)
<1>1. /\ q \o r \in Seq(Items) /\ Len(q \o r) = Len(q) + Len(r)
      /\ \A i \in 1 .. Len(q) + Len(r) :
           (q \o r)[i] = IF i <= Len(q) THEN q[i] ELSE r[i - Len(q)]
      /\ Len(q) \in Nat /\ Len(r) \in Nat
  BY ConcatProperties, LenProperties
<1>2. IdsOf(q) \in Seq(Nat) /\ IdsOf(r) \in Seq(Nat) /\ IdsOf(q \o r) \in Seq(Nat)
      /\ Len(IdsOf(q)) = Len(q) /\ Len(IdsOf(r)) = Len(r)
      /\ Len(IdsOf(q \o r)) = Len(q) + Len(r)
  BY <1>1, IdsOfType
<1>3. /\ IdsOf(q) \o IdsOf(r) \in Seq(Nat)
      /\ Len(IdsOf(q) \o IdsOf(r)) = Len(q) + Len(r)
      /\ \A i \in 1 .. Len(q) + Len(r) :
           (IdsOf(q) \o IdsOf(r))[i] =
             IF i <= Len(q) THEN IdsOf(q)[i] ELSE IdsOf(r)[i - Len(q)]
  <2> DEFINE u == IdsOf(q)
             v == IdsOf(r)
  <2>1. u \in Seq(Nat) /\ v \in Seq(Nat) /\ Len(u) = Len(q) /\ Len(v) = Len(r)
    BY <1>2
  <2> HIDE DEF u, v
  <2>2. /\ u \o v \in Seq(Nat) /\ Len(u \o v) = Len(u) + Len(v)
        /\ \A i \in 1 .. Len(u) + Len(v) :
             (u \o v)[i] = IF i <= Len(u) THEN u[i] ELSE v[i - Len(u)]
    BY <2>1, ConcatProperties
  <2> QED
    BY <2>1, <2>2 DEF u, v
<1>4. ASSUME NEW i \in 1 .. (Len(q) + Len(r))
      PROVE  IdsOf(q \o r)[i] = (IdsOf(q) \o IdsOf(r))[i]
  <2>1. IdsOf(q \o r)[i] = (q \o r)[i].id
    BY <1>1, IdsOfType
  <2>2. CASE i <= Len(q)
    BY <1>1, <1>3, <2>1, <2>2, IdsOfType
  <2>3. CASE i > Len(q)
    <3>1. i - Len(q) \in 1 .. Len(r) /\ ~(i <= Len(q))
      BY <1>1, <2>3
    <3> QED
      BY <1>1, <1>3, <2>1, <3>1, IdsOfType
  <2>4. i <= Len(q) \/ i > Len(q)
    BY <1>1
  <2> QED
    BY <2>2, <2>3, <2>4
<1> QED
  BY <1>2, <1>3, <1>4, SeqEqual

LEMMA LinkIdsIs ==
  ASSUME NEW q
  PROVE  LinkIds(q) = IdsOf(Of(q, Link))
BY DEF LinkIds, IdsOf

LEMMA LinkIdsType ==
  ASSUME NEW q \in Seq(Items)
  PROVE  LinkIds(q) \in Seq(Nat) /\ Len(LinkIds(q)) \in Nat
BY LinkIdsIs, OfType, IdsOfType, LenProperties

LEMMA LinkIdsEmpty == LinkIds(<<>>) = <<>>
<1>1. <<>> \in Seq(Items) /\ Len(<<>>) = 0
  BY EmptySeq
<1>2. IdsOf(<<>>) \in Seq(Nat) /\ Len(IdsOf(<<>>)) = 0
  BY <1>1, IdsOfType
<1>3. IdsOf(<<>>) = <<>>
  BY <1>2, EmptySeq
<1> QED
  BY <1>3, LinkIdsIs, OfEmpty

LEMMA IdsOfOne ==
  ASSUME NEW x \in Items
  PROVE  IdsOf(<<x>>) = <<x.id>>
<1>1. x.id \in Nat /\ <<x>> \in Seq(Items)
  BY DEF Items
<1> DEFINE q == <<x>>
<1>4. Len(q) = 1 /\ q[1] = x /\ 1 \in 1 .. Len(q)
  OBVIOUS
<1> HIDE DEF q
<1>5. IdsOf(q) \in Seq(Nat) /\ Len(IdsOf(q)) = Len(q)
      /\ \A i \in 1 .. Len(q) : IdsOf(q)[i] = q[i].id
  BY <1>1, IdsOfType DEF q
<1>2. IdsOf(<<x>>) \in Seq(Nat) /\ Len(IdsOf(<<x>>)) = 1 /\ IdsOf(<<x>>)[1] = x.id
  BY <1>4, <1>5 DEF q
<1>3. <<x.id>> \in Seq(Nat) /\ Len(<<x.id>>) = 1 /\ <<x.id>>[1] = x.id
  BY <1>1
<1>6. \A i \in 1 .. Len(IdsOf(<<x>>)) : IdsOf(<<x>>)[i] = <<x.id>>[i]
  BY <1>2, <1>3
<1> QED
  BY <1>2, <1>3, <1>6, SeqEqual

LEMMA LinkIdsAppend ==
  ASSUME NEW q \in Seq(Items), NEW x \in Items
  PROVE  LinkIds(Append(q, x)) = IF IsLink(x) THEN Append(LinkIds(q), x.id) ELSE LinkIds(q)
<1>1. Of(Append(q, x), Link) = IF IsLink(x) THEN Append(Of(q, Link), x) ELSE Of(q, Link)
  BY OfAppend DEF IsLink
<1>2. Of(q, Link) \in Seq(Items) /\ <<x>> \in Seq(Items) /\ LinkIds(q) \in Seq(Nat)
      /\ x.id \in Nat
  <2>1. x.id \in Nat
    BY DEF Items
  <2> QED
    BY <2>1, OfType, LinkIdsType
<1>3. Append(Of(q, Link), x) = Of(q, Link) \o <<x>>
  BY <1>2, AppendIsConcat
<1>4. IdsOf(Append(Of(q, Link), x)) = IdsOf(Of(q, Link)) \o <<x.id>>
  BY <1>2, <1>3, IdsOfConcat, IdsOfOne
<1>5. Append(LinkIds(q), x.id) = LinkIds(q) \o <<x.id>>
  BY <1>2, AppendIsConcat
<1> QED
  BY <1>1, <1>4, <1>5, LinkIdsIs

LEMMA LinkIdsHead ==
  ASSUME NEW q \in Seq(Items), q # <<>>
  PROVE  /\ Head(q) \in Items /\ Tail(q) \in Seq(Items)
         /\ LinkIds(q) = (IF IsLink(Head(q)) THEN <<Head(q).id>> ELSE <<>>) \o LinkIds(Tail(q))
<1>1. Head(q) \in Items /\ Tail(q) \in Seq(Items) /\ q = <<Head(q)>> \o Tail(q)
  OBVIOUS
<1> DEFINE x == Head(q)
           r == Tail(q)
           first == IF IsLink(x) THEN <<x>> ELSE <<>>
<1>3. first \in Seq(Items) /\ Of(r, Link) \in Seq(Items)
  <2>1. <<x>> \in Seq(Items) /\ <<>> \in Seq(Items)
    BY <1>1
  <2>2. Of(r, Link) \in Seq(Items)
    BY <1>1, OfType
  <2> QED
    BY <2>1, <2>2
<1>2. Of(q, Link) = first \o Of(r, Link)
  <2> HIDE DEF x, r
  <2>1. x \in Items /\ r \in Seq(Items)
    BY <1>1 DEF x, r
  <2>2. Of(<<x>> \o r, Link) = (IF x.what \in Link THEN <<x>> ELSE <<>>) \o Of(r, Link)
    <3>1. \A p \in Seq(Items), y \in Items : \A K :
            Of(<<y>> \o p, K) = (IF y.what \in K THEN <<y>> ELSE <<>>) \o Of(p, K)
      BY OfHead
    <3> QED
      BY <2>1, <3>1, ZenonT(40)
  <2>3. q = <<x>> \o r
    BY <1>1 DEF x, r
  <2> QED
    BY <2>2, <2>3 DEF IsLink
<1>4. IdsOf(first) = IF IsLink(x) THEN <<x.id>> ELSE <<>>
  <2>1. CASE IsLink(x)
    BY <1>1, <2>1, IdsOfOne
  <2>2. CASE ~IsLink(x)
    <3>1. IdsOf(<<>>) = <<>>
      BY LinkIdsEmpty, LinkIdsIs, OfEmpty
    <3> QED
      BY <2>2, <3>1
  <2> QED
    BY <2>1, <2>2
<1>5. IdsOf(first \o Of(r, Link)) = IdsOf(first) \o IdsOf(Of(r, Link))
  BY <1>3, IdsOfConcat
<1>6. LinkIds(q) = IdsOf(first) \o LinkIds(r)
  BY <1>2, <1>5, LinkIdsIs
<1> QED
  BY <1>1, <1>4, <1>6

LEMMA LinkIdsOf ==
  ASSUME NEW q \in Seq(Items), NEW K, Link \subseteq K
  PROVE  LinkIds(Of(q, K)) = LinkIds(q)
BY LinkIdsIs, OfOf

LEMMA LinkIdsNone ==
  ASSUME NEW q \in Seq(Items)
  PROVE  LinkIds(Of(q, Kinds \ Link)) = <<>>
<1>1. Of(Of(q, Kinds \ Link), Link) = <<>>
  BY OfNone
<1> QED
  BY <1>1, LinkIdsIs, LinkIdsEmpty, OfEmpty
-----------------------------------------------------------------------------
(* Types. *)

\* What is queued is of a kind, and a last burst names its datagram.
Typed(t) ==
  /\ t \in Stations
  /\ \A i \in 1 .. Len(t.pending) :
       /\ t.pending[i].what \in Kinds
       /\ t.pending[i].last => t.pending[i].id \in 1 .. MaxDatagrams

\* The queue of another, or part of it.
Queued(q) ==
  /\ q \in Seq(Items)
  /\ \A i \in 1 .. Len(q) : q[i].what \in Kinds /\ (q[i].last => q[i].id \in 1 .. MaxDatagrams)

LEMMA TypedQueue ==
  ASSUME NEW t
  PROVE  Typed(t) <=> t \in Stations /\ Queued(t.pending)
BY DEF Typed, Queued, Stations

LEMMA QueuedOf ==
  ASSUME NEW q, NEW K, Queued(q)
  PROVE  Queued(Of(q, K))
<1>1. q \in Seq(Items)
  BY DEF Queued
<1>2. /\ Of(q, K) \in Seq(Items)
      /\ \A i \in 1 .. Len(Of(q, K)) : \E j \in 1 .. Len(q) : Of(q, K)[i] = q[j]
  BY <1>1, OfType
<1> QED
  BY <1>2 DEF Queued

LEMMA QueuedTail ==
  ASSUME NEW q, Queued(q), q # <<>>
  PROVE  Queued(Tail(q)) /\ Head(q) = q[1] /\ Head(q) \in Items /\ Head(q).what \in Kinds
         /\ (Head(q).last => Head(q).id \in 1 .. MaxDatagrams) /\ 1 \in 1 .. Len(q)
<1>1. q \in Seq(Items) /\ Len(q) \in Nat /\ Len(q) # 0
  BY LenProperties, EmptySeq DEF Queued
<1>2. /\ Tail(q) \in Seq(Items) /\ Len(Tail(q)) = Len(q) - 1 /\ Head(q) = q[1]
      /\ \A i \in 1 .. Len(Tail(q)) : Tail(q)[i] = q[i + 1]
  BY <1>1, HeadTailProperties
<1>3. \A i \in 1 .. Len(Tail(q)) : i + 1 \in 1 .. Len(q)
  BY <1>1, <1>2
<1>4. 1 \in 1 .. Len(q)
  BY <1>1
<1>5. q[1] \in Items
  BY <1>1, <1>4, ElementOfSeq
<1> QED
  BY <1>2, <1>3, <1>4, <1>5 DEF Queued

LEMMA QueuedAppend ==
  ASSUME NEW q, Queued(q), NEW x \in Items, x.what \in Kinds,
         x.last => x.id \in 1 .. MaxDatagrams
  PROVE  Queued(Append(q, x))
<1>1. q \in Seq(Items)
  BY DEF Queued
<1>2. /\ Append(q, x) \in Seq(Items) /\ Len(Append(q, x)) = Len(q) + 1
      /\ Append(q, x)[Len(q) + 1] = x /\ Len(q) \in Nat
      /\ \A i \in 1 .. Len(q) : Append(q, x)[i] = q[i]
  BY <1>1, AppendProperties, LenProperties
<1> QED
  BY <1>2 DEF Queued

LEMMA QueuedEmpty == Queued(<<>>)
<1>1. <<>> \in Seq(Items) /\ 1 .. Len(<<>>) = {}
  BY EmptySeq
<1> QED
  BY <1>1 DEF Queued

LEMMA NoItemType == NoItem \in Items /\ ~IsLink(NoItem)
BY DEF NoItem, Items, IsLink, Link

LEMMA Fields ==
  ASSUME NEW t, Typed(t)
  PROVE  /\ t \in Stations /\ Queued(t.pending) /\ t.pending \in Seq(Items)
         /\ t.current \in Items
         /\ t.waiting \in BOOLEAN /\ t.transmitting \in BOOLEAN /\ t.keying \in BOOLEAN
         /\ t.cutShort \in BOOLEAN /\ t.flush \in BOOLEAN /\ t.playingTest \in BOOLEAN
         /\ t.queue \in Seq([id : 1 .. MaxDatagrams, left : 1 .. 2])
         /\ t.onAir \in 0 .. MaxDatagrams
         /\ t.engine \in {"idle", "hold", "busy"} /\ t.inFlight \in Seq(1 .. MaxLink)
         /\ t.open \subseteq 1 .. MaxDatagrams /\ t.spoiled \subseteq 1 .. MaxDatagrams
         /\ t.air \in {"nothing", "header", "whole"} /\ t.mistaken \in BOOLEAN
         /\ t.lies \subseteq {"done", "twice", "sent"}
BY TypedQueue DEF Typed, Stations

\* A step of the transmission leaves what is the clients', and may spoil a burst.
SameClients(t, u) ==
  /\ u.queue = t.queue /\ u.onAir = t.onAir /\ u.open = t.open
  /\ t.spoiled \subseteq u.spoiled
  /\ "twice" \in u.lies <=> "twice" \in t.lies
  /\ "sent" \in u.lies <=> "sent" \in t.lies

\* A report to the engine leaves the transmission itself.
SameFlow(t, u) ==
  /\ u.pending = t.pending /\ u.current = t.current /\ u.waiting = t.waiting
  /\ u.transmitting = t.transmitting /\ u.cutShort = t.cutShort /\ u.flush = t.flush
  /\ u.playingTest = t.playingTest /\ u.air = t.air /\ u.engine = t.engine
  /\ u.mistaken = t.mistaken

\* What a report does: it is no lie of what is the oldest and radiated.
LEMMA ToldFacts ==
  ASSUME NEW t, Typed(t), NEW how
  PROVE  /\ Typed(Told(t, how)) /\ SameFlow(t, Told(t, how)) /\ SameClients(t, Told(t, how))
         /\ Told(t, how).keying = t.keying
         /\ t.inFlight = <<>> => Told(t, how).inFlight = <<>>
         /\ t.inFlight # <<>> => Told(t, how).inFlight = Tail(t.inFlight)
         /\ how = "not" \/ t.mistaken \/ (t.inFlight # <<>> => IsTrue(t, how))
            => Told(t, how).lies = t.lies
<1>1. t \in Stations /\ Queued(t.pending)
  BY TypedQueue
<1>2. CASE t.inFlight = <<>>
  BY <1>2 DEF Told, SameFlow, SameClients
<1>3. CASE t.inFlight # <<>>
  <2>1. t.inFlight \in Seq(1 .. MaxLink) /\ Tail(t.inFlight) \in Seq(1 .. MaxLink)
    BY <1>1, <1>3 DEF Stations
  <2> DEFINE right == how = "not" \/ t.mistaken \/ IsTrue(t, how)
             lies == t.lies \cup IF right THEN {} ELSE {"done"}
  <2>2. Told(t, how) = [t EXCEPT !.inFlight = Tail(t.inFlight), !.lies = lies]
    BY <1>1, <1>3 DEF Told, Stations
  <2>3. lies \in SUBSET {"done", "twice", "sent"} /\ ("twice" \in lies <=> "twice" \in t.lies)
        /\ ("sent" \in lies <=> "sent" \in t.lies)
        /\ (right => lies = t.lies)
    BY <1>1 DEF Stations
  <2> HIDE DEF lies
  <2>4. /\ Told(t, how) \in Stations /\ Told(t, how).inFlight = Tail(t.inFlight)
        /\ Told(t, how).lies = lies /\ Told(t, how).keying = t.keying
        /\ SameFlow(t, Told(t, how)) /\ SameClients(t, Told(t, how))
    BY <1>1, <2>1, <2>2, <2>3, ZenonT(40) DEF Stations, SameFlow, SameClients
  <2>5. Typed(Told(t, how))
    BY <1>1, <2>4, TypedQueue DEF SameFlow
  <2> QED
    BY <1>3, <2>3, <2>4, <2>5
<1> QED
  BY <1>2, <1>3

\* What is rendered is the oldest the engine waits for.
OldestOf(t) == IsLink(t.current) /\ t.current.id = Head(t.inFlight)

LEMMA ReportCutFacts ==
  ASSUME NEW t, Typed(t)
  PROVE  /\ Typed(ReportCut(t)) /\ SameFlow(t, ReportCut(t)) /\ SameClients(t, ReportCut(t))
         /\ ~ReportCut(t).keying
         /\ t.inFlight = <<>> => ReportCut(t).inFlight = <<>>
         /\ t.inFlight # <<>> => ReportCut(t).inFlight = Tail(t.inFlight)
         /\ t.mistaken \/ (t.inFlight # <<>> => OldestOf(t)) => ReportCut(t).lies = t.lies
<1> DEFINE how == IF t.current.what \in Headed /\ t.air = "nothing" THEN "not" ELSE "cut"
           u == Told(t, how)
<1>1. /\ Typed(u) /\ SameFlow(t, u) /\ SameClients(t, u)
      /\ t.inFlight = <<>> => u.inFlight = <<>>
      /\ t.inFlight # <<>> => u.inFlight = Tail(t.inFlight)
      /\ t.mistaken \/ (t.inFlight # <<>> => OldestOf(t)) => u.lies = t.lies
  <2>1. how = "not" \/ (how = "cut" /\ (t.current.what \notin Headed \/ t.air # "nothing"))
    OBVIOUS
  <2> HIDE DEF how
  <2>2. OldestOf(t) => how = "not" \/ IsTrue(t, how)
    BY <2>1 DEF IsTrue, OldestOf
  <2> HIDE DEF u
  <2>3. /\ Typed(u) /\ SameFlow(t, u) /\ SameClients(t, u)
        /\ t.inFlight = <<>> => u.inFlight = <<>>
        /\ t.inFlight # <<>> => u.inFlight = Tail(t.inFlight)
        /\ how = "not" \/ t.mistaken \/ (t.inFlight # <<>> => IsTrue(t, how))
           => u.lies = t.lies
    BY ToldFacts DEF u
  <2> QED
    BY <2>2, <2>3
<1>2. ReportCut(t) = [u EXCEPT !.keying = FALSE]
  BY DEF ReportCut
<1> HIDE DEF u
<1>3. u \in Stations /\ Queued(u.pending)
  BY <1>1, Fields
<1>4. /\ ReportCut(t) \in Stations /\ SameFlow(u, ReportCut(t)) /\ SameClients(u, ReportCut(t))
      /\ ~ReportCut(t).keying
      /\ ReportCut(t).inFlight = u.inFlight /\ ReportCut(t).lies = u.lies
  BY <1>2, <1>3 DEF Stations, SameFlow, SameClients
<1>5. Typed(ReportCut(t))
  BY <1>3, <1>4, TypedQueue DEF SameFlow
<1> QED
  BY <1>1, <1>4, <1>5 DEF SameFlow, SameClients

LEMMA DiscardWaitingFacts ==
  ASSUME NEW t, Typed(t)
  PROVE  LET u == DiscardWaiting(t)
         IN  /\ Typed(u) /\ SameClients(t, u) /\ u.lies = t.lies
             /\ u.pending = t.pending /\ u.current = NoItem /\ ~u.waiting
             /\ u.transmitting = t.transmitting /\ ~u.keying /\ u.cutShort = t.cutShort
             /\ u.flush = t.flush /\ u.playingTest = t.playingTest /\ u.air = "nothing"
             /\ u.engine = t.engine
             /\ u.mistaken = (t.mistaken /\ u.inFlight # LinkIds(t.pending))
             /\ t.inFlight = <<>> => u.inFlight = <<>>
             /\ t.inFlight # <<>> => u.inFlight = Tail(t.inFlight)
<1> DEFINE v == Told(t, "not")
           u == DiscardWaiting(t)
<1>1. /\ Typed(v) /\ SameFlow(t, v) /\ SameClients(t, v) /\ v.lies = t.lies
      /\ t.inFlight = <<>> => v.inFlight = <<>>
      /\ t.inFlight # <<>> => v.inFlight = Tail(t.inFlight)
  BY ToldFacts
<1>2. DiscardWaiting(t) = [Gone(v) EXCEPT !.keying = FALSE, !.waiting = FALSE]
  BY DEF DiscardWaiting
<1> HIDE DEF v
<1>3. v \in Stations /\ Queued(v.pending)
  BY <1>1, Fields
<1>4. /\ u \in Stations /\ SameClients(v, u) /\ u.lies = v.lies
      /\ u.pending = v.pending /\ u.current = NoItem /\ ~u.waiting
      /\ u.transmitting = v.transmitting /\ ~u.keying /\ u.cutShort = v.cutShort
      /\ u.flush = v.flush /\ u.playingTest = v.playingTest /\ u.air = "nothing"
      /\ u.engine = v.engine /\ u.inFlight = v.inFlight
      /\ u.mistaken = (v.mistaken /\ v.inFlight # LinkIds(v.pending))
  <2> DEFINE mistaken == v.mistaken /\ v.inFlight # LinkIds(v.pending)
  <2>1. u = [v EXCEPT !.current = NoItem, !.air = "nothing", !.mistaken = mistaken,
                      !.keying = FALSE, !.waiting = FALSE]
    BY <1>2, <1>3 DEF Gone, Stations
  <2>2. mistaken \in BOOLEAN
    OBVIOUS
  <2> HIDE DEF mistaken, u
  <2>3. /\ u \in Stations /\ SameClients(v, u) /\ u.lies = v.lies
        /\ u.pending = v.pending /\ u.current = NoItem /\ ~u.waiting
        /\ u.transmitting = v.transmitting /\ ~u.keying /\ u.cutShort = v.cutShort
        /\ u.flush = v.flush /\ u.playingTest = v.playingTest /\ u.air = "nothing"
        /\ u.engine = v.engine /\ u.inFlight = v.inFlight /\ u.mistaken = mistaken
    BY <1>3, <2>1, <2>2, NoItemType, ZenonT(40) DEF Stations, SameClients
  <2> QED
    BY <2>3 DEF mistaken
<1> HIDE DEF u
<1>5. Typed(u)
  BY <1>3, <1>4, TypedQueue
<1> QED
  BY <1>1, <1>4, <1>5 DEF SameFlow, SameClients, u

LEMMA GoneFacts ==
  ASSUME NEW t, Typed(t)
  PROVE  LET u == Gone(t)
         IN  /\ Typed(u) /\ SameClients(t, u) /\ u.lies = t.lies
             /\ u.pending = t.pending /\ u.current = NoItem /\ u.waiting = t.waiting
             /\ u.transmitting = t.transmitting /\ u.keying = t.keying
             /\ u.cutShort = t.cutShort
             /\ u.flush = t.flush /\ u.playingTest = t.playingTest /\ u.air = "nothing"
             /\ u.engine = t.engine /\ u.inFlight = t.inFlight
             /\ u.mistaken = (t.mistaken /\ t.inFlight # LinkIds(t.pending))
<1> DEFINE u == Gone(t)
           mistaken == t.mistaken /\ t.inFlight # LinkIds(t.pending)
<1>1. t \in Stations /\ Queued(t.pending)
  BY Fields
<1>2. u = [t EXCEPT !.current = NoItem, !.air = "nothing", !.mistaken = mistaken]
  BY <1>1 DEF Gone, Stations
<1>3. mistaken \in BOOLEAN
  OBVIOUS
<1> HIDE DEF u, mistaken
<1>4. /\ u \in Stations /\ SameClients(t, u) /\ u.lies = t.lies
      /\ u.pending = t.pending /\ u.current = NoItem /\ u.waiting = t.waiting
      /\ u.transmitting = t.transmitting /\ u.keying = t.keying
      /\ u.cutShort = t.cutShort
      /\ u.flush = t.flush /\ u.playingTest = t.playingTest /\ u.air = "nothing"
      /\ u.engine = t.engine /\ u.inFlight = t.inFlight /\ u.mistaken = mistaken
  BY <1>1, <1>2, <1>3, NoItemType DEF Stations, SameClients
<1>5. Typed(u)
  BY <1>1, <1>4, TypedQueue
<1> QED
  BY <1>4, <1>5 DEF u, mistaken

LEMMA DropLinkPendingFacts ==
  ASSUME NEW t, Typed(t)
  PROVE  LET u == DropLinkPending(t)
         IN  /\ Typed(u) /\ SameClients(t, u) /\ u.lies = t.lies
             /\ u.pending = Of(t.pending, Kinds \ Link) /\ u.current = t.current
             /\ u.waiting = t.waiting /\ u.keying = t.keying
             /\ u.transmitting = t.transmitting /\ u.cutShort = t.cutShort
             /\ u.flush = t.flush /\ u.playingTest = t.playingTest /\ u.air = t.air
             /\ u.engine = t.engine /\ u.mistaken = t.mistaken
             /\ u.inFlight = SubSeq(t.inFlight, Len(LinkIds(t.pending)) + 1, Len(t.inFlight))
<1> DEFINE u == DropLinkPending(t)
           p == Of(t.pending, Kinds \ Link)
           f == SubSeq(t.inFlight, Len(LinkIds(t.pending)) + 1, Len(t.inFlight))
<1>1. t \in Stations /\ Queued(t.pending) /\ t.pending \in Seq(Items)
      /\ t.inFlight \in Seq(1 .. MaxLink)
  BY Fields
<1>2. Queued(p) /\ p \in Seq(Items)
  BY <1>1, QueuedOf DEF Queued
<1>3. f \in Seq(1 .. MaxLink)
  <2>1. Len(LinkIds(t.pending)) \in Nat /\ Len(t.inFlight) \in Nat
    BY <1>1, LinkIdsType, LenProperties
  <2> DEFINE m == Len(LinkIds(t.pending)) + 1
             n == Len(t.inFlight)
  <2>2. m \in Int /\ n \in Int /\ \A i \in m .. n : i \in 1 .. Len(t.inFlight)
    BY <2>1
  <2>3. \A i \in 1 .. Len(t.inFlight) : t.inFlight[i] \in 1 .. MaxLink
    BY <1>1, ElementOfSeq
  <2>4. f = SubSeq(t.inFlight, m, n)
    OBVIOUS
  <2> HIDE DEF m, n, f
  <2>5. \A i \in m .. n : t.inFlight[i] \in 1 .. MaxLink
    BY <2>2, <2>3
  <2> QED
    BY <2>2, <2>4, <2>5, SubSeqProperties
<1>4. u = [t EXCEPT !.pending = p, !.inFlight = f]
  BY <1>1 DEF DropLinkPending, Stations
<1> HIDE DEF u, p, f
<1>5. /\ u \in Stations /\ SameClients(t, u) /\ u.lies = t.lies
      /\ u.pending = p /\ u.current = t.current /\ u.waiting = t.waiting
      /\ u.transmitting = t.transmitting /\ u.keying = t.keying
      /\ u.cutShort = t.cutShort
      /\ u.flush = t.flush /\ u.playingTest = t.playingTest /\ u.air = t.air
      /\ u.engine = t.engine /\ u.mistaken = t.mistaken /\ u.inFlight = f
  BY <1>1, <1>2, <1>3, <1>4 DEF Stations, SameClients
<1>6. Typed(u)
  BY <1>2, <1>5, TypedQueue
<1> QED
  BY <1>5, <1>6 DEF u, p, f

\* What is the clients' only: what is left of their datagrams, and reports.
Clients(t, u) ==
  /\ Typed(u) /\ SameFlow(t, u) /\ u.keying = t.keying /\ u.inFlight = t.inFlight
  /\ "done" \in u.lies => "done" \in t.lies

LEMMA ClientsSame ==
  ASSUME NEW t, Typed(t)
  PROVE  Clients(t, t)
BY DEF Clients, SameFlow

LEMMA ClientsMore ==
  ASSUME NEW t, NEW u, NEW v, Clients(t, u), Clients(u, v)
  PROVE  Clients(t, v)
BY DEF Clients, SameFlow

\* What a datagram's report says is true.
Sent(t, id) == t.air = "whole" /\ t.current = Item("datagram", id, TRUE)

\* Only the datagram it names is less.
Less(t, u, id) == u.open = t.open \ {id} /\ u.spoiled = t.spoiled \ {id}

LEMMA ReportFacts ==
  ASSUME NEW t, Typed(t), NEW id, NEW sent \in BOOLEAN
  PROVE  LET u == Report(t, id, sent)
         IN  /\ Clients(t, u) /\ u.queue = t.queue /\ u.onAir = t.onAir /\ Less(t, u, id)
             /\ id \in t.open /\ (sent => Sent(t, id) \/ id \in t.spoiled) => u.lies = t.lies
<1> DEFINE u == Report(t, id, sent)
           lies == t.lies \cup (IF id \in t.open THEN {} ELSE {"twice"})
                          \cup (IF sent /\ ~Sent(t, id) /\ id \notin t.spoiled
                                THEN {"sent"} ELSE {})
           open == t.open \ {id}
           spoiled == t.spoiled \ {id}
<1>1. t \in Stations /\ Queued(t.pending)
  BY TypedQueue
<1>2. u = [t EXCEPT !.open = open, !.spoiled = spoiled, !.lies = lies]
  BY <1>1 DEF Report, Sent, Stations
<1>3. /\ lies \in SUBSET {"done", "twice", "sent"} /\ ("done" \in lies => "done" \in t.lies)
      /\ open \in SUBSET (1 .. MaxDatagrams) /\ spoiled \in SUBSET (1 .. MaxDatagrams)
      /\ id \in t.open /\ (sent => Sent(t, id) \/ id \in t.spoiled) => lies = t.lies
  BY <1>1 DEF Stations
<1>4. open = t.open \ {id} /\ spoiled = t.spoiled \ {id}
  OBVIOUS
<1> HIDE DEF u, lies, open, spoiled
<1>5. /\ u \in Stations /\ SameFlow(t, u) /\ u.keying = t.keying /\ u.inFlight = t.inFlight
      /\ u.lies = lies /\ u.queue = t.queue /\ u.onAir = t.onAir
      /\ u.open = open /\ u.spoiled = spoiled
  BY <1>1, <1>2, <1>3 DEF Stations, SameFlow
<1>6. Typed(u)
  BY <1>1, <1>5, TypedQueue DEF SameFlow
<1> QED
  BY <1>3, <1>4, <1>5, <1>6 DEF u, Clients, Less

LEMMA DatagramTransmittedFacts ==
  ASSUME NEW t, Typed(t), NEW cut \in BOOLEAN
  PROVE  LET u == DatagramTransmitted(t, cut)
         IN  /\ Clients(t, u) /\ u.onAir = 0 /\ u.queue = t.queue
             /\ t.onAir = 0 => u = t
             /\ t.onAir # 0 =>
                  /\ Less(t, u, t.onAir)
                  /\ t.onAir \in t.open /\ (~cut => Sent(t, t.onAir) \/ t.onAir \in t.spoiled)
                     => u.lies = t.lies
<1>1. CASE t.onAir = 0
  BY <1>1, ClientsSame DEF DatagramTransmitted
<1>2. CASE t.onAir # 0
  <2> DEFINE u == [t EXCEPT !.onAir = 0]
  <2>1. t \in Stations /\ MaxDatagrams \in Nat /\ Queued(t.pending)
    BY Bounds, Fields
  <2>0. 0 \in 0 .. MaxDatagrams
    BY <2>1
  <2>2. u \in Stations /\ SameFlow(t, u) /\ u.keying = t.keying /\ u.inFlight = t.inFlight
        /\ u.lies = t.lies /\ u.onAir = 0 /\ u.queue = t.queue /\ u.open = t.open
        /\ u.spoiled = t.spoiled
    BY <2>0, <2>1 DEF Stations, SameFlow
  <2> DEFINE v == Report(u, t.onAir, ~cut)
  <2>3. DatagramTransmitted(t, cut) = v
    BY <1>2 DEF DatagramTransmitted
  <2> HIDE DEF u
  <2>4. Clients(t, u) /\ (Sent(t, t.onAir) => Sent(u, t.onAir))
    BY <2>1, <2>2, TypedQueue DEF Clients, SameFlow, Sent
  <2>5. /\ Clients(u, v) /\ v.queue = u.queue /\ v.onAir = u.onAir /\ Less(u, v, t.onAir)
        /\ t.onAir \in u.open /\ (~cut => Sent(u, t.onAir) \/ t.onAir \in u.spoiled)
           => v.lies = u.lies
    <3> DEFINE sent == ~cut
    <3>1. Typed(u) /\ sent \in BOOLEAN /\ v = Report(u, t.onAir, sent)
      BY <2>4 DEF Clients
    <3> HIDE DEF v, sent
    <3>2. /\ Clients(u, v) /\ v.queue = u.queue /\ v.onAir = u.onAir /\ Less(u, v, t.onAir)
          /\ t.onAir \in u.open /\ (sent => Sent(u, t.onAir) \/ t.onAir \in u.spoiled)
             => v.lies = u.lies
      BY <3>1, ReportFacts
    <3> QED
      BY <3>2 DEF sent
  <2> HIDE DEF v
  <2>6. Clients(t, v)
    BY <2>4, <2>5, ClientsMore
  <2> QED
    BY <1>2, <2>2, <2>3, <2>4, <2>5, <2>6 DEF Less
<1> QED
  BY <1>1, <1>2

LEMMA RefuseDatagramFacts ==
  ASSUME NEW t, Typed(t), NEW item
  PROVE  LET u == RefuseDatagram(t, item)
         IN  /\ Clients(t, u) /\ u.onAir = t.onAir
             /\ item.what # "datagram" => u = t
             /\ item.what = "datagram" /\ ~item.last /\ t.queue # <<>> =>
                  /\ u.queue = Tail(t.queue) /\ Less(t, u, Head(t.queue).id)
                  /\ Head(t.queue).id \in t.open => u.lies = t.lies
             /\ item.what = "datagram" /\ (item.last \/ t.queue = <<>>) =>
                  /\ u.queue = t.queue /\ Less(t, u, item.id)
                  /\ item.id \in t.open => u.lies = t.lies
<1>0. t \in Stations /\ Queued(t.pending)
  BY Fields
<1>1. CASE item.what # "datagram"
  BY <1>1, ClientsSame DEF RefuseDatagram
<1>2. CASE item.what = "datagram" /\ ~item.last /\ t.queue # <<>>
  <2> DEFINE u == [t EXCEPT !.queue = Tail(t.queue)]
             id == Head(t.queue).id
  <2>0. Tail(t.queue) \in Seq([id : 1 .. MaxDatagrams, left : 1 .. 2])
    <3>1. t.queue \in Seq([id : 1 .. MaxDatagrams, left : 1 .. 2]) /\ t.queue # <<>>
      BY <1>2, Fields
    <3> QED
      BY <3>1, HeadTailProperties
  <2>1. u \in Stations /\ SameFlow(t, u) /\ u.keying = t.keying /\ u.inFlight = t.inFlight
        /\ u.lies = t.lies /\ u.onAir = t.onAir /\ u.queue = Tail(t.queue) /\ u.open = t.open
        /\ u.spoiled = t.spoiled
    BY <1>0, <2>0 DEF Stations, SameFlow
  <2> DEFINE v == Report(u, id, FALSE)
  <2>2. RefuseDatagram(t, item) = v
    BY <1>0, <1>2 DEF RefuseDatagram
  <2> HIDE DEF u, id
  <2>3. Clients(t, u)
    BY <1>0, <2>1, TypedQueue DEF Clients, SameFlow
  <2>4. /\ Clients(u, v) /\ v.queue = u.queue /\ v.onAir = u.onAir /\ Less(u, v, id)
        /\ id \in u.open => v.lies = u.lies
    BY <2>3, ReportFacts DEF Clients
  <2> HIDE DEF v
  <2>5. Clients(t, v)
    BY <2>3, <2>4, ClientsMore
  <2> QED
    BY <1>2, <2>1, <2>2, <2>4, <2>5 DEF id, Less
<1>3. CASE item.what = "datagram" /\ (item.last \/ t.queue = <<>>)
  <2> DEFINE v == Report(t, item.id, FALSE)
  <2>1. RefuseDatagram(t, item) = v
    BY <1>3 DEF RefuseDatagram
  <2>2. /\ Clients(t, v) /\ v.queue = t.queue /\ v.onAir = t.onAir /\ Less(t, v, item.id)
        /\ item.id \in t.open => v.lies = t.lies
    BY ReportFacts
  <2> HIDE DEF v
  <2> QED
    BY <1>3, <2>1, <2>2
<1> QED
  BY <1>1, <1>2, <1>3

RefusedBy(t, g, m) ==
  g = [n \in 0 .. m |-> IF n = 0 THEN t ELSE RefuseDatagram(g[n - 1], t.pending[n])]

LEMMA RefusedAgree ==
  ASSUME NEW t, NEW g, NEW h, NEW m \in Nat, NEW n \in Nat, m <= n,
         RefusedBy(t, g, m), RefusedBy(t, h, n)
  PROVE  \A i \in 0 .. m : g[i] = h[i]
<1> DEFINE T == {i \in Nat : i <= m => g[i] = h[i]}
<1>1. 0 \in T
  BY DEF RefusedBy
<1>2. ASSUME NEW i \in Nat, i \in T
      PROVE  i + 1 \in T
  <2>1. CASE i + 1 <= m
    <3>1. g[i] = h[i] /\ i + 1 # 0 /\ (i + 1) - 1 = i /\ i + 1 \in 0 .. m /\ i + 1 \in 0 .. n
      BY <1>2, <2>1
    <3>2. g[i + 1] = RefuseDatagram(g[i], t.pending[i + 1])
      BY <3>1 DEF RefusedBy
    <3>3. h[i + 1] = RefuseDatagram(h[i], t.pending[i + 1])
      BY <3>1 DEF RefusedBy
    <3> QED
      BY <3>1, <3>2, <3>3
  <2> QED
    BY <2>1
<1> HIDE DEF T
<1>3. Nat \subseteq T
  BY <1>1, <1>2, SetInduction
<1> QED
  BY <1>3 DEF T

\* Refusing what waits leaves the transmission as it is.
LEMMA RefusedExists ==
  ASSUME NEW t, Typed(t), NEW m \in Nat
  PROVE  \E g : RefusedBy(t, g, m) /\ Clients(t, g[m]) /\ g[m].onAir = t.onAir
<1> DEFINE T == {n \in Nat : \E g : RefusedBy(t, g, n) /\ Clients(t, g[n])
                                    /\ g[n].onAir = t.onAir}
<1>1. 0 \in T
  <2> DEFINE g == [n \in 0 .. 0 |-> t]
  <2>1. RefusedBy(t, g, 0) /\ g[0] = t
    BY DEF RefusedBy
  <2> QED
    BY <2>1, ClientsSame
<1>2. ASSUME NEW n \in Nat, n \in T
      PROVE  n + 1 \in T
  <2>1. PICK g : RefusedBy(t, g, n) /\ Clients(t, g[n]) /\ g[n].onAir = t.onAir
    BY <1>2
  <2> DEFINE last == RefuseDatagram(g[n], t.pending[n + 1])
             h == [i \in 0 .. (n + 1) |-> IF i = n + 1 THEN last ELSE g[i]]
             k == [i \in 0 .. (n + 1) |->
                     IF i = 0 THEN t ELSE RefuseDatagram(h[i - 1], t.pending[i])]
  <2>2. ASSUME NEW i \in 0 .. (n + 1)
        PROVE  h[i] = k[i]
    <3>1. CASE i = n + 1
      <4>1. i # 0 /\ i - 1 = n /\ n \in 0 .. (n + 1) /\ n # n + 1
        BY <3>1
      <4>2. h[n] = g[n]
        BY <4>1
      <4> QED
        BY <3>1, <4>1, <4>2
    <3>2. CASE i # n + 1 /\ i # 0
      <4>1. i \in 0 .. n /\ i - 1 \in 0 .. (n + 1) /\ i - 1 # n + 1
        BY <3>2
      <4>2. g[i] = RefuseDatagram(g[i - 1], t.pending[i])
        BY <2>1, <3>2, <4>1 DEF RefusedBy
      <4>3. h[i] = g[i] /\ h[i - 1] = g[i - 1]
        BY <3>2, <4>1
      <4> HIDE DEF h
      <4> QED
        BY <3>2, <4>2, <4>3
    <3>3. CASE i = 0
      <4>1. 0 \in 0 .. n /\ 0 # n + 1
        OBVIOUS
      <4>2. g[0] = t
        BY <2>1, <4>1 DEF RefusedBy
      <4> QED
        BY <3>3, <4>1, <4>2
    <3> QED
      BY <3>1, <3>2, <3>3
  <2>3. h = [i \in 0 .. (n + 1) |-> h[i]] /\ k = [i \in 0 .. (n + 1) |-> k[i]]
    OBVIOUS
  <2>4. h = k
    <3> HIDE DEF h, k
    <3> QED
      BY <2>2, <2>3
  <2>5. RefusedBy(t, h, n + 1)
    <3> HIDE DEF h
    <3> QED
      BY <2>4 DEF RefusedBy
  <2>6. h[n + 1] = last
    BY DEF h
  <2> HIDE DEF h
  <2>7. Clients(g[n], last) /\ last.onAir = g[n].onAir
    BY <2>1, RefuseDatagramFacts DEF Clients
  <2>8. Clients(t, last)
    BY <2>1, <2>7, ClientsMore
  <2> HIDE DEF last
  <2> QED
    BY <2>1, <2>5, <2>6, <2>7, <2>8
<1> HIDE DEF T
<1>3. Nat \subseteq T
  BY <1>1, <1>2, SetInduction
<1> QED
  BY <1>3 DEF T

LEMMA RefusePendingIs ==
  ASSUME NEW t, Len(t.pending) \in Nat, NEW g, RefusedBy(t, g, Len(t.pending))
  PROVE  RefusePending(t) = g[Len(t.pending)]
<1>1. ASSUME NEW h, RefusedBy(t, h, Len(t.pending))
      PROVE  h = g
  <2>1. \A i \in 0 .. Len(t.pending) : h[i] = g[i]
    BY <1>1, RefusedAgree
  <2>2. h = [i \in 0 .. Len(t.pending) |-> h[i]] /\ g = [i \in 0 .. Len(t.pending) |-> g[i]]
    BY <1>1 DEF RefusedBy
  <2> QED
    BY <2>1, <2>2
<1> QED
  BY <1>1 DEF RefusePending, RefusedBy

LEMMA RefusePendingClients ==
  ASSUME NEW t, Typed(t)
  PROVE  Clients(t, RefusePending(t)) /\ RefusePending(t).onAir = t.onAir
<1>1. Len(t.pending) \in Nat
  BY Fields, LenProperties
<1>2. PICK g : /\ RefusedBy(t, g, Len(t.pending)) /\ Clients(t, g[Len(t.pending)])
               /\ g[Len(t.pending)].onAir = t.onAir
  BY <1>1, RefusedExists
<1> QED
  BY <1>1, <1>2, RefusePendingIs

-----------------------------------------------------------------------------
(* The account of the engine's. *)

\* What the engine waits for word of is what is keyed, then what is queued.
Due(t) == (IF t.keying THEN <<t.current.id>> ELSE <<>>) \o LinkIds(t.pending)

Account(t) ==
  /\ ~t.mistaken => t.inFlight = Due(t)
  /\ "done" \notin t.lies

\* Only what is the engine's is keyed as such.
KeyedLink(t) == t.keying => IsLink(t.current)

LEMMA AccountKeyed ==
  ASSUME NEW t, Typed(t), Account(t), t.keying, ~t.mistaken
  PROVE  /\ t.inFlight # <<>> /\ Head(t.inFlight) = t.current.id
         /\ Tail(t.inFlight) = LinkIds(t.pending)
<1>1. t.current.id \in Nat /\ LinkIds(t.pending) \in Seq(Nat)
  <2>1. t.current \in Items /\ t.pending \in Seq(Items)
    BY Fields
  <2> QED
    BY <2>1, LinkIdsType DEF Items
<1>2. t.inFlight = <<t.current.id>> \o LinkIds(t.pending)
  BY DEF Account, Due
<1> HIDE DEF Account
<1> QED
  BY <1>1, <1>2

LEMMA AccountUnkeyed ==
  ASSUME NEW t, Typed(t), ~t.keying
  PROVE  Account(t) <=> /\ ~t.mistaken => t.inFlight = LinkIds(t.pending)
                        /\ "done" \notin t.lies
<1>1. LinkIds(t.pending) \in Seq(Nat)
  BY Fields, LinkIdsType
<1>2. <<>> \o LinkIds(t.pending) = LinkIds(t.pending)
  BY <1>1
<1> QED
  BY <1>2 DEF Account, Due

LEMMA AccountOldest ==
  ASSUME NEW t, Typed(t), Account(t), KeyedLink(t), t.keying
  PROVE  t.mistaken \/ OldestOf(t)
BY AccountKeyed DEF KeyedLink, OldestOf

\* A report for what is keyed leaves what is queued. What was taken wrongly is
\* right again when only what is queued is waited for.
LEMMA ReportedAccount ==
  ASSUME NEW t, Typed(t), Account(t), t.keying,
         NEW u, Typed(u), ~u.keying, u.pending = t.pending,
         t.inFlight # <<>> => u.inFlight = Tail(t.inFlight),
         u.lies = t.lies,
         ~u.mistaken => ~t.mistaken \/ u.inFlight = LinkIds(u.pending)
  PROVE  Account(u)
<1>1. ~t.mistaken => t.inFlight # <<>> /\ Tail(t.inFlight) = LinkIds(t.pending)
  BY AccountKeyed
<1>2. "done" \notin u.lies
  BY DEF Account
<1> QED
  BY <1>1, <1>2, AccountUnkeyed

LEMMA GoneAccount ==
  ASSUME NEW t, Typed(t), Account(t), ~t.keying
  PROVE  Account(Gone(t))
<1> DEFINE u == Gone(t)
<1>1. /\ Typed(u) /\ ~u.keying /\ u.pending = t.pending /\ u.inFlight = t.inFlight
      /\ u.lies = t.lies /\ u.mistaken = (t.mistaken /\ t.inFlight # LinkIds(t.pending))
  BY GoneFacts
<1> HIDE DEF u
<1>2. (~t.mistaken => t.inFlight = LinkIds(t.pending)) /\ "done" \notin t.lies
  BY AccountUnkeyed
<1>3. ~u.mistaken => u.inFlight = LinkIds(u.pending)
  BY <1>1, <1>2
<1>4. Account(u)
  BY <1>1, <1>2, <1>3, AccountUnkeyed
<1> QED
  BY <1>4 DEF u

\* The keyed one is reported, whether it is on the air or waits.
LEMMA LetGo ==
  ASSUME NEW t, Typed(t), Account(t), t.keying, IsLink(t.current)
  PROVE  Account(ReportCut(t)) /\ Account(DiscardWaiting(t))
<1>1. t.mistaken \/ OldestOf(t)
  BY AccountOldest DEF KeyedLink
<1>2. Account(ReportCut(t))
  <2>1. /\ Typed(ReportCut(t)) /\ ~ReportCut(t).keying /\ ReportCut(t).pending = t.pending
        /\ t.inFlight # <<>> => ReportCut(t).inFlight = Tail(t.inFlight)
        /\ ReportCut(t).lies = t.lies /\ ReportCut(t).mistaken = t.mistaken
    BY <1>1, ReportCutFacts DEF SameFlow
  <2> QED
    BY <2>1, ReportedAccount
<1>3. Account(DiscardWaiting(t))
  <2> DEFINE u == DiscardWaiting(t)
  <2>1. /\ Typed(u) /\ ~u.keying /\ u.pending = t.pending /\ u.lies = t.lies
        /\ t.inFlight # <<>> => u.inFlight = Tail(t.inFlight)
        /\ u.mistaken = (t.mistaken /\ u.inFlight # LinkIds(t.pending))
    BY DiscardWaitingFacts
  <2> HIDE DEF u
  <2>2. Account(u)
    BY <2>1, ReportedAccount
  <2> QED
    BY <2>2 DEF u
<1> QED
  BY <1>2, <1>3

\* With nothing keyed, what waits is all there is.
LEMMA DropLinkPendingAccount ==
  ASSUME NEW t, Typed(t), Account(t), ~t.keying \/ t.mistaken
  PROVE  /\ Account(DropLinkPending(t))
         /\ ~t.mistaken => DropLinkPending(t).inFlight = <<>>
         /\ LinkIds(DropLinkPending(t).pending) = <<>>
<1> DEFINE u == DropLinkPending(t)
<1>1. /\ ~t.mistaken => t.inFlight = LinkIds(t.pending)
      /\ "done" \notin t.lies
      /\ t.pending \in Seq(Items) /\ LinkIds(t.pending) \in Seq(Nat)
      /\ Len(LinkIds(t.pending)) \in Nat
  BY AccountUnkeyed, Fields, LinkIdsType DEF Account
<1>2. /\ Typed(u) /\ u.lies = t.lies /\ u.pending = Of(t.pending, Kinds \ Link)
      /\ u.mistaken = t.mistaken /\ u.keying = t.keying
      /\ u.inFlight = SubSeq(t.inFlight, Len(LinkIds(t.pending)) + 1, Len(t.inFlight))
  BY DropLinkPendingFacts
<1> HIDE DEF u
<1>3. ~t.mistaken => u.inFlight = <<>>
  <2> SUFFICES ASSUME ~t.mistaken
               PROVE  u.inFlight = <<>>
    OBVIOUS
  <2> DEFINE n == Len(t.inFlight)
  <2>1. n \in Nat /\ n = Len(LinkIds(t.pending))
    BY <1>1
  <2>2. u.inFlight = SubSeq(t.inFlight, Len(LinkIds(t.pending)) + 1, n)
    BY <1>2
  <2> HIDE DEF n
  <2>3. n \in Int /\ n + 1 \in Int /\ n < n + 1 /\ u.inFlight = SubSeq(t.inFlight, n + 1, n)
    BY <2>1, <2>2
  <2> QED
    BY <2>3, SubSeqEmpty
<1>4. LinkIds(u.pending) = <<>>
  BY <1>1, <1>2, LinkIdsNone
<1>5. Account(u)
  <2>1. CASE t.mistaken
    BY <1>1, <1>2, <2>1 DEF Account
  <2>2. CASE ~t.mistaken
    BY <1>1, <1>2, <1>3, <1>4, <2>2, AccountUnkeyed
  <2> QED
    BY <2>1, <2>2
<1> QED
  BY <1>3, <1>4, <1>5 DEF u

\* Giving up, whatever was on the air: nothing is left of it or of the queue.
Given(t) ==
  /\ t.pending = <<>> /\ t.current = NoItem /\ ~t.waiting /\ ~t.transmitting /\ ~t.keying
  /\ ~t.cutShort /\ t.flush /\ ~t.playingTest /\ t.air = "nothing"

\* How it goes: the keyed one told, then what is queued, then the clients.
Tells(t, told, u) ==
  /\ Typed(told) /\ SameClients(t, told) /\ told.pending = t.pending
  /\ ~told.keying
  /\ Account(t) /\ KeyedLink(t) => Account(told)
  /\ SameClients(RefusePending(DatagramTransmitted(DropLinkPending(told), TRUE)), u)
  /\ u.inFlight = DropLinkPending(told).inFlight
  /\ "done" \in u.lies => "done" \in told.lies
  /\ ~u.mistaken => ~told.mistaken \/ u.inFlight = <<>>

LEMMA AbandonFacts ==
  ASSUME NEW t, Typed(t)
  PROVE  /\ Typed(Abandon(t)) /\ Given(Abandon(t)) /\ Abandon(t).engine = t.engine
         /\ \E told : Tells(t, told, Abandon(t))
<1> DEFINE told == IF ~t.keying THEN t
                   ELSE IF t.transmitting THEN ReportCut(t) ELSE DiscardWaiting(t)
           dropped == DropLinkPending(told)
           queued == DatagramTransmitted(dropped, TRUE)
           refused == RefusePending(queued)
           gone == Gone(refused)
           u == Abandon(t)
<1>0. t.keying \in BOOLEAN /\ t.transmitting \in BOOLEAN
  BY Fields
<1>1. /\ Typed(told) /\ SameClients(t, told) /\ told.pending = t.pending /\ ~told.keying
      /\ told.engine = t.engine
      /\ Account(t) /\ KeyedLink(t) => Account(told)
  <2>1. CASE ~t.keying
    BY <2>1 DEF SameClients
  <2>2. CASE t.keying /\ t.transmitting
    BY <2>2, ReportCutFacts, LetGo DEF SameFlow, KeyedLink
  <2>3. CASE t.keying /\ ~t.transmitting
    BY <2>3, DiscardWaitingFacts, LetGo DEF KeyedLink
  <2> QED
    BY <1>0, <2>1, <2>2, <2>3
<1> HIDE DEF told
<1>2. Typed(dropped) /\ ~dropped.keying /\ dropped.lies = told.lies
      /\ dropped.engine = told.engine /\ dropped.mistaken = told.mistaken
      /\ LinkIds(dropped.pending) = <<>>
  <2>1. told.pending \in Seq(Items) /\ dropped.pending = Of(told.pending, Kinds \ Link)
    BY <1>1, Fields, DropLinkPendingFacts
  <2>2. LinkIds(Of(told.pending, Kinds \ Link)) = <<>>
    BY <2>1, LinkIdsNone
  <2> QED
    BY <1>1, <2>1, <2>2, DropLinkPendingFacts
<1> HIDE DEF dropped
<1>3. Clients(dropped, queued)
  BY <1>2, DatagramTransmittedFacts
<1> HIDE DEF queued
<1>4. Clients(queued, refused)
  BY <1>3, RefusePendingClients DEF Clients
<1>5. Clients(dropped, refused)
  BY <1>3, <1>4, ClientsMore
<1> HIDE DEF refused
<1>6. /\ Typed(gone) /\ SameClients(refused, gone) /\ gone.lies = refused.lies
      /\ gone.current = NoItem /\ gone.keying = refused.keying /\ gone.air = "nothing"
      /\ gone.inFlight = refused.inFlight /\ gone.engine = refused.engine
      /\ gone.mistaken = (refused.mistaken /\ refused.inFlight # LinkIds(refused.pending))
  BY <1>5, GoneFacts DEF Clients
<1>7. u = [gone EXCEPT !.pending = <<>>, !.waiting = FALSE, !.transmitting = FALSE,
                       !.flush = TRUE, !.cutShort = FALSE, !.playingTest = FALSE]
  BY DEF Abandon, told, dropped, queued, refused
<1> HIDE DEF gone, u
<1>8. gone \in Stations
  BY <1>6, Fields
<1>9. /\ u \in Stations /\ SameClients(gone, u) /\ u.lies = gone.lies
      /\ u.pending = <<>> /\ u.current = gone.current /\ ~u.waiting
      /\ ~u.transmitting /\ u.keying = gone.keying /\ ~u.cutShort
      /\ u.flush /\ ~u.playingTest /\ u.air = gone.air
      /\ u.engine = gone.engine /\ u.inFlight = gone.inFlight
      /\ u.mistaken = gone.mistaken
  <2>1. <<>> \in Seq(Items)
    BY EmptySeq
  <2> QED
    BY <1>7, <1>8, <2>1 DEF Stations, SameClients
<1>10. Typed(u)
  BY <1>9, QueuedEmpty, TypedQueue
<1>11. Given(u) /\ u.engine = t.engine
  BY <1>1, <1>2, <1>5, <1>6, <1>9 DEF Given, Clients, SameFlow
<1>12. u.inFlight = dropped.inFlight /\ ("done" \in u.lies => "done" \in told.lies)
  BY <1>2, <1>5, <1>6, <1>9 DEF Clients
<1>13. SameClients(refused, u)
  BY <1>6, <1>9 DEF SameClients
<1>14. ~u.mistaken => ~told.mistaken \/ u.inFlight = <<>>
  BY <1>2, <1>5, <1>6, <1>9 DEF Clients, SameFlow
<1>15. Tells(t, told, u)
  BY <1>1, <1>12, <1>13, <1>14 DEF Tells, refused, queued, dropped
<1> QED
  BY <1>10, <1>11, <1>15 DEF u

LEMMA AbandonAccount ==
  ASSUME NEW t, Typed(t), Account(t), KeyedLink(t)
  PROVE  Account(Abandon(t))
<1>0. PICK told : Tells(t, told, Abandon(t))
  BY AbandonFacts
<1>1. /\ Typed(told) /\ ~told.keying /\ Account(told)
      /\ Abandon(t).inFlight = DropLinkPending(told).inFlight
      /\ "done" \in Abandon(t).lies => "done" \in told.lies
      /\ ~Abandon(t).mistaken => ~told.mistaken \/ Abandon(t).inFlight = <<>>
  BY <1>0 DEF Tells
<1>2. /\ ~told.mistaken => DropLinkPending(told).inFlight = <<>>
      /\ "done" \notin told.lies
  BY <1>1, DropLinkPendingAccount DEF Account
<1>3. Typed(Abandon(t)) /\ ~Abandon(t).keying /\ Abandon(t).pending = <<>>
  BY AbandonFacts DEF Given
<1> QED
  BY <1>1, <1>2, <1>3, AccountUnkeyed, LinkIdsEmpty

-----------------------------------------------------------------------------
(* The end of a transmission. *)

\* What is rendered waits for its key or is keyed, the engine's is keyed as
\* such from the start and is over with its cut, and a test is a tone: but for
\* an identifier taken for a test, which is cut without a word, or dropped.
Flow(t) ==
  /\ ~(t.waiting /\ t.transmitting)
  /\ t.keying => IsLink(t.current) /\ (t.waiting \/ t.transmitting \/ t.mistaken)
  /\ t.waiting /\ IsLink(t.current) => t.keying
  /\ t.keying /\ t.transmitting /\ t.cutShort => t.current.what = "closing"
  /\ t.playingTest /\ (t.waiting \/ t.transmitting) => t.current.what \in {"tone", "closing"}

\* Nothing is rendered.
Idle(t) ==
  /\ ~t.waiting /\ ~t.transmitting
  /\ t.keying => t.mistaken /\ IsLink(t.current)

LEMMA IdleFlow ==
  ASSUME NEW t, Idle(t)
  PROVE  Flow(t)
BY DEF Idle, Flow

LEMMA FlowKeyedLink ==
  ASSUME NEW t, Flow(t)
  PROVE  KeyedLink(t)
BY DEF Flow, KeyedLink

\* What finish_transmission clears before the release.
Over(t) == [t EXCEPT !.cutShort = FALSE, !.transmitting = FALSE, !.playingTest = FALSE]

LEMMA OverFacts ==
  ASSUME NEW t, Typed(t)
  PROVE  LET u == Over(t)
         IN  /\ Typed(u) /\ SameClients(t, u) /\ u.lies = t.lies
             /\ u.pending = t.pending /\ u.current = t.current /\ u.waiting = t.waiting
             /\ ~u.transmitting /\ u.keying = t.keying
             /\ ~u.cutShort
             /\ u.flush = t.flush /\ ~u.playingTest /\ u.air = t.air
             /\ u.engine = t.engine /\ u.inFlight = t.inFlight /\ u.mistaken = t.mistaken
             /\ Account(t) => Account(u)
             /\ KeyedLink(t) => KeyedLink(u)
<1> DEFINE u == Over(t)
<1>1. t \in Stations /\ Queued(t.pending)
  BY Fields
<1>2. /\ u \in Stations /\ SameClients(t, u) /\ u.lies = t.lies
      /\ u.pending = t.pending /\ u.current = t.current /\ u.waiting = t.waiting
      /\ ~u.transmitting /\ u.keying = t.keying
      /\ ~u.cutShort
      /\ u.flush = t.flush /\ ~u.playingTest /\ u.air = t.air
      /\ u.engine = t.engine /\ u.inFlight = t.inFlight /\ u.mistaken = t.mistaken
  BY <1>1 DEF Over, Stations, SameClients
<1> HIDE DEF u
<1>3. Typed(u)
  BY <1>1, <1>2, TypedQueue
<1>4. (Account(t) => Account(u)) /\ (KeyedLink(t) => KeyedLink(u))
  BY <1>2 DEF Account, Due, KeyedLink
<1> QED
  BY <1>2, <1>3, <1>4 DEF u

\* What is over is heard: it radiated, or is an identifier.
OverAir(t) == t.keying => t.air # "nothing" \/ t.current.what = "closing"

LEMMA FinishFacts ==
  ASSUME NEW t, Typed(t)
  PROVE  LET u == Finish(t, TRUE)
         IN  /\ Typed(u) /\ u.pending = t.pending /\ u.current = NoItem
             /\ u.waiting = t.waiting /\ ~u.transmitting /\ ~u.keying /\ ~u.cutShort
             /\ u.flush = t.flush /\ ~u.playingTest /\ u.air = "nothing"
             /\ u.engine = t.engine
             /\ SameClients(DatagramTransmitted(Over(t), t.cutShort), u)
             /\ Account(t) /\ KeyedLink(t) /\ OverAir(t) => Account(u)
<1> DEFINE over == Over(t)
           reported == DatagramTransmitted(over, t.cutShort)
           told == IF t.keying THEN Told(reported, "done") ELSE reported
           silent == [told EXCEPT !.keying = FALSE]
           u == Finish(t, TRUE)
           Good == Account(t) /\ KeyedLink(t) /\ OverAir(t)
<1>0. t.keying \in BOOLEAN /\ t.cutShort \in BOOLEAN
  BY Fields
<1>1. /\ Typed(over) /\ over.lies = t.lies
      /\ over.pending = t.pending /\ over.current = t.current /\ over.waiting = t.waiting
      /\ ~over.transmitting /\ over.keying = t.keying /\ ~over.cutShort
      /\ over.flush = t.flush /\ ~over.playingTest /\ over.air = t.air
      /\ over.engine = t.engine
      /\ Account(t) => Account(over)
      /\ KeyedLink(t) => KeyedLink(over)
  BY OverFacts
<1>2. u = Gone(silent)
  BY DEF Finish, Over
<1> HIDE DEF over, u
<1>3. Clients(over, reported)
  BY <1>0, <1>1, DatagramTransmittedFacts
<1> HIDE DEF reported
<1>4. /\ Typed(reported) /\ SameFlow(over, reported) /\ reported.keying = t.keying
      /\ Good => Account(reported) /\ KeyedLink(reported)
  BY <1>1, <1>3 DEF Clients, SameFlow, Account, Due, KeyedLink
<1>5. /\ Typed(told) /\ SameFlow(reported, told) /\ SameClients(reported, told)
      /\ Good => /\ ~told.mistaken => told.inFlight = LinkIds(told.pending)
                 /\ "done" \notin told.lies
  <2>1. CASE ~t.keying
    <3>1. told = reported
      BY <2>1
    <3> HIDE DEF told
    <3> QED
      BY <1>4, <2>1, <3>1, AccountUnkeyed DEF SameFlow, SameClients
  <2>2. CASE t.keying
    <3>1. told = Told(reported, "done")
      BY <2>2
    <3> HIDE DEF told
    <3>2. /\ Typed(told) /\ SameFlow(reported, told) /\ SameClients(reported, told)
          /\ reported.inFlight # <<>> => told.inFlight = Tail(reported.inFlight)
          /\ reported.mistaken \/ IsTrue(reported, "done") => told.lies = reported.lies
      BY <1>4, <3>1, ToldFacts
    <3>3. ASSUME Good
          PROVE  /\ ~told.mistaken => told.inFlight = LinkIds(told.pending)
                 /\ "done" \notin told.lies
      <4>1. /\ reported.mistaken \/ OldestOf(reported)
            /\ ~reported.mistaken => /\ reported.inFlight # <<>>
                                     /\ Tail(reported.inFlight) = LinkIds(reported.pending)
            /\ "done" \notin reported.lies
        BY <1>4, <2>2, <3>3, AccountOldest, AccountKeyed DEF Account
      <4>2. reported.air # "nothing" \/ reported.current.what = "closing"
        BY <1>1, <1>4, <2>2, <3>3 DEF SameFlow, OverAir
      <4>3. reported.mistaken \/ IsTrue(reported, "done")
        BY <4>1, <4>2 DEF OldestOf, IsTrue
      <4> QED
        BY <3>2, <4>1, <4>3 DEF SameFlow
    <3> QED
      BY <3>2, <3>3
  <2> QED
    BY <1>0, <2>1, <2>2
<1> HIDE DEF told, Good
<1>6. /\ Typed(silent) /\ SameFlow(told, silent) /\ SameClients(told, silent)
      /\ ~silent.keying /\ silent.inFlight = told.inFlight /\ silent.lies = told.lies
  <2>1. told \in Stations /\ Queued(told.pending)
    BY <1>5, Fields
  <2>2. /\ silent \in Stations /\ SameFlow(told, silent) /\ SameClients(told, silent)
        /\ ~silent.keying /\ silent.inFlight = told.inFlight /\ silent.lies = told.lies
    BY <2>1 DEF Stations, SameFlow, SameClients
  <2> HIDE DEF silent
  <2>3. Typed(silent)
    BY <2>1, <2>2, TypedQueue DEF SameFlow
  <2> QED
    BY <2>2, <2>3
<1> HIDE DEF silent
<1>7. Good => Account(silent)
  BY <1>5, <1>6, AccountUnkeyed DEF SameFlow
<1>8. /\ Typed(u) /\ SameClients(silent, u) /\ u.pending = silent.pending /\ u.current = NoItem
      /\ u.waiting = silent.waiting /\ u.transmitting = silent.transmitting
      /\ u.keying = silent.keying /\ u.cutShort = silent.cutShort
      /\ u.flush = silent.flush /\ u.playingTest = silent.playingTest
      /\ u.air = "nothing" /\ u.engine = silent.engine
      /\ Good => Account(u)
  BY <1>2, <1>6, <1>7, GoneFacts, GoneAccount
<1>9. SameClients(reported, u)
  BY <1>5, <1>6, <1>8 DEF SameClients
<1>10. /\ u.pending = t.pending /\ u.waiting = t.waiting /\ ~u.transmitting /\ ~u.keying
       /\ ~u.cutShort /\ u.flush = t.flush /\ ~u.playingTest /\ u.engine = t.engine
  BY <1>1, <1>4, <1>5, <1>6, <1>8 DEF SameFlow
<1> QED
  BY <1>8, <1>9, <1>10 DEF u, reported, over, Good

LEMMA FinishRefused ==
  ASSUME NEW t
  PROVE  Finish(t, FALSE) = Abandon(Over(t))
BY DEF Finish, Over

\* Giving up or finishing, from any transmission that may be finished.
LEMMA AbandonIdle ==
  ASSUME NEW t, Typed(t)
  PROVE  /\ Typed(Abandon(t)) /\ Idle(Abandon(t)) /\ Abandon(t).flush
         /\ Abandon(t).pending = <<>> /\ ~Abandon(t).keying /\ ~Abandon(t).playingTest
         /\ Account(t) /\ KeyedLink(t) => Account(Abandon(t))
BY AbandonFacts, AbandonAccount DEF Given, Idle

LEMMA FinishesIdle ==
  ASSUME NEW t, Typed(t), NEW u \in Finishes(t)
  PROVE  /\ Typed(u)
         /\ ~u.transmitting /\ ~u.keying /\ ~u.playingTest
         /\ u.waiting => t.waiting
         /\ u.flush = t.flush \/ (u.flush /\ u.pending = <<>>)
         /\ Account(t) /\ KeyedLink(t) /\ OverAir(t) => Account(u)
<1>1. CASE u = Finish(t, TRUE)
  BY <1>1, FinishFacts
<1>2. CASE u = Finish(t, FALSE)
  <2>1. u = Abandon(Over(t))
    BY <1>2, FinishRefused
  <2>2. /\ Typed(Over(t)) /\ (Account(t) => Account(Over(t)))
        /\ (KeyedLink(t) => KeyedLink(Over(t)))
    BY OverFacts
  <2> QED
    BY <2>1, <2>2, AbandonIdle DEF Idle
<1> QED
  BY <1>1, <1>2 DEF Finishes

LEMMA TrippedFacts ==
  ASSUME NEW t, Typed(t)
  PROVE  LET u == Tripped(t)
         IN  /\ Typed(u) /\ SameClients(t, u) /\ u.pending = <<>>
             /\ t.onAir # 0 => t.onAir \in u.spoiled
             /\ Idle(u) /\ ~u.keying /\ u.flush
             /\ Account(t) /\ KeyedLink(t) => Account(u)
<1> DEFINE cut == IF t.keying THEN ReportCut(t) ELSE t
           dropped == DropLinkPending(cut)
           gone == Gone(dropped)
           u == Tripped(t)
           Good == Account(t) /\ KeyedLink(t)
<1>0. t.keying \in BOOLEAN
  BY Fields
<1>1. /\ Typed(cut) /\ SameClients(t, cut) /\ ~cut.keying
      /\ Good => Account(cut)
  <2>1. CASE t.keying
    BY <2>1, ReportCutFacts, LetGo DEF SameFlow, KeyedLink
  <2>2. CASE ~t.keying
    BY <2>2 DEF SameClients
  <2> QED
    BY <1>0, <2>1, <2>2
<1> HIDE DEF cut
<1>2. /\ Typed(dropped) /\ SameClients(cut, dropped) /\ ~dropped.keying
      /\ Good => Account(dropped)
      /\ LinkIds(dropped.pending) = <<>>
  <2>1. cut.pending \in Seq(Items) /\ dropped.pending = Of(cut.pending, Kinds \ Link)
    BY <1>1, Fields, DropLinkPendingFacts
  <2>2. LinkIds(Of(cut.pending, Kinds \ Link)) = <<>>
    BY <2>1, LinkIdsNone
  <2> QED
    BY <1>1, <2>1, <2>2, DropLinkPendingFacts, DropLinkPendingAccount
<1> HIDE DEF dropped
<1>3. /\ Typed(gone) /\ SameClients(dropped, gone) /\ gone.pending = dropped.pending
      /\ gone.keying = dropped.keying
      /\ Good => Account(gone)
  BY <1>2, GoneFacts, GoneAccount
<1> HIDE DEF gone
<1> DEFINE spoiled == gone.spoiled \cup ({t.onAir} \ {0})
<1>5. /\ gone \in Stations /\ <<>> \in Seq(Items) /\ spoiled \in SUBSET (1 .. MaxDatagrams)
      /\ gone.spoiled \subseteq spoiled /\ (t.onAir # 0 => t.onAir \in spoiled)
  <2>1. gone \in Stations /\ gone.spoiled \subseteq 1 .. MaxDatagrams
        /\ t.onAir \in 0 .. MaxDatagrams /\ MaxDatagrams \in Nat
    BY <1>3, Fields, Bounds
  <2>2. spoiled \subseteq 1 .. MaxDatagrams
    BY <2>1
  <2> QED
    BY <2>1, <2>2, EmptySeq
<1>4. u = [gone EXCEPT !.pending = <<>>, !.waiting = FALSE,
                       !.transmitting = FALSE, !.flush = TRUE, !.cutShort = FALSE,
                       !.spoiled = spoiled]
  BY <1>5 DEF Tripped, cut, dropped, gone, Stations
<1> HIDE DEF u, spoiled
<1>6. /\ u \in Stations /\ SameClients(gone, u) /\ u.lies = gone.lies
      /\ u.pending = <<>> /\ ~u.waiting
      /\ ~u.transmitting /\ u.keying = gone.keying
      /\ u.flush /\ u.inFlight = gone.inFlight /\ u.mistaken = gone.mistaken
      /\ u.spoiled = spoiled
  BY <1>4, <1>5 DEF Stations, SameClients
<1>7. Typed(u)
  BY <1>6, QueuedEmpty, TypedQueue
<1>8. Good => Account(u)
  BY <1>2, <1>3, <1>6, <1>7, AccountUnkeyed, LinkIdsEmpty
<1>9. SameClients(t, u) /\ Idle(u) /\ ~u.keying
  BY <1>1, <1>2, <1>3, <1>6 DEF SameClients, Idle
<1> QED
  BY <1>5, <1>6, <1>7, <1>8, <1>9 DEF u

LEMMA CardDroppedLateFacts ==
  ASSUME NEW t, Typed(t), t.transmitting
  PROVE  LET u == CardDroppedLate(t, TRUE)
         IN  /\ Typed(u) /\ SameClients(t, u) /\ u.pending = t.pending
             /\ Idle(u) /\ u.current = NoItem /\ u.flush = t.flush
             /\ CardDroppedLate(t, FALSE) = Abandon(u)
             /\ Account(t) /\ KeyedLink(t) => Account(u)
<1> DEFINE told == IF t.keying THEN Told(t, "not") ELSE t
           gone == Gone(told)
           u == CardDroppedLate(t, TRUE)
           Good == Account(t) /\ KeyedLink(t)
<1>0. t.keying \in BOOLEAN
  BY Fields
<1>1. /\ Typed(told) /\ SameFlow(t, told) /\ SameClients(t, told)
      /\ Good => /\ ~told.mistaken => told.inFlight = LinkIds(told.pending)
                 /\ "done" \notin told.lies
  <2>1. CASE t.keying
    <3>1. ASSUME Good, ~t.mistaken
          PROVE  t.inFlight # <<>> /\ Tail(t.inFlight) = LinkIds(t.pending)
      BY <2>1, <3>1, AccountKeyed
    <3>2. Good => "done" \notin t.lies
      BY DEF Account
    <3>3. told = Told(t, "not")
      BY <2>1
    <3> HIDE DEF told
    <3>4. /\ Typed(told) /\ SameFlow(t, told) /\ SameClients(t, told)
          /\ t.inFlight # <<>> => told.inFlight = Tail(t.inFlight)
          /\ told.lies = t.lies
      BY <3>3, ToldFacts
    <3> QED
      BY <3>1, <3>2, <3>4 DEF SameFlow
  <2>2. CASE ~t.keying
    BY <2>2, AccountUnkeyed DEF SameFlow, SameClients
  <2> QED
    BY <1>0, <2>1, <2>2
<1> HIDE DEF told
<1>2. /\ Typed(gone) /\ SameClients(told, gone) /\ gone.lies = told.lies
      /\ gone.current = NoItem /\ gone.pending = told.pending /\ gone.flush = told.flush
      /\ gone.inFlight = told.inFlight
      /\ gone.mistaken = (told.mistaken /\ told.inFlight # LinkIds(told.pending))
  BY <1>1, GoneFacts
<1>3. u = [gone EXCEPT !.keying = FALSE, !.waiting = FALSE, !.cutShort = FALSE,
                       !.transmitting = FALSE, !.playingTest = FALSE]
      /\ CardDroppedLate(t, FALSE) = Abandon(u)
  BY DEF CardDroppedLate, told
<1> HIDE DEF gone, u
<1>4. gone \in Stations /\ Queued(gone.pending)
  BY <1>2, Fields
<1>5. /\ u \in Stations /\ SameClients(gone, u) /\ u.lies = gone.lies
      /\ u.pending = gone.pending /\ u.current = gone.current /\ Idle(u) /\ ~u.keying
      /\ u.flush = gone.flush /\ u.inFlight = gone.inFlight /\ u.mistaken = gone.mistaken
  BY <1>3, <1>4 DEF Stations, SameClients, Idle
<1>6. Typed(u)
  BY <1>4, <1>5, TypedQueue
<1>7. Good => Account(u)
  <2>1. Good => (~u.mistaken => u.inFlight = LinkIds(u.pending)) /\ "done" \notin u.lies
    BY <1>1, <1>2, <1>5
  <2> QED
    BY <1>5, <1>6, <2>1, AccountUnkeyed
<1> QED
  BY <1>1, <1>2, <1>3, <1>5, <1>6, <1>7 DEF u, SameClients, SameFlow

-----------------------------------------------------------------------------
(* What asks. *)

\* What is queued or asked for leaves what is rendered.
SamePlay(t, u) ==
  /\ u.current = t.current /\ u.waiting = t.waiting /\ u.transmitting = t.transmitting
  /\ u.keying = t.keying /\ u.cutShort = t.cutShort /\ u.flush = t.flush
  /\ u.playingTest = t.playingTest /\ u.air = t.air
  /\ t.mistaken => u.mistaken

LEMMA SamePlayFlow ==
  ASSUME NEW t, NEW u, SamePlay(t, u), Flow(t)
  PROVE  Flow(u)
BY DEF SamePlay, Flow

LEMMA FreshFacts ==
  ASSUME NEW bound \in Nat, NEW ids, ids \subseteq 1 .. bound, Cardinality(ids) # bound
  PROVE  Fresh(ids, bound) \in 1 .. bound /\ Fresh(ids, bound) \notin ids
<1>1. IsFiniteSet(1 .. bound) /\ Cardinality(1 .. bound) = bound
  <2>1. 1 \in Int /\ bound \in Int
    OBVIOUS
  <2> QED
    BY <2>1, FS_Interval
<1>2. ids # 1 .. bound
  BY <1>1
<1>3. \E id \in 1 .. bound : id \notin ids
  BY <1>2
<1> QED
  BY <1>3 DEF Fresh

LEMMA SeqRange ==
  ASSUME NEW S, NEW q \in Seq(S)
  PROVE  Range(q) \subseteq S
<1> SUFFICES ASSUME NEW y \in Range(q)
             PROVE  y \in S
  OBVIOUS
<1>1. DOMAIN q = 1 .. Len(q)
  OBVIOUS
<1>2. \A i \in DOMAIN q : q[i] \in S
  BY <1>1, ElementOfSeq
<1>3. PICK i \in DOMAIN q : y = q[i]
  BY DEF Range
<1> QED
  BY <1>2, <1>3

LEMMA AppendConcat ==
  ASSUME NEW q \in Seq(Nat), NEW r \in Seq(Nat), NEW x \in Nat
  PROVE  Append(q \o r, x) = q \o Append(r, x)
<1>1. <<x>> \in Seq(Nat) /\ q \o r \in Seq(Nat)
  OBVIOUS
<1>2. Append(q \o r, x) = (q \o r) \o <<x>>
  BY <1>1, AppendIsConcat
<1>3. Append(r, x) = r \o <<x>>
  BY AppendIsConcat
<1>4. (q \o r) \o <<x>> = q \o (r \o <<x>>)
  BY <1>1, ConcatAssociative
<1> QED
  BY <1>2, <1>3, <1>4

\* The engine hands over one, or nothing.
Handed(t, u) ==
  /\ Typed(u) /\ SamePlay(t, u) /\ SameClients(t, u)
  /\ \/ u.pending = t.pending
     \/ \E what \in Link, id \in Nat : u.pending = Append(t.pending, Item(what, id, FALSE))
  /\ Account(t) => Account(u)

LEMMA HandedOverFacts ==
  ASSUME Typed(s), NEW t, Typed(t), NEW u \in HandedOver(t)
  PROVE  Handed(t, u)
<1>1. CASE u = t
  BY <1>1 DEF Handed, SamePlay, SameClients
<1>2. CASE u # t
  <2> DEFINE ids == Range(s.inFlight) \cup Range(t.inFlight)
             id == Fresh(ids, MaxLink)
  <2>1. PICK what \in Link :
          /\ Cardinality(ids) < MaxLink
          /\ u = [t EXCEPT !.inFlight = Append(t.inFlight, id),
                           !.pending = Append(t.pending, Item(what, id, FALSE))]
    <3>1. t \in Stations
      BY Fields
    <3> QED
      BY <1>2, <3>1 DEF HandedOver, Stations
  <2>2. id \in 1 .. MaxLink /\ MaxLink \in Nat
    <3>1. \A x \in {s, t} : x.inFlight \in Seq(1 .. MaxLink)
      BY Fields
    <3>2. \A x \in {s, t} : Range(x.inFlight) \subseteq 1 .. MaxLink
      BY <3>1, SeqRange
    <3>3. MaxLink \in Nat
      BY Bounds
    <3>4. ids \subseteq 1 .. MaxLink
      BY <3>2
    <3> HIDE DEF ids
    <3>5. Cardinality(ids) # MaxLink
      BY <2>1, <3>3
    <3> QED
      BY <3>3, <3>4, <3>5, FreshFacts
  <2> HIDE DEF id, ids
  <2> DEFINE x == Item(what, id, FALSE)
             p == Append(t.pending, x)
             f == Append(t.inFlight, id)
  <2>3. /\ x \in Items /\ x.what = what /\ x.id = id /\ ~x.last /\ what \in Kinds
        /\ IsLink(x) /\ id \in Nat
    BY <2>2 DEF Item, Items, Kinds, IsLink
  <2>4. t \in Stations /\ Queued(t.pending) /\ t.pending \in Seq(Items)
        /\ t.inFlight \in Seq(1 .. MaxLink)
    BY Fields
  <2>5. f \in Seq(1 .. MaxLink)
    BY <2>2, <2>4
  <2>6. Queued(p) /\ p \in Seq(Items)
    <3>1. Queued(p)
      BY <2>3, <2>4, QueuedAppend
    <3> QED
      BY <3>1 DEF Queued
  <2>7. LinkIds(p) = Append(LinkIds(t.pending), id)
    BY <2>3, <2>4, LinkIdsAppend
  <2>8. u = [t EXCEPT !.inFlight = f, !.pending = p]
    BY <2>1
  <2>9. p = Append(t.pending, Item(what, id, FALSE))
    OBVIOUS
  <2> HIDE DEF x, p
  <2>10. /\ u \in Stations /\ SamePlay(t, u) /\ SameClients(t, u) /\ u.lies = t.lies
         /\ u.pending = p /\ u.inFlight = f /\ u.mistaken = t.mistaken
    BY <2>4, <2>5, <2>6, <2>8 DEF Stations, SamePlay, SameClients
  <2>11. Typed(u)
    BY <2>6, <2>10, TypedQueue
  <2>12. ASSUME Account(t)
         PROVE  Account(u)
    <3> DEFINE k == IF t.keying THEN <<t.current.id>> ELSE <<>>
    <3>1. k \in Seq(Nat) /\ LinkIds(t.pending) \in Seq(Nat)
      <4>1. t.current.id \in Nat
        BY Fields DEF Items
      <4> QED
        BY <2>4, <4>1, LinkIdsType
    <3>2. (~t.mistaken => t.inFlight = k \o LinkIds(t.pending)) /\ "done" \notin t.lies
      BY <2>12 DEF Account, Due
    <3>4. (IF u.keying THEN <<u.current.id>> ELSE <<>>) = k
      BY <2>10 DEF SamePlay
    <3> HIDE DEF k
    <3>3. Append(k \o LinkIds(t.pending), id) = k \o Append(LinkIds(t.pending), id)
      <4> DEFINE r == LinkIds(t.pending)
      <4>1. r \in Seq(Nat) /\ id \in Nat
        BY <2>3, <3>1
      <4> HIDE DEF r
      <4>2. Append(k \o r, id) = k \o Append(r, id)
        BY <3>1, <4>1, AppendConcat
      <4> QED
        BY <4>2 DEF r
    <3> QED
      BY <2>7, <2>10, <3>2, <3>3, <3>4 DEF Account, Due
  <2> QED
    BY <2>3, <2>9, <2>10, <2>11, <2>12 DEF Handed
<1> QED
  BY <1>1, <1>2

\* A field of the engine's alone.
LEMMA EngineField ==
  ASSUME NEW t, Typed(t), NEW state \in {"idle", "hold", "busy"}
  PROVE  LET u == [t EXCEPT !.engine = state]
         IN  /\ Typed(u) /\ SamePlay(t, u) /\ SameClients(t, u) /\ u.pending = t.pending
             /\ Account(t) => Account(u)
<1> DEFINE u == [t EXCEPT !.engine = state]
<1>1. t \in Stations /\ Queued(t.pending)
  BY Fields
<1>2. /\ u \in Stations /\ SamePlay(t, u) /\ SameClients(t, u) /\ u.pending = t.pending
      /\ u.inFlight = t.inFlight /\ u.lies = t.lies /\ u.mistaken = t.mistaken
  BY <1>1 DEF Stations, SamePlay, SameClients
<1> HIDE DEF u
<1>3. Typed(u)
  BY <1>1, <1>2, TypedQueue
<1> QED
  BY <1>2, <1>3 DEF u, Account, Due, SamePlay

LEMMA HandedMore ==
  ASSUME NEW t, NEW u, NEW v, u.pending = t.pending, SamePlay(t, u), SameClients(t, u),
         Account(t) => Account(u), Handed(u, v)
  PROVE  Handed(t, v)
BY DEF Handed, SamePlay, SameClients

LEMMA EngineFacts ==
  ASSUME Typed(s), NEW t, Typed(t), NEW u \in Engine(t)
  PROVE  Handed(t, u)
<1>1. PICK state \in {"idle", "hold", "busy"} : u \in HandedOver([t EXCEPT !.engine = state])
  BY DEF Engine
<1> DEFINE v == [t EXCEPT !.engine = state]
<1>2. /\ Typed(v) /\ SamePlay(t, v) /\ SameClients(t, v) /\ v.pending = t.pending
      /\ Account(t) => Account(v)
  BY EngineField
<1>3. u \in HandedOver(v)
  BY <1>1
<1> HIDE DEF v
<1>4. Handed(v, u)
  BY <1>2, <1>3, HandedOverFacts
<1> QED
  BY <1>2, <1>4, HandedMore

\* What is dropped of a queue but is not the engine's leaves the account.
LEMMA DropKind ==
  ASSUME NEW t, Typed(t), NEW K, Link \subseteq K,
         NEW u, u = [t EXCEPT !.pending = Of(t.pending, K)]
  PROVE  /\ Typed(u) /\ SamePlay(t, u) /\ SameClients(t, u) /\ u.engine = t.engine
         /\ u.pending = Of(t.pending, K) /\ u.inFlight = t.inFlight
         /\ u.mistaken = t.mistaken /\ u.lies = t.lies
         /\ Account(t) => Account(u)
<1> DEFINE p == Of(t.pending, K)
<1>1. t \in Stations /\ Queued(t.pending) /\ t.pending \in Seq(Items)
  BY Fields
<1>2. Queued(p) /\ p \in Seq(Items)
  BY <1>1, QueuedOf DEF Queued
<1>3. LinkIds(p) = LinkIds(t.pending)
  BY <1>1, LinkIdsOf
<1> HIDE DEF p
<1>4. /\ u \in Stations /\ SamePlay(t, u) /\ SameClients(t, u) /\ u.engine = t.engine
      /\ u.pending = p /\ u.lies = t.lies /\ u.inFlight = t.inFlight
      /\ u.mistaken = t.mistaken
  <2>1. u = [t EXCEPT !.pending = p]
    BY DEF p
  <2> QED
    BY <1>1, <1>2, <2>1, ZenonT(40) DEF Stations, SamePlay, SameClients
<1>5. Typed(u)
  BY <1>2, <1>4, TypedQueue
<1>6. Account(t) => Account(u)
  BY <1>3, <1>4 DEF Account, Due, SamePlay
<1> QED
  BY <1>4, <1>5, <1>6 DEF p

\* What is queued of the station's own leaves it too.
LEMMA QueueOwn ==
  ASSUME NEW t, Typed(t), NEW x \in Items, x.what \in Kinds \ Link, ~x.last,
         NEW u, u = [t EXCEPT !.pending = Append(t.pending, x)]
  PROVE  /\ Typed(u) /\ SamePlay(t, u) /\ SameClients(t, u)
         /\ u.pending = Append(t.pending, x)
         /\ Account(t) => Account(u)
<1> DEFINE p == Append(t.pending, x)
<1>1. t \in Stations /\ Queued(t.pending) /\ t.pending \in Seq(Items)
  BY Fields
<1>2. x.what \in Kinds /\ ~IsLink(x)
  BY DEF IsLink
<1>3. Queued(p) /\ p \in Seq(Items)
  <2>1. Queued(p)
    BY <1>1, <1>2, QueuedAppend
  <2> QED
    BY <2>1 DEF Queued
<1>4. LinkIds(p) = LinkIds(t.pending)
  BY <1>1, <1>2, LinkIdsAppend
<1>5. u = [t EXCEPT !.pending = p]
  OBVIOUS
<1> HIDE DEF p
<1>6. /\ u \in Stations /\ SamePlay(t, u) /\ SameClients(t, u)
      /\ u.pending = p /\ u.lies = t.lies /\ u.inFlight = t.inFlight
      /\ u.mistaken = t.mistaken
  BY <1>1, <1>3, <1>5, ZenonT(40) DEF Stations, SamePlay, SameClients
<1>7. Typed(u)
  BY <1>3, <1>6, TypedQueue
<1>8. Account(t) => Account(u)
  BY <1>4, <1>6 DEF Account, Due, SamePlay
<1> QED
  BY <1>6, <1>7, <1>8 DEF p

\* A beacon or a tone asked for.
LEMMA AskedOwn ==
  ASSUME NEW t, Typed(t), NEW u, u \in Beacon(t) \cup Tune(t)
  PROVE  /\ Typed(u) /\ SamePlay(t, u) /\ SameClients(t, u)
         /\ \E x \in Items : /\ x.what \in {"beacon", "tone"} /\ ~x.last
                             /\ u.pending = Append(t.pending, x)
         /\ Account(t) => Account(u)
<1>1. PICK what \in {"beacon", "tone"} :
        u = [t EXCEPT !.pending = Append(t.pending, Item(what, 0, FALSE))]
  <2>1. t \in Stations
    BY Fields
  <2> QED
    BY <2>1 DEF Beacon, Tune, Stations
<1> DEFINE x == Item(what, 0, FALSE)
<1>2. x \in Items /\ x.what \in {"beacon", "tone"} /\ ~x.last /\ x.what \in Kinds \ Link
  BY DEF Item, Items, Kinds, Link
<1>3. u = [t EXCEPT !.pending = Append(t.pending, x)]
  BY <1>1
<1> HIDE DEF x
<1> QED
  BY <1>2, <1>3, QueueOwn

\* abort, before the engine has its say.
LEMMA AbortFacts ==
  ASSUME NEW t, Typed(t)
  PROVE  LET u == Abort(t)
             cuts == t.transmitting /\ ~t.playingTest
             drops == t.keying /\ ~t.transmitting /\ t.waiting
         IN  /\ Typed(u) /\ SameClients(t, u)
             /\ u.pending = Of(Of(t.pending, Kinds \ Link), Kinds \ {"beacon"})
             /\ u.transmitting = t.transmitting /\ u.playingTest = t.playingTest
             /\ cuts => /\ ~u.waiting /\ u.flush /\ u.cutShort /\ ~u.keying
                        /\ u.current = t.current
             /\ drops => /\ ~u.waiting /\ ~u.keying /\ u.flush = t.flush
                         /\ u.cutShort = t.cutShort
             /\ ~cuts /\ ~drops => SamePlay(t, u)
             /\ Account(t) /\ Flow(t) => Account(u)
<1> DEFINE cuts == t.transmitting /\ ~t.playingTest
           drops == t.keying /\ ~t.transmitting /\ t.waiting
           cut == [t EXCEPT !.waiting = FALSE, !.flush = TRUE, !.cutShort = TRUE]
           spared == t.transmitting /\ t.keying /\ t.playingTest
           late == LinkIds(t.pending) # <<>>
           oldest == IF cuts THEN IF t.keying THEN ReportCut(cut) ELSE cut
                     ELSE IF drops THEN DiscardWaiting(t) ELSE t
           dropped == DropLinkPending(oldest)
           fewer == [dropped EXCEPT !.pending = Of(dropped.pending, Kinds \ {"beacon"})]
           u == Abort(t)
           Good == Account(t) /\ Flow(t)
<1>0. t.keying \in BOOLEAN /\ t.transmitting \in BOOLEAN /\ t.waiting \in BOOLEAN
      /\ t.playingTest \in BOOLEAN
  BY Fields
<1>1. /\ Typed(cut) /\ SameClients(t, cut) /\ cut.pending = t.pending /\ ~cut.waiting
      /\ cut.flush /\ cut.cutShort /\ cut.transmitting = t.transmitting
      /\ cut.playingTest = t.playingTest /\ cut.keying = t.keying /\ cut.current = t.current
      /\ Account(t) => Account(cut)
  <2>1. t \in Stations /\ Queued(t.pending)
    BY Fields
  <2>2. /\ cut \in Stations /\ SameClients(t, cut) /\ cut.pending = t.pending /\ ~cut.waiting
        /\ cut.flush /\ cut.cutShort /\ cut.transmitting = t.transmitting
        /\ cut.playingTest = t.playingTest /\ cut.keying = t.keying /\ cut.current = t.current
        /\ cut.inFlight = t.inFlight /\ cut.lies = t.lies /\ cut.mistaken = t.mistaken
    BY <2>1 DEF Stations, SameClients
  <2> HIDE DEF cut
  <2>3. Typed(cut)
    BY <2>1, <2>2, TypedQueue
  <2> QED
    BY <2>2, <2>3 DEF Account, Due
<1> HIDE DEF cut
<1>2. /\ Typed(oldest) /\ SameClients(t, oldest) /\ oldest.pending = t.pending
      /\ oldest.transmitting = t.transmitting /\ oldest.playingTest = t.playingTest
      /\ cuts => /\ ~oldest.waiting /\ oldest.flush /\ oldest.cutShort /\ ~oldest.keying
                 /\ oldest.current = t.current
      /\ drops => /\ ~oldest.waiting /\ ~oldest.keying /\ oldest.flush = t.flush
                  /\ oldest.cutShort = t.cutShort
      /\ ~cuts /\ ~drops => oldest = t
      /\ Good => Account(oldest) /\ (~spared => ~oldest.keying \/ oldest.mistaken)
  <2>1. CASE cuts /\ t.keying
    <3>1. Good => Account(cut) /\ IsLink(cut.current)
      BY <1>1, <2>1 DEF Flow
    <3> QED
      <4>1. oldest = ReportCut(cut)
        BY <2>1
      <4> HIDE DEF oldest, Good
      <4>2. /\ Typed(oldest) /\ SameFlow(cut, oldest) /\ SameClients(cut, oldest)
            /\ ~oldest.keying
        BY <1>1, <4>1, ReportCutFacts
      <4>3. Good => Account(oldest)
        BY <1>1, <2>1, <3>1, <4>1, LetGo
      <4> QED
        BY <1>1, <2>1, <4>2, <4>3 DEF SameFlow, SameClients
  <2>2. CASE cuts /\ ~t.keying
    BY <1>1, <2>2
  <2>3. CASE ~cuts /\ drops
    <3>1. Good => IsLink(t.current)
      BY <2>3 DEF Flow
    <3> QED
      BY <2>3, <3>1, DiscardWaitingFacts, LetGo
  <2>4. CASE ~cuts /\ ~drops
    <3>1. Good => spared \/ ~t.keying \/ t.mistaken
      BY <1>0, <2>4 DEF Flow
    <3> QED
      BY <2>4, <3>1 DEF SameClients
  <2> QED
    BY <1>0, <2>1, <2>2, <2>3, <2>4
<1>3. spared => ~cuts /\ ~drops
  OBVIOUS
<1>4. u = [fewer EXCEPT !.mistaken = @ \/ (spared /\ late)]
  <2>1. dropped \in Stations
    BY <1>2, DropLinkPendingFacts, Fields
  <2>2. u = [dropped EXCEPT !.pending = Of(@, Kinds \ {"beacon"}),
                            !.mistaken = @ \/ (spared /\ late)]
    BY DEF Abort, cut
  <2> HIDE DEF dropped, spared, late, u
  <2> QED
    BY <2>1, <2>2 DEF Stations
<1> HIDE DEF oldest, Good, cuts, drops, spared, late
<1>5. /\ Typed(dropped) /\ SameClients(oldest, dropped) /\ SamePlay(oldest, dropped)
      /\ dropped.pending = Of(oldest.pending, Kinds \ Link) /\ dropped.lies = oldest.lies
      /\ Good /\ ~(spared /\ late) => Account(dropped)
  <2>1. /\ Typed(dropped) /\ SameClients(oldest, dropped) /\ SamePlay(oldest, dropped)
        /\ dropped.pending = Of(oldest.pending, Kinds \ Link) /\ dropped.lies = oldest.lies
        /\ dropped.mistaken = oldest.mistaken
        /\ dropped.inFlight = SubSeq(oldest.inFlight, Len(LinkIds(oldest.pending)) + 1,
                                     Len(oldest.inFlight))
    BY <1>2, DropLinkPendingFacts DEF SamePlay
  <2>2. Good /\ ~spared => Account(dropped)
    BY <1>2, DropLinkPendingAccount
  <2> HIDE DEF dropped
  <2>3. ASSUME Good, spared, ~late
        PROVE  Account(dropped)
    <3>1. oldest = t /\ Account(t) /\ LinkIds(t.pending) = <<>>
      BY <1>2, <1>3, <2>3 DEF Good, late
    <3>2. t.pending \in Seq(Items) /\ t.inFlight \in Seq(1 .. MaxLink)
      BY Fields
    <3>3. dropped.inFlight = t.inFlight
      <4> DEFINE n == Len(t.inFlight)
      <4>1. n \in Nat /\ dropped.inFlight = SubSeq(t.inFlight, 1, n)
        BY <2>1, <3>1, <3>2
      <4>2. SubSeq(t.inFlight, 1, Len(t.inFlight)) = t.inFlight
        BY <3>2, SubSeqFull
      <4> QED
        BY <4>1, <4>2
    <3>4. LinkIds(dropped.pending) = LinkIds(t.pending)
      BY <2>1, <3>1, <3>2, LinkIdsNone
    <3> QED
      BY <2>1, <3>1, <3>3, <3>4 DEF Account, Due, SamePlay
  <2> QED
    BY <2>1, <2>2, <2>3
<1> HIDE DEF dropped
<1>6. /\ Typed(fewer) /\ SamePlay(dropped, fewer) /\ SameClients(dropped, fewer)
      /\ fewer.pending = Of(dropped.pending, Kinds \ {"beacon"})
      /\ fewer.lies = dropped.lies
      /\ Account(dropped) => Account(fewer)
  <2> DEFINE K == Kinds \ {"beacon"}
  <2>1. Link \subseteq K
    BY DEF Link, Kinds
  <2>2. fewer = [dropped EXCEPT !.pending = Of(dropped.pending, K)]
    OBVIOUS
  <2> HIDE DEF fewer, K
  <2> SUFFICES /\ Typed(fewer) /\ SamePlay(dropped, fewer) /\ SameClients(dropped, fewer)
               /\ fewer.pending = Of(dropped.pending, K)
               /\ fewer.lies = dropped.lies
               /\ Account(dropped) => Account(fewer)
    BY DEF K
  <2> QED
    BY <1>5, <2>1, <2>2, DropKind
<1> HIDE DEF fewer, u
<1>7. /\ u \in Stations /\ SamePlay(fewer, u) /\ SameClients(fewer, u)
      /\ u.pending = fewer.pending /\ u.lies = fewer.lies /\ u.inFlight = fewer.inFlight
      /\ u.mistaken = (fewer.mistaken \/ (spared /\ late))
  <2>1. fewer \in Stations /\ (fewer.mistaken \/ (spared /\ late)) \in BOOLEAN
    BY <1>6, Fields
  <2> QED
    BY <1>4, <2>1 DEF Stations, SamePlay, SameClients
<1>8. Typed(u)
  BY <1>6, <1>7, TypedQueue
<1>9. Good => Account(u)
  <2>1. CASE spared /\ late
    BY <1>2, <1>5, <1>6, <1>7, <2>1 DEF Account
  <2>2. CASE ~(spared /\ late)
    BY <1>5, <1>6, <1>7, <2>2 DEF Account, Due, SamePlay
  <2> QED
    BY <2>1, <2>2
<1>10. SameClients(t, u) /\ SamePlay(oldest, u)
  BY <1>2, <1>5, <1>6, <1>7 DEF SameClients, SamePlay
<1> QED
  BY <1>2, <1>5, <1>6, <1>7, <1>8, <1>9, <1>10 DEF u, SamePlay, Good, cuts, drops

LEMMA TuneStopFacts ==
  ASSUME NEW t, Typed(t)
  PROVE  LET u == TuneStop(t)
         IN  /\ Typed(u) /\ SameClients(t, u) /\ u.pending = Of(t.pending, Kinds \ {"tone"})
             /\ u.current = t.current /\ u.transmitting = t.transmitting
             /\ u.keying = t.keying /\ u.air = t.air
             /\ u.mistaken = (t.mistaken \/ (t.playingTest /\ t.waiting /\ t.keying))
             /\ ~t.playingTest => SamePlay(t, u)
             /\ t.playingTest => ~u.waiting /\ u.flush /\ u.cutShort /\ ~u.playingTest
             /\ Account(t) => Account(u)
<1> DEFINE K == Kinds \ {"tone"}
           queued == [t EXCEPT !.pending = Of(t.pending, K)]
           u == TuneStop(t)
<1>1. t \in Stations /\ t.playingTest \in BOOLEAN /\ t.mistaken \in BOOLEAN
      /\ Link \subseteq K
  BY Fields DEF Link, Kinds
<1>2. u = IF t.playingTest
          THEN [queued EXCEPT !.waiting = FALSE, !.flush = TRUE, !.cutShort = TRUE,
                              !.playingTest = FALSE,
                              !.mistaken = @ \/ (t.waiting /\ t.keying)]
          ELSE queued
  BY DEF TuneStop
<1> SUFFICES /\ Typed(u) /\ SameClients(t, u) /\ u.pending = Of(t.pending, K)
             /\ u.current = t.current /\ u.transmitting = t.transmitting
             /\ u.keying = t.keying /\ u.air = t.air
             /\ u.mistaken = (t.mistaken \/ (t.playingTest /\ t.waiting /\ t.keying))
             /\ ~t.playingTest => SamePlay(t, u)
             /\ t.playingTest => ~u.waiting /\ u.flush /\ u.cutShort /\ ~u.playingTest
             /\ Account(t) => Account(u)
  OBVIOUS
<1> HIDE DEF K
<1>3. /\ Typed(queued) /\ SamePlay(t, queued) /\ SameClients(t, queued)
      /\ queued.pending = Of(t.pending, K) /\ queued.inFlight = t.inFlight
      /\ queued.mistaken = t.mistaken
      /\ Account(t) => Account(queued)
  BY <1>1, DropKind
<1> HIDE DEF queued, u
<1>4. CASE ~t.playingTest
  <2>1. u = queued /\ t.mistaken \in BOOLEAN
    BY <1>1, <1>2, <1>4
  <2> QED
    BY <1>3, <1>4, <2>1 DEF SamePlay
<1>5. CASE t.playingTest
  <2>1. queued \in Stations /\ Queued(queued.pending)
    BY <1>3, Fields
  <2>2. /\ u \in Stations /\ SameClients(queued, u) /\ u.pending = queued.pending
        /\ u.current = queued.current /\ u.transmitting = queued.transmitting
        /\ u.keying = queued.keying /\ ~u.waiting /\ u.flush /\ u.cutShort /\ ~u.playingTest
        /\ u.inFlight = queued.inFlight /\ u.lies = queued.lies /\ u.air = queued.air
        /\ u.mistaken = (queued.mistaken \/ (t.waiting /\ t.keying))
    <3> DEFINE off == queued.mistaken \/ (t.waiting /\ t.keying)
    <3>1. off \in BOOLEAN
      OBVIOUS
    <3>2. u = [queued EXCEPT !.waiting = FALSE, !.flush = TRUE, !.cutShort = TRUE,
                             !.playingTest = FALSE, !.mistaken = off]
      BY <1>2, <1>5
    <3> HIDE DEF off
    <3>3. u \in Stations
      BY <2>1, <3>1, <3>2 DEF Stations
    <3>4. /\ u.queue = queued.queue /\ u.onAir = queued.onAir /\ u.open = queued.open
          /\ u.spoiled = queued.spoiled /\ u.lies = queued.lies /\ u.pending = queued.pending
          /\ u.current = queued.current /\ u.transmitting = queued.transmitting
      BY <2>1, <3>2 DEF Stations
    <3>5. /\ u.keying = queued.keying /\ ~u.waiting /\ u.flush /\ u.cutShort
          /\ ~u.playingTest /\ u.inFlight = queued.inFlight /\ u.air = queued.air
          /\ u.mistaken = off
      BY <2>1, <3>2 DEF Stations
    <3> QED
      BY <3>3, <3>4, <3>5 DEF SameClients, off
  <2>3. Typed(u)
    BY <2>1, <2>2, TypedQueue
  <2>4. SameClients(t, u)
    BY <1>3, <2>2 DEF SameClients
  <2>5. Account(queued) => Account(u)
    <3>1. Due(u) = Due(queued)
      BY <2>2 DEF Due
    <3> QED
      BY <2>2, <3>1 DEF Account
  <2>6. /\ u.current = t.current /\ u.transmitting = t.transmitting
        /\ u.keying = t.keying /\ u.air = t.air /\ u.pending = Of(t.pending, K)
        /\ u.mistaken = (t.mistaken \/ (t.waiting /\ t.keying))
    BY <1>3, <2>2 DEF SamePlay
  <2> QED
    BY <1>3, <1>5, <2>2, <2>3, <2>4, <2>5, <2>6
<1> QED
  BY <1>1, <1>4, <1>5

LEMMA SendDatagramFacts ==
  ASSUME NEW t, Typed(t), NEW u \in SendDatagram(t)
  PROVE  /\ Typed(u) /\ SamePlay(t, u) /\ u.pending = t.pending /\ u.lies = t.lies
         /\ u.onAir = t.onAir /\ u.spoiled = t.spoiled
         /\ \E id \in 1 .. MaxDatagrams, left \in 1 .. 2 :
              /\ id \notin t.open /\ u.open = t.open \cup {id}
              /\ u.queue = Append(t.queue, [id |-> id, left |-> left])
         /\ Account(t) => Account(u)
<1> DEFINE id == Fresh(t.open, MaxDatagrams)
<1>1. PICK bursts \in 1 .. 2 :
        /\ Cardinality(t.open) # MaxDatagrams
        /\ u = [t EXCEPT !.queue = Append(t.queue, [id |-> id, left |-> bursts]),
                         !.open = t.open \cup {id}]
  <2>1. t \in Stations
    BY Fields
  <2> QED
    BY <2>1 DEF SendDatagram, Stations
<1>2. id \in 1 .. MaxDatagrams /\ id \notin t.open
  <2>1. MaxDatagrams \in Nat /\ t.open \subseteq 1 .. MaxDatagrams
    BY Bounds, Fields
  <2> QED
    BY <1>1, <2>1, FreshFacts
<1> HIDE DEF id
<1> DEFINE e == [id |-> id, left |-> bursts]
           q == Append(t.queue, e)
<1>3. t \in Stations /\ Queued(t.pending) /\ t.open \subseteq 1 .. MaxDatagrams
      /\ q \in Seq([id : 1 .. MaxDatagrams, left : 1 .. 2])
  <2>1. t.queue \in Seq([id : 1 .. MaxDatagrams, left : 1 .. 2])
    BY Fields
  <2>2. e \in [id : 1 .. MaxDatagrams, left : 1 .. 2]
    BY <1>2
  <2> HIDE DEF e
  <2> QED
    BY <2>1, <2>2, Fields
<1>4. u = [t EXCEPT !.queue = q, !.open = t.open \cup {id}]
  BY <1>1
<1>5. q = Append(t.queue, [id |-> id, left |-> bursts])
  OBVIOUS
<1> HIDE DEF q
<1>6. /\ u \in Stations /\ SamePlay(t, u) /\ u.pending = t.pending /\ u.lies = t.lies
      /\ u.onAir = t.onAir /\ u.open = t.open \cup {id} /\ u.queue = q
      /\ u.inFlight = t.inFlight /\ u.mistaken = t.mistaken /\ u.spoiled = t.spoiled
  BY <1>2, <1>3, <1>4 DEF Stations, SamePlay
<1>7. Typed(u)
  BY <1>3, <1>6, TypedQueue
<1>8. Account(t) => Account(u)
  BY <1>6 DEF Account, Due, SamePlay
<1> QED
  BY <1>2, <1>5, <1>6, <1>7, <1>8

-----------------------------------------------------------------------------
(* What is next. *)

\* feed_datagram takes a burst of the datagram in front, the last with it.
FedOne(t, u) ==
  /\ t.pending = <<>> /\ t.queue # <<>>
  /\ LET front == Head(t.queue)
     IN  /\ u.pending = <<Item("datagram", front.id, front.left = 1)>>
         /\ front.left = 1 => u.queue = Tail(t.queue)
         /\ front.left # 1 => u.queue = [t.queue EXCEPT ![1].left = front.left - 1]

LEMMA FedFacts ==
  ASSUME NEW t, Typed(t), NEW u \in Fed(t)
  PROVE  /\ Typed(u) /\ SamePlay(t, u) /\ u.lies = t.lies /\ u.onAir = t.onAir
         /\ u.open = t.open /\ u.spoiled = t.spoiled /\ u.engine = t.engine
         /\ u = t \/ FedOne(t, u)
         /\ Account(t) => Account(u)
<1>1. CASE u = t
  BY <1>1 DEF SamePlay
<1>2. CASE u # t
  <2> DEFINE front == Head(t.queue)
             last == front.left = 1
             x == Item("datagram", front.id, last)
             q == IF last THEN Tail(t.queue) ELSE [t.queue EXCEPT ![1].left = front.left - 1]
             Entries == [id : 1 .. MaxDatagrams, left : 1 .. 2]
  <2>1. t \in Stations /\ t.queue \in Seq(Entries)
    BY Fields
  <2>2. /\ t.pending = <<>> /\ t.queue # <<>>
        /\ u = [t EXCEPT !.pending = <<x>>, !.queue = q]
    BY <1>2, <2>1 DEF Fed, Stations
  <2>3. front \in Entries /\ Tail(t.queue) \in Seq(Entries) /\ front = t.queue[1]
        /\ 1 \in 1 .. Len(t.queue)
    <3> HIDE DEF Entries
    <3> QED
      BY <2>1, <2>2
  <2>4. q \in Seq(Entries)
    <3>1. CASE last
      BY <2>3, <3>1
    <3>2. CASE ~last
      <4> DEFINE n == Len(t.queue)
                 e == [t.queue[1] EXCEPT !.left = front.left - 1]
      <4>1. e \in Entries
        BY <2>3, <3>2
      <4>2. q = [t.queue EXCEPT ![1] = e]
        BY <3>2
      <4> HIDE DEF e, Entries, q
      <4>3. n \in Nat /\ t.queue \in [1 .. n -> Entries]
        BY <2>1, LenProperties
      <4> HIDE DEF n
      <4>4. q \in [1 .. n -> Entries]
        BY <4>1, <4>2, <4>3
      <4> QED
        BY <4>3, <4>4, SeqDef
    <3> QED
      BY <3>1, <3>2
  <2>5. x \in Items /\ x.what = "datagram" /\ x.id \in 1 .. MaxDatagrams /\ ~IsLink(x)
        /\ x.what \in Kinds
    BY <2>3 DEF Item, Items, Kinds, Link, IsLink
  <2>6. FedOne(t, [pending |-> <<x>>, queue |-> q])
    BY <2>2 DEF FedOne
  <2> HIDE DEF x, q, front, last
  <2> DEFINE p == <<x>>
  <2>7. Queued(p) /\ p \in Seq(Items) /\ LinkIds(p) = <<>>
    <3>1. p = Append(<<>>, x) /\ <<>> \in Seq(Items)
      BY EmptySeq
    <3>2. Queued(p)
      BY <2>5, <3>1, QueuedAppend, QueuedEmpty
    <3>3. LinkIds(p) = LinkIds(<<>>)
      BY <2>5, <3>1, LinkIdsAppend
    <3> QED
      BY <3>2, <3>3, LinkIdsEmpty DEF Queued
  <2> HIDE DEF p
  <2>8. /\ u \in Stations /\ SamePlay(t, u) /\ u.lies = t.lies /\ u.onAir = t.onAir
        /\ u.open = t.open /\ u.engine = t.engine /\ u.inFlight = t.inFlight
        /\ u.pending = p /\ u.queue = q
        /\ u.mistaken = t.mistaken /\ u.spoiled = t.spoiled
    BY <2>1, <2>2, <2>4, <2>7 DEF Stations, SamePlay, p
  <2>9. Typed(u)
    BY <2>7, <2>8, TypedQueue
  <2>10. Account(t) => Account(u)
    BY <2>2, <2>7, <2>8, LinkIdsEmpty DEF Account, Due, SamePlay
  <2>11. FedOne(t, u)
    BY <2>6, <2>8 DEF FedOne, p
  <2> QED
    BY <2>8, <2>9, <2>10, <2>11
<1> QED
  BY <1>1, <1>2

\* What is taken from the front.
LEMMA RestFacts ==
  ASSUME NEW t, Typed(t), t.pending # <<>>
  PROVE  LET u == [t EXCEPT !.pending = Tail(t.pending)]
         IN  /\ Typed(u) /\ SamePlay(t, u) /\ SameClients(t, u) /\ u.engine = t.engine
             /\ u.pending = Tail(t.pending) /\ u.inFlight = t.inFlight /\ u.lies = t.lies
             /\ u.mistaken = t.mistaken
             /\ ~IsLink(Head(t.pending)) /\ Account(t) => Account(u)
<1> DEFINE p == Tail(t.pending)
           u == [t EXCEPT !.pending = p]
<1>1. t \in Stations /\ Queued(t.pending) /\ t.pending \in Seq(Items)
  BY Fields
<1>2. Queued(p) /\ p \in Seq(Items)
  BY <1>1, QueuedTail DEF Queued
<1>3. LinkIds(t.pending) = (IF IsLink(Head(t.pending)) THEN <<Head(t.pending).id>> ELSE <<>>)
                             \o LinkIds(p)
      /\ LinkIds(p) \in Seq(Nat)
  BY <1>1, <1>2, LinkIdsHead, LinkIdsType
<1>4. ~IsLink(Head(t.pending)) => LinkIds(t.pending) = LinkIds(p)
  BY <1>3
<1> HIDE DEF p
<1>5. /\ u \in Stations /\ SamePlay(t, u) /\ SameClients(t, u) /\ u.engine = t.engine
      /\ u.pending = p /\ u.inFlight = t.inFlight /\ u.lies = t.lies
      /\ u.mistaken = t.mistaken
  BY <1>1, <1>2 DEF Stations, SamePlay, SameClients
<1> HIDE DEF u
<1>6. Typed(u)
  BY <1>2, <1>5, TypedQueue
<1> QED
  BY <1>4, <1>5, <1>6 DEF u, p, Account, Due, SamePlay

\* The engine's own in front, with nothing keyed, is the oldest it waits for.
LEMMA FrontTold ==
  ASSUME NEW t, Typed(t), t.pending # <<>>
  PROVE  LET u == Told([t EXCEPT !.pending = Tail(t.pending)], "not")
         IN  /\ Typed(u) /\ SamePlay(t, u) /\ SameClients(t, u) /\ u.engine = t.engine
             /\ u.pending = Tail(t.pending)
             /\ Account(t) /\ (~t.keying \/ t.mistaken) /\ IsLink(Head(t.pending))
                => Account(u)
<1> DEFINE rest == [t EXCEPT !.pending = Tail(t.pending)]
           u == Told(rest, "not")
<1>1. /\ Typed(rest) /\ SamePlay(t, rest) /\ SameClients(t, rest)
      /\ rest.engine = t.engine
      /\ rest.pending = Tail(t.pending) /\ rest.inFlight = t.inFlight /\ rest.lies = t.lies
      /\ rest.mistaken = t.mistaken
  BY RestFacts
<1> HIDE DEF rest
<1>2. /\ Typed(u) /\ SameFlow(rest, u) /\ SameClients(rest, u) /\ u.keying = rest.keying
      /\ rest.inFlight # <<>> => u.inFlight = Tail(rest.inFlight)
      /\ u.lies = rest.lies
  BY <1>1, ToldFacts
<1> HIDE DEF u
<1>3. ASSUME Account(t), t.mistaken
      PROVE  Account(u)
  BY <1>1, <1>2, <1>3 DEF Account, SameFlow
<1>4. ASSUME Account(t), ~t.keying, ~t.mistaken, IsLink(Head(t.pending))
      PROVE  Account(u)
  <2> DEFINE id == Head(t.pending).id
             r == LinkIds(Tail(t.pending))
  <2>1. t.inFlight = LinkIds(t.pending) /\ "done" \notin t.lies
    BY <1>4, AccountUnkeyed
  <2>2. t.pending \in Seq(Items)
    BY Fields
  <2>3. LinkIds(t.pending) = <<id>> \o r /\ r \in Seq(Nat) /\ id \in Nat
    <3>1. Head(t.pending) \in Items /\ Tail(t.pending) \in Seq(Items)
          /\ LinkIds(t.pending) = <<Head(t.pending).id>> \o LinkIds(Tail(t.pending))
      BY <1>4, <2>2, LinkIdsHead
    <3> QED
      BY <3>1, LinkIdsType DEF Items
  <2>4. r = LinkIds(u.pending)
    BY <1>1, <1>2 DEF SameFlow
  <2> HIDE DEF id, r
  <2>5. t.inFlight # <<>> /\ Tail(t.inFlight) = r
    BY <2>1, <2>3
  <2>6. ~u.keying
    BY <1>1, <1>2, <1>4 DEF SamePlay
  <2> QED
    BY <1>1, <1>2, <2>1, <2>4, <2>5, <2>6, AccountUnkeyed
<1> QED
  BY <1>1, <1>2, <1>4, <1>3 DEF u, rest, SamePlay, SameFlow, SameClients

\* render_next: what is in front is rendered, or a closing identifier is moot.
RenderedOne(t, u) ==
  LET item == Head(t.pending)
  IN  /\ u.pending = Tail(t.pending) /\ u.current = item /\ u.waiting
      /\ ~u.transmitting /\ u.keying = IsLink(item) /\ u.flush = t.flush
      /\ u.queue = t.queue /\ u.open = t.open /\ u.lies = t.lies /\ u.spoiled = t.spoiled
      /\ u.onAir = IF item.last THEN item.id ELSE t.onAir

LEMMA RenderedFacts ==
  ASSUME NEW t, Typed(t), t.pending # <<>>, NEW u \in Rendered(t)
  PROVE  /\ Typed(u)
         /\ Idle(t) /\ Account(t) =>
              /\ Account(u) /\ Flow(u)
              /\ \/ RenderedOne(t, u)
                 \/ /\ SamePlay(t, u) /\ SameClients(t, u) /\ IsLink(Head(t.pending))
                    /\ u.pending = Tail(t.pending)
<1> DEFINE item == Head(t.pending)
           rest == [t EXCEPT !.pending = Tail(t.pending)]
           play == IF item.what = "closing" THEN t.playingTest ELSE item.what = "tone"
           air == IF item.last THEN item.id ELSE t.onAir
           key == IsLink(item)
           one == [rest EXCEPT !.current = item, !.waiting = TRUE, !.keying = key,
                               !.onAir = air, !.playingTest = play]
<1>0. t \in Stations
  BY Fields
<1>1. u = one \/ (item.what = "closing" /\ u = Told(rest, "not"))
  <2>1. rest.onAir = t.onAir /\ rest.playingTest = t.playingTest
    BY <1>0 DEF Stations
  <2>2. one = [rest EXCEPT !.current = item, !.waiting = TRUE,
                      !.keying = IsLink(item),
                      !.onAir = IF item.last THEN item.id ELSE @,
                      !.playingTest = IF item.what = "closing" THEN @
                                      ELSE item.what = "tone"]
    <3> HIDE DEF rest
    <3> QED
      BY <2>1
  <2> HIDE DEF one
  <2> QED
    BY <2>2 DEF Rendered
<1>2. CASE item.what = "closing" /\ u = Told(rest, "not")
  <2>1. IsLink(item) /\ (Idle(t) => ~t.keying \/ t.mistaken)
    BY <1>2 DEF IsLink, Link, Idle
  <2>2. Typed(u) /\ SamePlay(t, u) /\ SameClients(t, u) /\ u.pending = Tail(t.pending)
        /\ (Idle(t) /\ Account(t) => Account(u))
    BY <1>2, <2>1, FrontTold
  <2>3. Idle(t) => Flow(u)
    BY <2>2, IdleFlow, SamePlayFlow
  <2> QED
    BY <2>1, <2>2, <2>3
<1>3. CASE u = one
  <2>1. /\ Typed(rest) /\ SamePlay(t, rest) /\ SameClients(t, rest)
        /\ rest.pending = Tail(t.pending) /\ rest.inFlight = t.inFlight /\ rest.lies = t.lies
        /\ rest.spoiled = t.spoiled /\ rest.mistaken = t.mistaken
    <3> HIDE DEF one, play, air, key
    <3>1. t \in Stations
      BY Fields
    <3> QED
      BY <3>1, RestFacts DEF Stations
  <2>2. item \in Items /\ item.what \in Kinds /\ (item.last => item.id \in 1 .. MaxDatagrams)
    <3>1. Queued(t.pending)
      BY Fields
    <3> QED
      BY <3>1, QueuedTail
  <2>3. air \in 0 .. MaxDatagrams
    <3>1. t.onAir \in 0 .. MaxDatagrams /\ MaxDatagrams \in Nat
      BY Fields, Bounds
    <3>2. item.last => air = item.id /\ item.id \in 0 .. MaxDatagrams
      BY <2>2, <3>1
    <3> QED
      BY <3>1, <3>2
  <2>4. play \in BOOLEAN /\ key \in BOOLEAN
        /\ (play => item.what \in {"tone", "closing"})
    <3>1. t.playingTest \in BOOLEAN
      BY Fields
    <3>2. CASE item.what = "closing"
      BY <3>1, <3>2 DEF IsLink
    <3>3. CASE item.what # "closing"
      BY <3>3 DEF IsLink
    <3> QED
      BY <3>2, <3>3
  <2>5. air = (IF item.last THEN item.id ELSE t.onAir) /\ key = IsLink(item)
    OBVIOUS
  <2> HIDE DEF rest, play, air, key
  <2>6. rest \in Stations /\ Queued(rest.pending)
    BY <2>1, Fields
  <2>7. /\ one \in Stations /\ one.pending = rest.pending /\ one.current = item
        /\ one.waiting /\ one.transmitting = rest.transmitting /\ one.keying = key
        /\ one.flush = rest.flush /\ one.queue = rest.queue /\ one.open = rest.open
        /\ one.lies = rest.lies /\ one.onAir = air /\ one.playingTest = play
        /\ one.inFlight = rest.inFlight /\ one.spoiled = rest.spoiled
        /\ one.mistaken = rest.mistaken
    BY <2>2, <2>3, <2>4, <2>6 DEF Stations
  <2>8. Typed(one)
    BY <2>6, <2>7, TypedQueue
  <2> HIDE DEF one
  <2>9. ASSUME Idle(t)
        PROVE  RenderedOne(t, one)
    BY <2>1, <2>5, <2>7, <2>9 DEF RenderedOne, SamePlay, SameClients, Idle
  <2>10. ASSUME Idle(t)
         PROVE  Flow(one)
    BY <2>1, <2>4, <2>5, <2>7, <2>10 DEF Flow, SamePlay, Idle
  <2>11. ASSUME Idle(t), Account(t)
         PROVE  Account(one)
    <3>1. (~t.mistaken => t.inFlight = LinkIds(t.pending)) /\ "done" \notin t.lies
      BY <2>11, AccountUnkeyed DEF Idle, Account
    <3>2. t.pending \in Seq(Items)
      BY Fields
    <3>3. LinkIds(t.pending) = (IF IsLink(item) THEN <<item.id>> ELSE <<>>)
                                 \o LinkIds(Tail(t.pending))
      BY <3>2, LinkIdsHead
    <3> QED
      BY <2>1, <2>5, <2>7, <3>1, <3>3 DEF Account, Due
  <2> QED
    BY <1>3, <2>8, <2>9, <2>10, <2>11
<1> QED
  BY <1>1, <1>2, <1>3

\* refuse: told, and nothing of a session is left; or the client told.
RefusedOne(t, u) ==
  LET rest == [t EXCEPT !.pending = Tail(t.pending)]
  IN  \/ IsLink(Head(t.pending)) /\ SameClients(t, u) /\ u.pending = Tail(t.pending)
      \/ /\ IsLink(Head(t.pending))
         /\ \E v : /\ SameClients(t, v) /\ v.pending = Of(Tail(t.pending), Kinds \ Link)
                   /\ Handed(v, u)
      \/ u = RefuseDatagram(rest, Head(t.pending))

LEMMA RefusedFacts ==
  ASSUME Typed(s), NEW t, Typed(t), t.pending # <<>>, NEW u \in Refused(t)
  PROVE  /\ Typed(u) /\ SamePlay(t, u) /\ RefusedOne(t, u)
         /\ Idle(t) /\ Account(t) => Account(u)
<1> DEFINE item == Head(t.pending)
           rest == [t EXCEPT !.pending = Tail(t.pending)]
           told == Told(rest, "not")
           dropped == DropLinkPending(told)
<1>1. CASE IsLink(item)
  <2>1. u = told \/ u \in Engine(dropped)
    BY <1>1 DEF Refused
  <2>0. Typed(told) /\ SamePlay(t, told) /\ SameClients(t, told)
        /\ told.pending = Tail(t.pending)
        /\ (Account(t) /\ (~t.keying \/ t.mistaken) => Account(told))
    BY <1>1, FrontTold
  <2> HIDE DEF told
  <2>2. Typed(told) /\ SamePlay(t, told) /\ SameClients(t, told)
        /\ told.pending = Tail(t.pending)
        /\ (Idle(t) /\ Account(t) => Account(told) /\ (~told.keying \/ told.mistaken))
    BY <2>0 DEF Idle, SamePlay
  <2>3. Typed(dropped) /\ SamePlay(told, dropped) /\ SameClients(told, dropped)
        /\ dropped.pending = Of(told.pending, Kinds \ Link)
        /\ (Idle(t) /\ Account(t) => Account(dropped))
    BY <2>2, DropLinkPendingFacts, DropLinkPendingAccount DEF SamePlay
  <2> HIDE DEF dropped
  <2>4. CASE u = told
    BY <1>1, <2>2, <2>4 DEF RefusedOne, Idle
  <2>5. CASE u \in Engine(dropped)
    <3>1. Handed(dropped, u)
      BY <2>3, <2>5, EngineFacts
    <3>2. SameClients(t, dropped) /\ dropped.pending = Of(Tail(t.pending), Kinds \ Link)
      BY <2>2, <2>3 DEF SameClients
    <3> QED
      BY <1>1, <2>2, <2>3, <3>1, <3>2 DEF RefusedOne, Handed, SamePlay
  <2> QED
    BY <2>1, <2>4, <2>5
<1>2. CASE ~IsLink(item)
  <2>1. u = RefuseDatagram(rest, item)
    BY <1>2 DEF Refused
  <2>2. Typed(rest) /\ SamePlay(t, rest) /\ (Account(t) => Account(rest))
    BY <1>2, RestFacts
  <2>3. RefusedOne(t, u)
    BY <2>1 DEF RefusedOne
  <2> HIDE DEF rest
  <2>4. Clients(rest, u)
    BY <2>1, <2>2, RefuseDatagramFacts
  <2> QED
    BY <2>2, <2>3, <2>4 DEF Clients, SameFlow, SamePlay, Account, Due
<1> QED
  BY <1>1, <1>2

BeaconsFree(t, u) ==
  /\ SamePlay(t, u) /\ SameClients(t, u)
  /\ u.pending = t.pending \/ u.pending = Of(t.pending, Kinds \ {"beacon"})

LEMMA BeaconsDroppedFacts ==
  ASSUME NEW t, Typed(t)
  PROVE  LET u == BeaconsDropped(t)
         IN  /\ Typed(u) /\ BeaconsFree(t, u)
             /\ Account(t) => Account(u)
<1> DEFINE K == Kinds \ {"beacon"}
           dropped == [t EXCEPT !.pending = Of(t.pending, K)]
<1>1. Link \subseteq K
  BY DEF Link, Kinds
<1>2. BeaconsDropped(t) = t \/ BeaconsDropped(t) = dropped
  BY DEF BeaconsDropped
<1>3. BeaconsFree(t, t)
  BY DEF BeaconsFree, SamePlay, SameClients
<1>4. Of(t.pending, K) = Of(t.pending, Kinds \ {"beacon"})
  OBVIOUS
<1> HIDE DEF K
<1>5. /\ Typed(dropped) /\ SamePlay(t, dropped) /\ SameClients(t, dropped)
      /\ dropped.pending = Of(t.pending, K)
      /\ Account(t) => Account(dropped)
  BY <1>1, DropKind
<1> HIDE DEF dropped
<1> QED
  BY <1>2, <1>3, <1>4, <1>5 DEF BeaconsFree

\* start_pending, from where nothing is rendered: a burst fed or not, beacons
\* dropped or not, and what is then in front rendered, refused or left.
LEMMA StartedSteps ==
  ASSUME NEW t, Typed(t), ~t.transmitting, ~t.waiting, NEW u \in Started(t)
  PROVE  \E fed \in Fed(t) :
           \/ u = fed
           \/ u = BeaconsDropped(fed)
           \/ /\ BeaconsDropped(fed).pending # <<>>
              /\ u \in Rendered(BeaconsDropped(fed)) \cup Refused(BeaconsDropped(fed))
<1>1. PICK fed \in Fed(t) :
        u \in IF fed.pending = <<>> THEN {fed}
              ELSE LET v == BeaconsDropped(fed)
                   IN  IF v.pending = <<>> \/ MustHold(v) THEN {v}
                       ELSE Rendered(v) \cup Refused(v)
                              \cup IF MayHold(v) THEN {v} ELSE {}
  BY DEF Started
<1> DEFINE v == BeaconsDropped(fed)
<1>2. u = fed \/ u = v \/ (v.pending # <<>> /\ u \in Rendered(v) \cup Refused(v))
  BY <1>1
<1> HIDE DEF v
<1> QED
  BY <1>2 DEF v

LEMMA StartedFacts ==
  ASSUME Typed(s), NEW t, Typed(t), Account(t), Flow(t), ~t.transmitting,
         NEW u \in Started(t)
  PROVE  /\ Typed(u) /\ Account(u) /\ Flow(u) /\ ~u.transmitting /\ u.flush = t.flush
         /\ t.waiting => u = t
         /\ ~t.waiting /\ t.pending = <<>> /\ u.waiting => ~IsLink(u.current)
<1>1. CASE t.waiting
  BY <1>1 DEF Started
<1>2. CASE ~t.waiting
  <2>0. Idle(t)
    BY <1>2, Fields DEF Flow, Idle
  <2>1. PICK fed \in Fed(t) :
          \/ u = fed
          \/ u = BeaconsDropped(fed)
          \/ /\ BeaconsDropped(fed).pending # <<>>
             /\ u \in Rendered(BeaconsDropped(fed)) \cup Refused(BeaconsDropped(fed))
    BY <1>2, StartedSteps
  <2> DEFINE v == BeaconsDropped(fed)
  <2>2. /\ Typed(fed) /\ SamePlay(t, fed) /\ Account(fed)
        /\ fed = t \/ FedOne(t, fed)
    BY FedFacts
  <2>3. Typed(v) /\ SamePlay(fed, v) /\ Account(v) /\ BeaconsFree(fed, v)
    BY <2>2, BeaconsDroppedFacts DEF BeaconsFree
  <2>10. u = fed \/ u = v \/ (v.pending # <<>> /\ u \in Rendered(v) \cup Refused(v))
    BY <2>1
  <2> HIDE DEF v
  <2>4. Typed(v) /\ SamePlay(t, v) /\ Account(v) /\ Idle(v)
    BY <2>0, <2>2, <2>3 DEF SamePlay, Idle
  <2>5. Typed(fed) /\ SamePlay(t, fed) /\ Account(fed) /\ Idle(fed)
    BY <2>0, <2>2 DEF SamePlay, Idle
  <2>6. CASE u = fed
    BY <1>2, <2>5, <2>6, IdleFlow DEF SamePlay, Idle
  <2>7. CASE u = v
    BY <1>2, <2>4, <2>7, IdleFlow DEF SamePlay, Idle
  <2>8. CASE v.pending # <<>> /\ u \in Refused(v)
    <3>1. Typed(u) /\ Account(u) /\ SamePlay(v, u)
      BY <2>4, <2>8, RefusedFacts
    <3>2. Idle(u)
      BY <2>4, <3>1 DEF SamePlay, Idle
    <3> QED
      BY <1>2, <2>4, <3>1, <3>2, IdleFlow DEF SamePlay, Idle
  <2>9. CASE v.pending # <<>> /\ u \in Rendered(v)
    <3>1. /\ Typed(u) /\ Account(u) /\ Flow(u)
          /\ \/ RenderedOne(v, u)
             \/ SamePlay(v, u) /\ SameClients(v, u) /\ u.pending = Tail(v.pending)
      BY <2>4, <2>9, RenderedFacts
    <3>2. CASE SamePlay(v, u)
      BY <1>2, <2>4, <3>1, <3>2 DEF SamePlay, Idle
    <3>3. CASE RenderedOne(v, u)
      <4>1. ~u.transmitting /\ u.flush = t.flush /\ u.current = Head(v.pending)
        BY <2>4, <3>3 DEF RenderedOne, SamePlay
      <4>2. ASSUME t.pending = <<>>
            PROVE  ~IsLink(Head(v.pending))
        <5>1. v.pending = fed.pending \/ v.pending = Of(fed.pending, Kinds \ {"beacon"})
          BY <2>3 DEF BeaconsFree
        <5>2. fed.pending # <<>>
          BY <2>9, <5>1, OfEmpty
        <5>3. FedOne(t, fed)
          BY <2>2, <4>2, <5>2
        <5>4. fed.pending \in Seq(Items) /\ v.pending \in Seq(Items)
          BY <2>4, <2>5, Fields
        <5>5. \A i \in 1 .. Len(fed.pending) : fed.pending[i].what = "datagram"
          BY <5>3 DEF FedOne, Item
        <5>6. 1 \in 1 .. Len(v.pending) /\ Head(v.pending) = v.pending[1]
          BY <2>9, <5>4
        <5>7. Head(v.pending).what = "datagram"
          <6>1. CASE v.pending = fed.pending
            BY <5>5, <5>6, <6>1
          <6>2. CASE v.pending = Of(fed.pending, Kinds \ {"beacon"})
            <7> DEFINE K == Kinds \ {"beacon"}
            <7>0. v.pending = Of(fed.pending, K)
              BY <6>2
            <7> HIDE DEF K
            <7>1. \A i \in 1 .. Len(Of(fed.pending, K)) : \E j \in 1 .. Len(fed.pending) :
                    Of(fed.pending, K)[i] = fed.pending[j]
              BY <5>4, OfType
            <7> QED
              BY <5>5, <5>6, <7>0, <7>1
          <6> QED
            BY <5>1, <6>1, <6>2
        <5> QED
          BY <5>7 DEF IsLink, Link
      <4> QED
        BY <1>2, <3>1, <4>1, <4>2
    <3> QED
      BY <3>1, <3>2, <3>3
  <2> QED
    BY <2>10, <2>6, <2>7, <2>8, <2>9
<1> QED
  BY <1>1, <1>2, Fields

LEMMA StartedType ==
  ASSUME Typed(s), NEW t, Typed(t), NEW u \in Started(t)
  PROVE  Typed(u)
<1>1. CASE t.waiting \/ t.transmitting
  BY <1>1 DEF Started
<1>2. CASE ~t.waiting /\ ~t.transmitting
  <2>1. PICK fed \in Fed(t) :
          \/ u = fed
          \/ u = BeaconsDropped(fed)
          \/ /\ BeaconsDropped(fed).pending # <<>>
             /\ u \in Rendered(BeaconsDropped(fed)) \cup Refused(BeaconsDropped(fed))
    BY <1>2, StartedSteps
  <2>2. Typed(fed)
    BY FedFacts
  <2>3. Typed(BeaconsDropped(fed))
    BY <2>2, BeaconsDroppedFacts
  <2> QED
    BY <2>1, <2>2, <2>3, RenderedFacts, RefusedFacts
<1> QED
  BY <1>1, <1>2

LEMMA NotStartedType ==
  ASSUME NEW t, Typed(t), NEW u \in NotStarted(t)
  PROVE  Typed(u)
BY AbandonIdle, DiscardWaitingFacts DEF NotStarted, DropLate

LEMMA KeyedFacts ==
  ASSUME NEW t, Typed(t)
  PROVE  LET u == Keyed(t)
         IN  /\ Typed(u) /\ SameClients(t, u) /\ u.lies = t.lies /\ u.pending = t.pending
             /\ u.current = t.current /\ ~u.waiting /\ u.transmitting
             /\ u.keying = t.keying /\ ~u.cutShort /\ u.flush = t.flush
             /\ u.playingTest = t.playingTest /\ u.air = "nothing" /\ u.engine = t.engine
             /\ u.mistaken = t.mistaken
             /\ t.flush /\ t.onAir # 0 => t.onAir \in u.spoiled
             /\ Account(t) => Account(u)
<1> DEFINE u == Keyed(t)
           taken == t.spoiled \cup IF t.flush THEN {t.onAir} \ {0} ELSE {}
<1>1. /\ t \in Stations /\ Queued(t.pending)
      /\ t.spoiled \subseteq taken /\ taken \in SUBSET (1 .. MaxDatagrams)
      /\ t.flush /\ t.onAir # 0 => t.onAir \in taken
  <2>1. t.spoiled \subseteq 1 .. MaxDatagrams /\ t.onAir \in 0 .. MaxDatagrams
        /\ MaxDatagrams \in Nat
    BY Fields, Bounds
  <2>2. {t.onAir} \ {0} \subseteq 1 .. MaxDatagrams
    BY <2>1
  <2> QED
    BY <2>1, <2>2, Fields
<1>2. u = [t EXCEPT !.waiting = FALSE, !.transmitting = TRUE, !.cutShort = FALSE,
                    !.air = "nothing", !.spoiled = taken]
  BY <1>1 DEF Keyed, Stations
<1> HIDE DEF u, taken
<1>3. /\ u \in Stations /\ SameClients(t, u) /\ u.lies = t.lies /\ u.pending = t.pending
      /\ u.current = t.current /\ ~u.waiting /\ u.transmitting
      /\ u.keying = t.keying /\ ~u.cutShort /\ u.flush = t.flush
      /\ u.playingTest = t.playingTest /\ u.air = "nothing" /\ u.inFlight = t.inFlight
      /\ u.engine = t.engine /\ u.mistaken = t.mistaken /\ u.spoiled = taken
  BY <1>1, <1>2 DEF Stations, SameClients
<1>4. Typed(u)
  BY <1>1, <1>3, TypedQueue
<1> QED
  BY <1>1, <1>3, <1>4 DEF u, Account, Due

LEMMA NotStartedFacts ==
  ASSUME NEW t, Typed(t), Account(t), Flow(t), ~t.transmitting, NEW u \in NotStarted(t)
  PROVE  /\ Typed(u) /\ Account(u) /\ Flow(u) /\ ~u.transmitting
         /\ u.flush = t.flush \/ u.flush
<1>1. KeyedLink(t)
  BY FlowKeyedLink
<1>2. CASE u = t
  BY <1>2
<1>3. CASE u = Abandon(t)
  BY <1>1, <1>3, AbandonIdle, IdleFlow DEF Idle
<1>4. CASE Late(t) /\ u = DropLate(t)
  <2>1. t.keying /\ IsLink(t.current)
    BY <1>4 DEF Late, Flow, IsLink, Link, Slotted
  <2>2. u = DiscardWaiting(t)
    BY <1>4 DEF DropLate
  <2>3. Account(u)
    BY <2>1, <2>2, LetGo
  <2>4. /\ Typed(u) /\ u.transmitting = t.transmitting /\ ~u.waiting /\ ~u.keying
        /\ u.flush = t.flush
    BY <2>2, DiscardWaitingFacts
  <2>5. Idle(u)
    BY <2>4 DEF Idle
  <2> QED
    BY <2>3, <2>4, <2>5, IdleFlow
<1> QED
  BY <1>2, <1>3, <1>4 DEF NotStarted

-----------------------------------------------------------------------------
(* Types. *)

TypeInv ==
  /\ pass \in {"commands", "capture", "flush", "fill"}
  /\ card \in Cards
  /\ Typed(s)

LEMMA TypeInit == Init => TypeInv
<1> SUFFICES ASSUME Init
             PROVE  TypeInv
  OBVIOUS
<1>1. MaxDatagrams \in Nat /\ 0 \in 0 .. MaxDatagrams
  <2>1. MaxDatagrams \in Nat
    BY Bounds
  <2> QED
    BY <2>1
<1>2. <<>> \in Seq(Items) /\ <<>> \in Seq([id : 1 .. MaxDatagrams, left : 1 .. 2])
      /\ <<>> \in Seq(1 .. MaxLink)
  BY EmptySeq
<1>3. s \in Stations /\ s.pending = <<>>
  BY <1>1, <1>2, NoItemType DEF Init, Stations
<1>4. card \in Cards /\ pass = "commands"
  BY NoItemType DEF Init, Cards
<1>5. Typed(s)
  BY <1>3, QueuedEmpty, TypedQueue
<1> QED
  BY <1>4, <1>5 DEF TypeInv

LEMMA ReadType ==
  ASSUME NEW t, Typed(t), NEW u \in Read(t)
  PROVE  Typed(u)
<1>1. CASE u = t
  BY <1>1
<1>2. CASE u # t
  <2>1. t.transmitting /\ (u = CardDroppedLate(t, TRUE) \/ u = CardDroppedLate(t, FALSE))
    BY <1>2 DEF Read, CardDroppedLate
  <2>2. Typed(CardDroppedLate(t, TRUE))
        /\ CardDroppedLate(t, FALSE) = Abandon(CardDroppedLate(t, TRUE))
    BY <2>1, CardDroppedLateFacts
  <2> QED
    BY <2>1, <2>2, AbandonIdle
<1> QED
  BY <1>1, <1>2

LEMMA HeardType ==
  ASSUME Typed(s), NEW t, Typed(t), NEW u \in Heard(t)
  PROVE  Typed(u)
<1> DEFINE ends == Finishes(t) \cup {t, Abandon(t), Tripped(t), Abandon(Tripped(t))}
<1>1. PICK v \in ends : u \in Engine(v)
  BY DEF Heard
<1>2. Typed(v)
  BY <1>1, FinishesIdle, AbandonIdle, TrippedFacts
<1> QED
  BY <1>1, <1>2, EngineFacts DEF Handed

LEMMA AskedType ==
  ASSUME Typed(s), NEW ask \in Commands, NEW u \in Asked(s, ask)
  PROVE  Typed(u)
<1>1. CASE ask = "call"
  <2>1. u \in HandedOver([s EXCEPT !.engine = "busy"])
    BY <1>1 DEF Asked
  <2>2. u \in Engine(s)
    BY <2>1 DEF Engine
  <2> QED
    BY <2>2, EngineFacts DEF Handed
<1>2. CASE ask = "abort"
  <2>1. u \in Engine(Abort(s)) /\ Typed(Abort(s))
    BY <1>2, AbortFacts DEF Asked
  <2> QED
    BY <2>1, EngineFacts DEF Handed
<1>3. CASE ask = "beacon"
  BY <1>3, AskedOwn DEF Asked
<1>4. CASE ask = "tune"
  BY <1>4, AskedOwn DEF Asked
<1>5. CASE ask = "stop"
  BY <1>5, TuneStopFacts DEF Asked
<1>6. CASE ask = "datagram"
  BY <1>6, SendDatagramFacts DEF Asked
<1> QED
  BY <1>1, <1>2, <1>3, <1>4, <1>5, <1>6 DEF Commands

\* A field of the run loop's or of the card's.
LEMMA FlushedFacts ==
  ASSUME NEW t, Typed(t)
  PROVE  LET u == [t EXCEPT !.flush = FALSE]
         IN  /\ Typed(u) /\ SameClients(t, u) /\ u.pending = t.pending
             /\ u.current = t.current /\ u.waiting = t.waiting
             /\ u.transmitting = t.transmitting /\ u.keying = t.keying
             /\ u.cutShort = t.cutShort /\ ~u.flush
             /\ u.playingTest = t.playingTest /\ u.air = t.air /\ u.lies = t.lies
             /\ u.mistaken = t.mistaken /\ u.spoiled = t.spoiled
             /\ Account(t) => Account(u)
<1> DEFINE u == [t EXCEPT !.flush = FALSE]
<1>1. t \in Stations /\ Queued(t.pending)
  BY Fields
<1>2. /\ u \in Stations /\ SameClients(t, u) /\ u.pending = t.pending
      /\ u.current = t.current /\ u.waiting = t.waiting
      /\ u.transmitting = t.transmitting /\ u.keying = t.keying
      /\ u.cutShort = t.cutShort /\ ~u.flush
      /\ u.playingTest = t.playingTest /\ u.air = t.air
      /\ u.inFlight = t.inFlight /\ u.lies = t.lies
      /\ u.mistaken = t.mistaken /\ u.spoiled = t.spoiled
  BY <1>1 DEF Stations, SameClients
<1> HIDE DEF u
<1>3. Typed(u)
  BY <1>1, <1>2, TypedQueue
<1> QED
  BY <1>2, <1>3 DEF u, Account, Due

LEMMA AirFacts ==
  ASSUME NEW t, Typed(t), NEW air \in {"nothing", "header", "whole"}
  PROVE  LET u == [t EXCEPT !.air = air]
         IN  /\ Typed(u) /\ SameClients(t, u) /\ u.pending = t.pending
             /\ u.current = t.current /\ u.waiting = t.waiting
             /\ u.transmitting = t.transmitting /\ u.keying = t.keying
             /\ u.cutShort = t.cutShort /\ u.flush = t.flush
             /\ u.playingTest = t.playingTest /\ u.air = air /\ u.lies = t.lies
             /\ u.mistaken = t.mistaken /\ u.spoiled = t.spoiled
             /\ Account(t) => Account(u)
<1> DEFINE u == [t EXCEPT !.air = air]
<1>1. t \in Stations /\ Queued(t.pending)
  BY Fields
<1>2. /\ u \in Stations /\ SameClients(t, u) /\ u.pending = t.pending
      /\ u.current = t.current /\ u.waiting = t.waiting
      /\ u.transmitting = t.transmitting /\ u.keying = t.keying
      /\ u.cutShort = t.cutShort /\ u.flush = t.flush
      /\ u.playingTest = t.playingTest /\ u.air = air
      /\ u.inFlight = t.inFlight /\ u.lies = t.lies
      /\ u.mistaken = t.mistaken /\ u.spoiled = t.spoiled
  BY <1>1 DEF Stations, SameClients
<1> HIDE DEF u
<1>3. Typed(u)
  BY <1>1, <1>2, TypedQueue
<1> QED
  BY <1>2, <1>3 DEF u, Account, Due

LEMMA TypeNext == TypeInv /\ [Next]_vars => TypeInv'
<1> SUFFICES ASSUME TypeInv, [Next]_vars
             PROVE  TypeInv'
  OBVIOUS
<1> USE DEF TypeInv
<1>1. CASE Command
  <2>1. PICK ask \in Asks : s' \in Asked(s, ask)
    BY <1>1 DEF Command
  <2>2. ask \in Commands
    BY <2>1, Bounds
  <2> QED
    BY <1>1, <2>1, <2>2, AskedType DEF Command
<1>2. CASE EndCommands
  BY <1>2 DEF EndCommands
<1>3. CASE Capture
  <2>1. PICK t \in Read(s) : s' \in Heard(t) \cup Stalled(t)
    BY <1>3 DEF Capture
  <2>2. Typed(t)
    BY <2>1, ReadType
  <2>3. Typed(s')
    BY <2>1, <2>2, HeardType, AbandonIdle DEF Stalled
  <2>4. card' \in Cards /\ pass' = "flush"
    BY <1>3 DEF Capture, Cards
  <2> QED
    BY <2>3, <2>4
<1>4. CASE Flush
  <2>1. Typed([s EXCEPT !.flush = FALSE])
    BY FlushedFacts
  <2>2. Typed(s')
    BY <1>4, <2>1, ReadType DEF Flush
  <2>3. card' \in Cards /\ pass' = "fill"
    BY <1>4, NoItemType DEF Flush, Cards
  <2> QED
    BY <2>2, <2>3
<1>5. CASE FillTransmission
  <2>1. PICK t \in Started(s) :
          \/ s' \in NotStarted(t) /\ UNCHANGED card
          \/ /\ s' = Keyed(t)
             /\ card' = [card EXCEPT !.at = "lead", !.of = t.current,
                                     !.guard = (t.current.what \in Slotted)]
    BY <1>5 DEF FillTransmission
  <2>2. Typed(t) /\ t.current \in Items
    BY <2>1, StartedType, Fields
  <2>3. Typed(s')
    BY <2>1, <2>2, NotStartedType, KeyedFacts
  <2>4. card' \in Cards
    <3> DEFINE guard == t.current.what \in Slotted
    <3>1. guard \in BOOLEAN /\ card \in Cards
      OBVIOUS
    <3>2. card' = card \/ card' = [card EXCEPT !.at = "lead", !.of = t.current, !.guard = guard]
      BY <2>1
    <3> HIDE DEF guard
    <3> QED
      BY <2>2, <3>1, <3>2 DEF Cards
  <2> QED
    BY <1>5, <2>3, <2>4 DEF FillTransmission
<1>6. CASE FillRelease
  <2>1. s' \in Finishes(s) \/ s' = s
    BY <1>6 DEF FillRelease
  <2>2. Typed(s')
    BY <2>1, FinishesIdle
  <2> QED
    BY <1>6, <2>2 DEF FillRelease
<1>7. CASE CardStarts
  BY <1>7, AirFacts DEF CardStarts, Cards
<1>8. CASE CardDrops
  BY <1>8, NoItemType DEF CardDrops, Cards
<1>9. CASE CardDrains
  <2> DEFINE air == IF card.at = "frames" THEN "whole" ELSE s.air
  <2>1. s' = [s EXCEPT !.air = air]
    BY <1>9, Fields DEF CardDrains, Stations
  <2>2. air \in {"nothing", "header", "whole"}
    BY Fields
  <2> HIDE DEF air
  <2>3. Typed(s')
    BY <2>1, <2>2, AirFacts
  <2> QED
    BY <1>9, <2>3, NoItemType DEF CardDrains, Cards
<1>10. CASE UNCHANGED vars
  BY <1>10 DEF vars
<1> QED
  BY <1>1, <1>2, <1>3, <1>4, <1>5, <1>6, <1>7, <1>8, <1>9, <1>10 DEF Next, Pass, Card

\* The run loop, the card and the station keep to their types, whatever the
\* engine and the watchdog do.
THEOREM TransmitterTypeCorrect == Spec => []TypeOK
<1>1. TypeInv => TypeOK
  BY DEF TypeInv, TypeOK, Typed
<1> QED
  BY <1>1, TypeInit, TypeNext, PTL DEF Spec

-----------------------------------------------------------------------------
(* What the card plays. *)

\* The card plays what is transmitted, unless a flush is still to come; a flush
\* to come finds what was cut, or what the card does not hold to a slot and the
\* engine does not wait for; and how far the card is is how much has radiated.
Fits(t, c) ==
  /\ c.at \in {"lead", "frames"} /\ ~t.flush => t.transmitting /\ c.of = t.current
  /\ t.flush /\ t.transmitting /\ ~t.cutShort => ~IsLink(t.current) /\ ~c.guard
  /\ t.cutShort /\ t.transmitting /\ ~t.flush => c.at \notin {"lead", "frames"}
  /\ c.guard => c.at = "lead" /\ c.of.what \in Slotted
  /\ c.dropped => t.transmitting /\ t.current.what \in Slotted /\ c.at = "empty"
  /\ t.keying /\ t.transmitting /\ ~t.cutShort =>
       \/ c.at = "lead" /\ t.air = "nothing"
       \/ c.at = "frames" /\ t.air = "header"
       \/ c.at = "end" /\ t.air = "whole"
       \/ c.dropped

\* What a pass relies on: a drop is read before a cut, and a flush left for the
\* filling of the card is an abandoned transmission's.
PassFits(t, c, p) ==
  /\ c.dropped /\ p \in {"flush", "fill"} => ~t.cutShort
  /\ p = "fill" /\ t.flush => t.pending = <<>> /\ ~t.waiting /\ ~t.transmitting

FlowInv ==
  /\ TypeInv
  /\ Flow(s) /\ Account(s) /\ Fits(s, card) /\ PassFits(s, card, pass)

LEMMA FitsSame ==
  ASSUME NEW t, NEW u, NEW c, SamePlay(t, u), Fits(t, c)
  PROVE  Fits(u, c)
BY DEF SamePlay, Fits

LEMMA FitsIdle ==
  ASSUME NEW t, NEW c, ~t.transmitting, t.flush \/ c.at \notin {"lead", "frames"},
         c.guard => c.at = "lead" /\ c.of.what \in Slotted, ~c.dropped
  PROVE  Fits(t, c)
BY DEF Fits

LEMMA FlowInit == Init => FlowInv
<1> SUFFICES ASSUME Init
             PROVE  FlowInv
  OBVIOUS
<1>1. TypeInv
  BY TypeInit
<1>2. Flow(s) /\ Fits(s, card) /\ PassFits(s, card, pass)
  BY DEF Init, Flow, Fits, PassFits
<1>3. Account(s)
  <2>1. s.inFlight = <<>> /\ s.pending = <<>> /\ ~s.keying /\ "done" \notin s.lies
    BY DEF Init
  <2> QED
    BY <1>1, <2>1, AccountUnkeyed, LinkIdsEmpty DEF TypeInv
<1> QED
  BY <1>1, <1>2, <1>3 DEF FlowInv

\* What is handed over, or queued, leaves it all.
LEMMA HandedFlow ==
  ASSUME NEW t, NEW u, NEW c, Handed(t, u), Flow(t), Account(t), Fits(t, c)
  PROVE  Flow(u) /\ Account(u) /\ Fits(u, c)
BY SamePlayFlow, FitsSame DEF Handed

LEMMA FlowAsked ==
  ASSUME FlowInv, NEW ask \in Commands, NEW u \in Asked(s, ask)
  PROVE  Flow(u) /\ Account(u) /\ Fits(u, card)
<1> USE DEF FlowInv, TypeInv
<1>1. CASE ask = "call"
  <2>1. u \in HandedOver([s EXCEPT !.engine = "busy"])
    BY <1>1 DEF Asked
  <2>2. u \in Engine(s)
    BY <2>1 DEF Engine
  <2> QED
    BY <2>2, EngineFacts, HandedFlow
<1>2. CASE ask = "abort"
  <2> DEFINE v == Abort(s)
             cuts == s.transmitting /\ ~s.playingTest
             drops == s.keying /\ ~s.transmitting /\ s.waiting
  <2>1. /\ Typed(v) /\ v.transmitting = s.transmitting /\ v.playingTest = s.playingTest
        /\ cuts => /\ ~v.waiting /\ v.flush /\ v.cutShort /\ ~v.keying
                   /\ v.current = s.current
        /\ drops => /\ ~v.waiting /\ ~v.keying /\ v.flush = s.flush
                    /\ v.cutShort = s.cutShort
        /\ ~cuts /\ ~drops => SamePlay(s, v)
        /\ Account(v)
    BY AbortFacts
  <2> HIDE DEF v
  <2>2. Flow(v) /\ Fits(v, card)
    <3>1. CASE cuts
      BY <2>1, <3>1 DEF Flow, Fits
    <3>2. CASE ~cuts /\ drops
      BY <2>1, <3>2 DEF Flow, Fits
    <3>3. CASE ~cuts /\ ~drops
      BY <2>1, <3>3, SamePlayFlow, FitsSame
    <3> QED
      BY <3>1, <3>2, <3>3
  <2>3. u \in Engine(v)
    BY <1>2 DEF Asked, v
  <2> QED
    BY <2>1, <2>2, <2>3, EngineFacts, HandedFlow
<1>3. CASE ask = "beacon"
  <2>1. u \in Beacon(s)
    BY <1>3 DEF Asked
  <2>2. SamePlay(s, u) /\ Account(u)
    BY <2>1, AskedOwn
  <2> QED
    BY <2>2, SamePlayFlow, FitsSame
<1>4. CASE ask = "tune"
  <2>1. u \in Tune(s)
    BY <1>4 DEF Asked
  <2>2. SamePlay(s, u) /\ Account(u)
    BY <2>1, AskedOwn
  <2> QED
    BY <2>2, SamePlayFlow, FitsSame
<1>5. CASE ask = "stop"
  <2>1. u = TuneStop(s)
    BY <1>5 DEF Asked
  <2>2. /\ u.current = s.current /\ u.transmitting = s.transmitting
        /\ u.keying = s.keying /\ u.air = s.air
        /\ u.mistaken = (s.mistaken \/ (s.playingTest /\ s.waiting /\ s.keying))
        /\ ~s.playingTest => SamePlay(s, u)
        /\ s.playingTest => ~u.waiting /\ u.flush /\ u.cutShort /\ ~u.playingTest
        /\ Account(u)
    BY <2>1, TuneStopFacts
  <2>3. CASE ~s.playingTest
    BY <2>2, <2>3, SamePlayFlow, FitsSame
  <2>4. CASE s.playingTest
    <3>1. s.keying /\ s.transmitting => s.current.what = "closing"
      BY <2>4 DEF Flow, IsLink, Link
    <3> QED
      BY <2>2, <2>4, <3>1 DEF Flow, Fits
  <2> QED
    BY <2>2, <2>3, <2>4
<1>6. CASE ask = "datagram"
  <2>1. SamePlay(s, u) /\ Account(u)
    BY <1>6, SendDatagramFacts DEF Asked
  <2> QED
    BY <2>1, SamePlayFlow, FitsSame
<1> QED
  BY <1>1, <1>2, <1>3, <1>4, <1>5, <1>6 DEF Commands

\* The card read: a drop is taken, and what was keyed is over.
LEMMA ReadFlow ==
  ASSUME NEW t, Typed(t), Flow(t), Account(t), NEW u \in Read(t),
         card.dropped => t.transmitting
  PROVE  /\ Typed(u) /\ Flow(u) /\ Account(u)
         /\ ~card.dropped => u = t
         /\ card.dropped => /\ ~u.transmitting /\ ~u.waiting
                            /\ u.flush = t.flush \/ (u.flush /\ u.pending = <<>>)
<1>1. CASE ~card.dropped
  BY <1>1 DEF Read
<1>2. CASE card.dropped
  <2> DEFINE v == CardDroppedLate(t, TRUE)
  <2>1. u = v \/ u = CardDroppedLate(t, FALSE)
    BY <1>2 DEF Read
  <2>2. Typed(v) /\ Idle(v) /\ v.flush = t.flush /\ CardDroppedLate(t, FALSE) = Abandon(v)
        /\ Account(v)
    BY <1>2, CardDroppedLateFacts, FlowKeyedLink
  <2> HIDE DEF v
  <2>3. /\ Typed(Abandon(v)) /\ Idle(Abandon(v)) /\ Abandon(v).flush
        /\ Abandon(v).pending = <<>> /\ Account(Abandon(v))
    BY <2>2, AbandonIdle, IdleFlow, FlowKeyedLink
  <2>4. u = v \/ u = Abandon(v)
    BY <2>1, <2>2
  <2> QED
    BY <1>2, <2>2, <2>3, <2>4, IdleFlow DEF Idle
<1> QED
  BY <1>1, <1>2

\* What the engine hears, and the watchdog, whatever it ends.
LEMMA HeardFlow ==
  ASSUME Typed(s), NEW t, Typed(t), Flow(t), Account(t), NEW c, Fits(t, c),
         ~c.dropped, c.at = card.at, NEW u \in Heard(t) \cup Stalled(t)
  PROVE  Flow(u) /\ Account(u) /\ Fits(u, c)
<1> DEFINE over == t.transmitting /\ card.at = "end" /\ ~t.waiting
           Good(v) == Typed(v) /\ Flow(v) /\ Account(v) /\ Fits(v, c)
<1>0. KeyedLink(t)
  BY FlowKeyedLink
<1>1. Good(t)
  OBVIOUS
<1>2. Good(Abandon(t))
  <2>1. Typed(Abandon(t)) /\ Idle(Abandon(t)) /\ Abandon(t).flush /\ Account(Abandon(t))
    BY <1>0, AbandonIdle
  <2>2. c.guard => c.at = "lead" /\ c.of.what \in Slotted
    BY DEF Fits
  <2> QED
    BY <2>1, <2>2, IdleFlow, FitsIdle DEF Idle
<1>3. ASSUME over, NEW v \in Finishes(t)
      PROVE  Good(v)
  <2>1. OverAir(t)
    BY <1>3 DEF Fits, Flow, OverAir
  <2>2. Typed(v) /\ ~v.transmitting /\ ~v.keying /\ ~v.playingTest /\ ~v.waiting
        /\ Account(v)
    BY <1>0, <1>3, <2>1, FinishesIdle
  <2>3. c.at = "end" /\ (c.guard => c.at = "lead" /\ c.of.what \in Slotted)
    BY <1>3 DEF Fits
  <2> QED
    BY <2>2, <2>3, IdleFlow, FitsIdle DEF Idle
<1>4. Good(Tripped(t)) /\ Good(Abandon(Tripped(t)))
  <2> DEFINE v == Tripped(t)
  <2>1. Typed(v) /\ Idle(v) /\ ~v.keying /\ v.flush /\ Account(v)
    BY <1>0, TrippedFacts
  <2> HIDE DEF v
  <2>2. c.guard => c.at = "lead" /\ c.of.what \in Slotted
    BY DEF Fits
  <2>3. Good(v)
    BY <2>1, <2>2, IdleFlow, FitsIdle DEF Idle
  <2>4. /\ Typed(Abandon(v)) /\ Idle(Abandon(v)) /\ Abandon(v).flush /\ Account(Abandon(v))
    BY <2>3, AbandonIdle, FlowKeyedLink
  <2>5. Good(Abandon(v))
    BY <2>2, <2>4, IdleFlow, FitsIdle DEF Idle
  <2> QED
    BY <2>3, <2>5 DEF v
<1>5. CASE u \in Stalled(t)
  BY <1>1, <1>2, <1>5 DEF Stalled
<1>6. CASE u \in Heard(t)
  <2> DEFINE ends == (IF over THEN Finishes(t) ELSE {t})
                       \cup {Abandon(t), Tripped(t), Abandon(Tripped(t))}
  <2>1. PICK v \in ends : u \in Engine(v)
    BY <1>6 DEF Heard
  <2>2. Good(v)
    <3> HIDE DEF Good, over
    <3> QED
      BY <1>1, <1>2, <1>3, <1>4, <2>1
  <2> QED
    BY <2>1, <2>2, EngineFacts, HandedFlow
<1> QED
  BY <1>5, <1>6

LEMMA FlowCapture ==
  ASSUME FlowInv, Capture
  PROVE  Flow(s') /\ Account(s') /\ Fits(s', card') /\ PassFits(s', card', pass')
<1> USE DEF FlowInv, TypeInv
<1>1. PICK t \in Read(s) : s' \in Heard(t) \cup Stalled(t)
  BY DEF Capture
<1>2. /\ card' = [card EXCEPT !.dropped = FALSE] /\ pass' = "flush"
      /\ card'.at = card.at /\ card'.of = card.of /\ card'.guard = card.guard
      /\ ~card'.dropped
  BY DEF Capture, Cards
<1>3. card.dropped => s.transmitting
  BY DEF Fits
<1>4. /\ Typed(t) /\ Flow(t) /\ Account(t)
      /\ ~card.dropped => t = s
      /\ card.dropped => ~t.transmitting
  BY <1>1, <1>3, ReadFlow
<1>5. Fits(t, card')
  <2>1. CASE card.dropped
    <3>1. card.at = "empty" /\ (card.guard => card.at = "lead" /\ card.of.what \in Slotted)
      BY <2>1 DEF Fits
    <3> QED
      BY <1>2, <1>4, <2>1, <3>1, FitsIdle
  <2>2. CASE ~card.dropped
    BY <1>2, <1>4, <2>2 DEF Fits
  <2> QED
    BY <2>1, <2>2
<1>6. Flow(s') /\ Account(s') /\ Fits(s', card')
  BY <1>1, <1>2, <1>4, <1>5, HeardFlow
<1> QED
  BY <1>2, <1>6 DEF PassFits

LEMMA FlowFlush ==
  ASSUME FlowInv, Flush
  PROVE  Flow(s') /\ Account(s') /\ Fits(s', card') /\ PassFits(s', card', pass')
<1> USE DEF FlowInv, TypeInv
<1> DEFINE t == [s EXCEPT !.flush = FALSE]
<1>1. /\ Typed(t) /\ t.current = s.current /\ t.waiting = s.waiting
      /\ t.transmitting = s.transmitting /\ t.keying = s.keying
      /\ t.cutShort = s.cutShort /\ ~t.flush
      /\ t.playingTest = s.playingTest /\ t.air = s.air /\ t.mistaken = s.mistaken
      /\ Account(t)
  BY FlushedFacts
<1>2. s' \in Read(t)
  BY DEF Flush
<1> HIDE DEF t
<1>3. Flow(t)
  BY <1>1 DEF Flow
<1>4. card.dropped => t.transmitting /\ card.at = "empty"
  BY <1>1 DEF Fits
<1>5. /\ Typed(s') /\ Flow(s') /\ Account(s')
      /\ ~card.dropped => s' = t
      /\ card.dropped => /\ ~s'.transmitting /\ ~s'.waiting
                         /\ s'.flush = t.flush \/ (s'.flush /\ s'.pending = <<>>)
  BY <1>1, <1>2, <1>3, <1>4, ReadFlow
<1>6. /\ ~card'.dropped
      /\ s.flush => card'.at = "empty" /\ ~card'.guard
      /\ ~s.flush => card'.at = card.at /\ card'.guard = card.guard /\ card'.of = card.of
  BY DEF Flush, Cards
<1>7. Fits(s', card')
  <2>1. CASE card.dropped
    <3>1. card'.at = "empty" /\ ~card'.guard
      BY <1>4, <1>6, <2>1 DEF Fits
    <3> QED
      BY <1>5, <1>6, <2>1, <3>1, FitsIdle
  <2>2. CASE ~card.dropped /\ s.flush
    <3>1. ~(t.keying /\ t.transmitting /\ ~t.cutShort)
      BY <1>1, <2>2 DEF Fits, Flow
    <3> QED
      BY <1>1, <1>5, <1>6, <2>2, <3>1 DEF Fits
  <2>3. CASE ~card.dropped /\ ~s.flush
    BY <1>1, <1>5, <1>6, <2>3 DEF Fits
  <2> QED
    BY <2>1, <2>2, <2>3
<1>8. PassFits(s', card', pass')
  BY <1>1, <1>5, <1>6 DEF PassFits
<1> QED
  BY <1>5, <1>7, <1>8

LEMMA FlowFill ==
  ASSUME FlowInv, FillTransmission
  PROVE  Flow(s') /\ Account(s') /\ Fits(s', card') /\ PassFits(s', card', pass')
<1> USE DEF FlowInv, TypeInv
<1>0. ~s.transmitting /\ pass = "fill" /\ pass' = "commands"
  BY DEF FillTransmission
<1>1. PICK t \in Started(s) :
        \/ s' \in NotStarted(t) /\ UNCHANGED card
        \/ /\ t.waiting
           /\ s' = Keyed(t)
           /\ card' = [card EXCEPT !.at = "lead", !.of = t.current,
                                   !.guard = (t.current.what \in Slotted)]
  BY DEF FillTransmission
<1>2. /\ Typed(t) /\ Account(t) /\ Flow(t) /\ ~t.transmitting /\ t.flush = s.flush
      /\ s.waiting => t = s
      /\ ~s.waiting /\ s.pending = <<>> /\ t.waiting => ~IsLink(t.current)
  BY <1>0, <1>1, StartedFacts
<1>3. ~card.dropped /\ (card.at \in {"lead", "frames"} => s.flush)
      /\ (card.guard => card.at = "lead" /\ card.of.what \in Slotted)
  BY <1>0 DEF Fits
<1>4. CASE s' \in NotStarted(t) /\ UNCHANGED card
  <2>1. /\ Typed(s') /\ Account(s') /\ Flow(s') /\ ~s'.transmitting
        /\ s'.flush = t.flush \/ s'.flush
    BY <1>2, <1>4, NotStartedFacts
  <2>2. Fits(s', card')
    BY <1>2, <1>3, <1>4, <2>1, FitsIdle
  <2> QED
    BY <1>0, <2>1, <2>2 DEF PassFits
<1>5. CASE /\ t.waiting
           /\ s' = Keyed(t)
           /\ card' = [card EXCEPT !.at = "lead", !.of = t.current,
                                   !.guard = (t.current.what \in Slotted)]
  <2>1. /\ Typed(s') /\ Account(s') /\ s'.current = t.current /\ ~s'.waiting
        /\ s'.transmitting /\ s'.keying = t.keying /\ ~s'.cutShort /\ s'.flush = t.flush
        /\ s'.playingTest = t.playingTest /\ s'.air = "nothing"
    BY <1>2, <1>5, KeyedFacts
  <2>2. card'.at = "lead" /\ card'.of = t.current /\ ~card'.dropped
        /\ card'.guard = (t.current.what \in Slotted)
    BY <1>3, <1>5 DEF Cards
  <2>3. s.flush => ~IsLink(t.current)
    BY <1>0, <1>2, <1>5 DEF PassFits
  <2>4. Flow(s')
    BY <1>2, <1>5, <2>1 DEF Flow
  <2>5. Fits(s', card')
    BY <1>2, <2>1, <2>2, <2>3 DEF Fits, IsLink, Link, Slotted
  <2> QED
    BY <1>0, <2>1, <2>4, <2>5 DEF PassFits
<1> QED
  BY <1>1, <1>4, <1>5

LEMMA FlowRelease ==
  ASSUME FlowInv, FillRelease
  PROVE  Flow(s') /\ Account(s') /\ Fits(s', card') /\ PassFits(s', card', pass')
<1> USE DEF FlowInv, TypeInv
<1>0. s.transmitting /\ pass = "fill" /\ pass' = "commands" /\ card' = card
  BY DEF FillRelease
<1>1. CASE s.cutShort \/ card.at = "end"
  <2>1. s' \in Finishes(s)
    BY <1>1 DEF FillRelease
  <2>2. OverAir(s)
    BY <1>0, <1>1 DEF Fits, Flow, OverAir
  <2>3. /\ ~s'.transmitting /\ ~s'.keying /\ ~s'.playingTest /\ ~s'.waiting
        /\ s'.flush = s.flush \/ s'.flush
        /\ Account(s')
    BY <1>0, <2>1, <2>2, FinishesIdle, FlowKeyedLink DEF Flow
  <2>4. ~card.dropped
    BY <1>0, <1>1 DEF Fits, PassFits
  <2>5. s'.flush \/ card.at \notin {"lead", "frames"}
    BY <1>0, <1>1, <2>3 DEF Fits
  <2>6. card.guard => card.at = "lead" /\ card.of.what \in Slotted
    BY DEF Fits
  <2> QED
    BY <1>0, <2>3, <2>4, <2>5, <2>6, FitsIdle, IdleFlow DEF Idle, PassFits
<1>2. CASE ~(s.cutShort \/ card.at = "end")
  <2>1. s' = s
    BY <1>2 DEF FillRelease
  <2> QED
    BY <1>0, <2>1 DEF PassFits
<1> QED
  BY <1>1, <1>2

LEMMA FlowCard ==
  ASSUME FlowInv, Card
  PROVE  Flow(s') /\ Account(s') /\ Fits(s', card') /\ PassFits(s', card', pass')
<1> USE DEF FlowInv, TypeInv
<1>0. s.transmitting /\ ~s.cutShort /\ ~card.dropped /\ pass' = pass
  BY DEF Card, CardStarts, CardDrops, CardDrains, Plays
<1>1. CASE CardStarts
  <2>1. /\ Typed(s') /\ s'.current = s.current /\ s'.waiting = s.waiting
        /\ s'.transmitting = s.transmitting /\ s'.keying = s.keying
        /\ s'.cutShort = s.cutShort /\ s'.flush = s.flush
        /\ s'.playingTest = s.playingTest /\ s'.air = "header" /\ s'.pending = s.pending
        /\ Account(s')
    BY <1>1, AirFacts DEF CardStarts
  <2>2. card'.at = "frames" /\ card'.of = card.of /\ ~card'.guard /\ ~card'.dropped
        /\ card.at = "lead"
    BY <1>0, <1>1 DEF CardStarts, Cards
  <2> QED
    BY <1>0, <2>1, <2>2 DEF Flow, Fits, PassFits
<1>2. CASE CardDrops
  <2>1. s' = s /\ card.at = "lead" /\ card.guard
    BY <1>2 DEF CardDrops
  <2>2. card'.at = "empty" /\ ~card'.guard /\ card'.dropped
    BY <1>2 DEF CardDrops, Cards
  <2>3. s.current.what \in Slotted
    BY <1>0, <2>1 DEF Fits
  <2> QED
    BY <1>0, <2>1, <2>2, <2>3 DEF Fits, PassFits
<1>3. CASE CardDrains
  <2> DEFINE air == IF card.at = "frames" THEN "whole" ELSE s.air
  <2>0. s' = [s EXCEPT !.air = air] /\ card.at \in {"frames", "empty"}
    BY <1>3, Fields DEF CardDrains, Stations
  <2>1. air \in {"nothing", "header", "whole"} /\ (card.at = "frames" => air = "whole")
    BY Fields
  <2> HIDE DEF air
  <2>2. /\ Typed(s') /\ s'.current = s.current /\ s'.waiting = s.waiting
        /\ s'.transmitting = s.transmitting /\ s'.keying = s.keying
        /\ s'.cutShort = s.cutShort /\ s'.flush = s.flush
        /\ s'.playingTest = s.playingTest /\ s'.air = air /\ s'.pending = s.pending
        /\ Account(s')
    BY <2>0, <2>1, AirFacts, ZenonT(40)
  <2>3. card'.at = "end" /\ ~card'.guard /\ ~card'.dropped
    <3>1. ~card.guard
      BY <2>0 DEF Fits
    <3> QED
      BY <1>0, <1>3, <3>1 DEF CardDrains, Cards
  <2> QED
    BY <1>0, <2>0, <2>1, <2>2, <2>3 DEF Flow, Fits, PassFits
<1> QED
  BY <1>1, <1>2, <1>3 DEF Card

LEMMA FlowNext == FlowInv /\ [Next]_vars => FlowInv'
<1> SUFFICES ASSUME FlowInv, [Next]_vars
             PROVE  FlowInv'
  OBVIOUS
<1>1. TypeInv'
  BY TypeNext DEF FlowInv
<1>2. Flow(s') /\ Account(s') /\ Fits(s', card') /\ PassFits(s', card', pass')
  <2>1. CASE Command
    <3>1. PICK ask \in Asks : s' \in Asked(s, ask)
      BY <2>1 DEF Command
    <3>2. ask \in Commands
      BY <3>1, Bounds
    <3>3. pass = "commands" /\ pass' = "commands" /\ card' = card
      BY <2>1 DEF Command
    <3> QED
      BY <3>1, <3>2, <3>3, FlowAsked DEF PassFits
  <2>2. CASE EndCommands
    BY <2>2 DEF EndCommands, FlowInv, PassFits
  <2>3. CASE Capture
    BY <2>3, FlowCapture
  <2>4. CASE Flush
    BY <2>4, FlowFlush
  <2>5. CASE FillTransmission
    BY <2>5, FlowFill
  <2>6. CASE FillRelease
    BY <2>6, FlowRelease
  <2>7. CASE Card
    BY <2>7, FlowCard
  <2>8. CASE UNCHANGED vars
    BY <2>8 DEF vars, FlowInv
  <2> QED
    BY <2>1, <2>2, <2>3, <2>4, <2>5, <2>6, <2>7, <2>8 DEF Next, Pass
<1> QED
  BY <1>1, <1>2 DEF FlowInv

LEMMA FlowInvariant == Spec => []FlowInv
<1>1. Init => FlowInv
  BY FlowInit
<1>2. FlowInv /\ [Next]_vars => FlowInv'
  BY FlowNext
<1> QED
  BY <1>1, <1>2, PTL DEF Spec

\* The engine waits for word of exactly what it handed over and has not heard
\* of, in its order, through every refusal, abort, drop, abandoned key and
\* watchdog trip, whatever it ends; but for an identifier taken for a test that
\* a trip left marked as playing.
THEOREM EngineAccountMatches == Spec => []AccountMatches
<1>1. FlowInv => AccountMatches
  BY DEF FlowInv, Account, Due, AccountMatches
<1> QED
  BY <1>1, FlowInvariant, PTL

\* Nothing with a header is reported over before its header went out, one cut or
\* given up included, nor anything but what was keyed, but where the account is
\* off (EngineAccountMatches). What has no header, a call, an acceptance or data
\* alone, is over when it is cut, and an identifier in any case.
THEOREM DoneWasRadiated == Spec => []DoneMeansRadiated
<1>1. FlowInv => DoneMeansRadiated
  BY DEF FlowInv, Account, DoneMeansRadiated
<1> QED
  BY <1>1, FlowInvariant, PTL

\* The card plays what is keyed and nothing left of what was given up, however
\* it was: a watchdog trip ends any transmission.
THEOREM CardPlaysTheKeyed == Spec => []CardIsTheKeys
<1>1. FlowInv => CardIsTheKeys
  <2> SUFFICES ASSUME FlowInv
               PROVE  CardIsTheKeys
    OBVIOUS
  <2>1. s.cutShort \in BOOLEAN
    BY Fields DEF FlowInv, TypeInv
  <2> QED
    BY <2>1 DEF FlowInv, Fits, CardIsTheKeys
<1> QED
  BY <1>1, FlowInvariant, PTL

-----------------------------------------------------------------------------
(* The account of the clients'. *)

\* No burst of a datagram's.
Plain(q) == \A i \in 1 .. Len(q) : q[i].what # "datagram" /\ ~q[i].last

LEMMA PlainEmpty == Plain(<<>>)
<1>1. 1 .. Len(<<>>) = {}
  OBVIOUS
<1> QED
  BY <1>1 DEF Plain

LEMMA PlainOf ==
  ASSUME NEW q \in Seq(Items), Plain(q), NEW K
  PROVE  Plain(Of(q, K))
<1>1. \A i \in 1 .. Len(Of(q, K)) : \E j \in 1 .. Len(q) : Of(q, K)[i] = q[j]
  BY OfType
<1> QED
  BY <1>1 DEF Plain

LEMMA PlainAppend ==
  ASSUME NEW q \in Seq(Items), Plain(q), NEW x \in Items, x.what # "datagram", ~x.last
  PROVE  Plain(Append(q, x))
<1>1. /\ Len(Append(q, x)) = Len(q) + 1 /\ Append(q, x)[Len(q) + 1] = x /\ Len(q) \in Nat
      /\ \A i \in 1 .. Len(q) : Append(q, x)[i] = q[i]
  BY AppendProperties, LenProperties
<1> QED
  BY <1>1 DEF Plain

\* Only the front may be a burst.
OneBurst(q) ==
  /\ q # <<>> => Plain(Tail(q)) /\ (Head(q).last => Head(q).what = "datagram")

LEMMA PlainParts ==
  ASSUME NEW q \in Seq(Items), q # <<>>
  PROVE  /\ Plain(q) <=> Plain(Tail(q)) /\ Head(q).what # "datagram" /\ ~Head(q).last
         /\ Head(q) \in Items /\ Tail(q) \in Seq(Items) /\ q = <<Head(q)>> \o Tail(q)
<1>1. /\ Len(q) \in Nat /\ 1 \in 1 .. Len(q) /\ Head(q) = q[1] /\ Len(Tail(q)) = Len(q) - 1
      /\ Tail(q) \in Seq(Items) /\ Head(q) \in Items /\ q = <<Head(q)>> \o Tail(q)
  OBVIOUS
<1>2. \A i \in 1 .. Len(Tail(q)) : Tail(q)[i] = q[i + 1] /\ i + 1 \in 1 .. Len(q)
  BY <1>1, HeadTailProperties
<1>3. \A i \in 1 .. Len(q) : i = 1 \/ (i - 1 \in 1 .. Len(Tail(q)) /\ Tail(q)[i - 1] = q[i])
  <2> SUFFICES ASSUME NEW i \in 1 .. Len(q), i # 1
               PROVE  i - 1 \in 1 .. Len(Tail(q)) /\ Tail(q)[i - 1] = q[i]
    OBVIOUS
  <2>1. i - 1 \in 1 .. Len(Tail(q)) /\ (i - 1) + 1 = i
    BY <1>1
  <2> QED
    BY <1>2, <2>1
<1> QED
  BY <1>1, <1>2, <1>3 DEF Plain


LEMMA OneBurstOf ==
  ASSUME NEW q \in Seq(Items), OneBurst(q), NEW K, "datagram" \in K
  PROVE  /\ OneBurst(Of(q, K))
         /\ Plain(q) => Plain(Of(q, K))
         /\ ~Plain(q) => Of(q, K) # <<>> /\ Head(Of(q, K)) = Head(q)
<1>1. CASE q = <<>>
  BY <1>1, OfEmpty, PlainEmpty DEF OneBurst
<1>2. CASE q # <<>>
  <2> DEFINE x == Head(q)
             r == Tail(q)
  <2>1. x \in Items /\ r \in Seq(Items) /\ q = <<x>> \o r
        /\ (Plain(q) <=> Plain(r) /\ x.what # "datagram" /\ ~x.last)
    BY <1>2, PlainParts
  <2>2. Plain(r) /\ (x.last => x.what = "datagram")
    BY <1>2 DEF OneBurst
  <2> HIDE DEF x, r
  <2>3. Of(q, K) = (IF x.what \in K THEN <<x>> ELSE <<>>) \o Of(r, K)
    <3>1. \A p \in Seq(Items), y \in Items : \A L :
            Of(<<y>> \o p, L) = (IF y.what \in L THEN <<y>> ELSE <<>>) \o Of(p, L)
      BY OfHead
    <3>2. x \in Items /\ r \in Seq(Items)
      BY <2>1
    <3>3. Of(<<x>> \o r, K) = (IF x.what \in K THEN <<x>> ELSE <<>>) \o Of(r, K)
      BY <3>1, <3>2, ZenonT(40)
    <3>4. q = <<x>> \o r
      BY <2>1
    <3> QED
      BY <3>3, <3>4
  <2>4. Of(r, K) \in Seq(Items) /\ Plain(Of(r, K))
    BY <2>1, <2>2, OfType, PlainOf
  <2>5. CASE x.what \in K
    <3>1. Of(q, K) = <<x>> \o Of(r, K)
      BY <2>3, <2>5
    <3>2. Of(q, K) # <<>> /\ Head(Of(q, K)) = x /\ Tail(Of(q, K)) = Of(r, K)
      BY <2>1, <2>4, <3>1
    <3>3. OneBurst(Of(q, K))
      BY <2>2, <2>4, <3>2 DEF OneBurst
    <3>4. Plain(q) => Plain(Of(q, K))
      BY <2>1, PlainOf
    <3> QED
      BY <3>2, <3>3, <3>4 DEF x
  <2>6. CASE x.what \notin K
    <3>1. Of(q, K) = Of(r, K)
      BY <2>3, <2>4, <2>6
    <3>2. x.what # "datagram" /\ Plain(q)
      BY <2>1, <2>2, <2>6
    <3>3. OneBurst(Of(r, K))
      BY <2>4, PlainParts DEF OneBurst
    <3> QED
      BY <2>4, <3>1, <3>2, <3>3
  <2> QED
    BY <2>5, <2>6
<1> QED
  BY <1>1, <1>2

LEMMA OneBurstAppend ==
  ASSUME NEW q \in Seq(Items), OneBurst(q), NEW x \in Items, x.what # "datagram", ~x.last
  PROVE  /\ OneBurst(Append(q, x))
         /\ Plain(q) => Plain(Append(q, x))
         /\ ~Plain(q) => Append(q, x) # <<>> /\ Head(Append(q, x)) = Head(q)
<1>0. Append(q, x) \in Seq(Items) /\ Append(q, x) # <<>>
  <2>1. Append(q, x) \in Seq(Items) /\ Len(Append(q, x)) = Len(q) + 1 /\ Len(q) \in Nat
    BY AppendProperties, LenProperties
  <2>2. Len(<<>>) = 0 /\ Len(q) + 1 # 0
    BY <2>1
  <2> QED
    BY <2>1, <2>2
<1>1. CASE q = <<>>
  <2>1. Plain(Append(q, x))
    BY <1>1, PlainEmpty, PlainAppend
  <2>2. OneBurst(Append(q, x))
    BY <1>0, <2>1, PlainParts DEF OneBurst
  <2> QED
    BY <1>1, <2>1, <2>2, PlainEmpty
<1>2. CASE q # <<>>
  <2>1. Tail(q) \in Seq(Items) /\ Head(Append(q, x)) = Head(q)
        /\ Tail(Append(q, x)) = Append(Tail(q), x)
    BY <1>2
  <2>2. OneBurst(Append(q, x))
    BY <1>2, <2>1, PlainAppend DEF OneBurst
  <2> QED
    BY <1>0, <2>1, <2>2, PlainAppend
<1> QED
  BY <1>1, <1>2

\* A queue changed behind its front only.
Kept(q, r) ==
  /\ OneBurst(r)
  /\ Plain(q) => Plain(r)
  /\ ~Plain(q) => r # <<>> /\ Head(r) = Head(q)

LEMMA PlainOneBurst ==
  ASSUME NEW q \in Seq(Items), Plain(q)
  PROVE  OneBurst(q)
BY PlainParts DEF OneBurst

LEMMA KeptSame ==
  ASSUME NEW q \in Seq(Items), OneBurst(q)
  PROVE  Kept(q, q)
BY PlainEmpty DEF Kept

QueueIds(q) == {q[i].id : i \in 1 .. Len(q)}
Distinct(q) == \A i, j \in 1 .. Len(q) : q[i].id = q[j].id => i = j
LastId(q) == IF q # <<>> /\ Head(q).last THEN {Head(q).id} ELSE {}
Entries == [id : 1 .. MaxDatagrams, left : 1 .. 2]

\* No client was told twice, or of a datagram sent that was not.
Honest(t) == "twice" \notin t.lies /\ "sent" \notin t.lies

\* Where what is left of a datagram may be: in the queue, its last burst waiting,
\* or its last burst rendered.
Places(t) == QueueIds(t.queue) \cup LastId(t.pending) \cup ({t.onAir} \ {0})

\* What is taken to be on the air is nothing, or what the watchdog ended and is
\* there no more, or what a late flush took.
Excused(t) == t.onAir = 0 \/ t.onAir \in t.spoiled

\* Each datagram not reported is in one place, but those the watchdog ended when
\* another has taken the air.
Accounted(t) ==
  /\ Honest(t)
  /\ Distinct(t.queue)
  /\ OneBurst(t.pending)
  /\ ~Plain(t.pending) =>
       /\ Excused(t)
       /\ Head(t.pending).last \/ (t.queue # <<>> /\ Head(t.queue).id = Head(t.pending).id)
  /\ t.onAir \notin QueueIds(t.queue) \cup LastId(t.pending)
  /\ LastId(t.pending) \cap QueueIds(t.queue) = {}
  /\ Places(t) \subseteq t.open /\ t.open \subseteq Places(t) \cup t.spoiled

\* A burst waits only while nothing is rendered; and what is taken to be on the
\* air is, or waits for its key.
BurstFlow(t) ==
  /\ ~Excused(t) => t.current = Item("datagram", t.onAir, TRUE) /\ (t.waiting \/ t.transmitting)
  /\ ~Plain(t.pending) => ~t.waiting /\ ~t.transmitting

LEMMA LastIdPlain ==
  ASSUME NEW q \in Seq(Items), Plain(q)
  PROVE  LastId(q) = {}
BY PlainParts DEF LastId

LEMMA NotPlain ==
  ASSUME NEW q \in Seq(Items), OneBurst(q), ~Plain(q)
  PROVE  q # <<>> /\ Head(q).what = "datagram"
BY PlainEmpty, PlainParts DEF OneBurst

LEMMA QueueIdsTail ==
  ASSUME NEW q \in Seq(Entries), q # <<>>
  PROVE  /\ QueueIds(q) = {Head(q).id} \cup QueueIds(Tail(q))
         /\ Distinct(q) => Distinct(Tail(q)) /\ Head(q).id \notin QueueIds(Tail(q))
<1>1. Len(q) \in Nat /\ Len(q) # 0
  BY EmptySeq, LenProperties
<1>2. /\ 1 \in 1 .. Len(q) /\ Head(q) = q[1]
      /\ Len(Tail(q)) = Len(q) - 1 /\ \A i \in 1 .. Len(Tail(q)) : Tail(q)[i] = q[i + 1]
  BY <1>1, HeadTailProperties
<1>3. \A i \in 1 .. Len(Tail(q)) : i + 1 \in 1 .. Len(q) /\ i + 1 # 1
  BY <1>1, <1>2
<1>4. \A i \in 1 .. Len(q) : i = 1 \/ \E j \in 1 .. Len(Tail(q)) : i = j + 1
  <2> SUFFICES ASSUME NEW i \in 1 .. Len(q), i # 1
               PROVE  \E j \in 1 .. Len(Tail(q)) : i = j + 1
    OBVIOUS
  <2>1. i - 1 \in 1 .. Len(Tail(q)) /\ i = (i - 1) + 1
    BY <1>1, <1>2
  <2> QED
    BY <2>1
<1>5. QueueIds(q) = {Head(q).id} \cup QueueIds(Tail(q))
  BY <1>2, <1>3, <1>4 DEF QueueIds
<1>6. ASSUME Distinct(q)
      PROVE  Distinct(Tail(q)) /\ Head(q).id \notin QueueIds(Tail(q))
  <2>1. Head(q).id \notin QueueIds(Tail(q))
    BY <1>2, <1>3, <1>6 DEF Distinct, QueueIds
  <2>2. ASSUME NEW i \in 1 .. Len(Tail(q)), NEW j \in 1 .. Len(Tail(q)),
               Tail(q)[i].id = Tail(q)[j].id
        PROVE  i = j
    <3>1. q[i + 1].id = q[j + 1].id /\ i + 1 \in 1 .. Len(q) /\ j + 1 \in 1 .. Len(q)
      BY <1>2, <1>3, <2>2
    <3>2. i + 1 = j + 1
      BY <1>6, <3>1 DEF Distinct
    <3> QED
      BY <1>1, <1>2, <3>2
  <2> QED
    BY <2>1, <2>2 DEF Distinct
<1> QED
  BY <1>5, <1>6

LEMMA QueueIdsAppend ==
  ASSUME NEW q \in Seq(Entries), NEW e \in Entries
  PROVE  /\ QueueIds(Append(q, e)) = QueueIds(q) \cup {e.id}
         /\ Distinct(q) /\ e.id \notin QueueIds(q) => Distinct(Append(q, e))
         /\ q # <<>> => Head(Append(q, e)) = Head(q)
         /\ Append(q, e) # <<>>
<1> DEFINE r == Append(q, e)
           n == Len(q)
<1>1. /\ n \in Nat /\ Len(r) = n + 1 /\ r[n + 1] = e /\ r \in Seq(Entries)
      /\ \A i \in 1 .. n : r[i] = q[i]
  BY AppendProperties, LenProperties
<1>2. Len(r) # 0 /\ Len(<<>>) = 0
  BY <1>1
<1>3. q # <<>> => Head(r) = Head(q)
  <2> HIDE DEF Entries
  <2> QED
    OBVIOUS
<1>4. /\ \A i \in 1 .. Len(r) : i = n + 1 \/ i \in 1 .. n
      /\ n + 1 \in 1 .. Len(r) /\ \A i \in 1 .. n : i \in 1 .. Len(r) /\ i # n + 1
  BY <1>1
<1>6. QueueIds(q) = {q[i].id : i \in 1 .. n} /\ (Distinct(q) => \A i, j \in 1 .. n :
        q[i].id = q[j].id => i = j)
  BY DEF QueueIds, Distinct
<1> HIDE DEF r, n
<1>5. QueueIds(r) = QueueIds(q) \cup {e.id}
  <2>1. QueueIds(r) = {r[i].id : i \in 1 .. Len(r)}
    BY DEF QueueIds
  <2>2. \A i \in 1 .. Len(r) : r[i].id \in QueueIds(q) \cup {e.id}
    BY <1>1, <1>4, <1>6
  <2>3. \A x \in QueueIds(q) : \E i \in 1 .. n : x = r[i].id /\ i \in 1 .. Len(r)
    BY <1>1, <1>4, <1>6
  <2>4. e.id = r[n + 1].id /\ n + 1 \in 1 .. Len(r)
    BY <1>1, <1>4
  <2> HIDE DEF QueueIds
  <2> QED
    BY <2>1, <2>2, <2>3, <2>4
<1>7. ASSUME Distinct(q), e.id \notin QueueIds(q)
      PROVE  Distinct(r)
  <2> SUFFICES ASSUME NEW i \in 1 .. Len(r), NEW j \in 1 .. Len(r), r[i].id = r[j].id
               PROVE  i = j
    BY DEF Distinct
  <2>1. CASE i \in 1 .. n /\ j \in 1 .. n
    BY <1>1, <1>6, <1>7, <2>1
  <2>2. CASE i = n + 1 \/ j = n + 1
    <3>1. \A k \in 1 .. n : r[k].id # e.id
      BY <1>1, <1>6, <1>7
    <3> QED
      BY <1>1, <1>4, <2>2, <3>1
  <2> QED
    BY <1>4, <2>1, <2>2
<1> QED
  BY <1>2, <1>3, <1>5, <1>7 DEF r

\* What leaves the clients' part leaves the account.
LEMMA AccountedSame ==
  ASSUME NEW t, Typed(t), Accounted(t), NEW u, Typed(u), SameClients(t, u),
         Kept(t.pending, u.pending)
  PROVE  Accounted(u)
<1>1. t.pending \in Seq(Items) /\ u.pending \in Seq(Items)
  BY Fields
<1>2. LastId(u.pending) = LastId(t.pending)
  <2>1. CASE Plain(t.pending)
    BY <1>1, <2>1, LastIdPlain DEF Kept
  <2>2. CASE ~Plain(t.pending)
    BY <1>1, <2>2, NotPlain DEF Kept, LastId, Accounted
  <2> QED
    BY <2>1, <2>2
<1>3. ~Plain(u.pending) => ~Plain(t.pending) /\ Head(u.pending) = Head(t.pending)
  BY DEF Kept
<1>4. Places(u) = Places(t) /\ (Excused(t) => Excused(u)) /\ (Honest(t) => Honest(u))
  BY <1>2 DEF Places, Excused, Honest, SameClients
<1> QED
  BY <1>2, <1>3, <1>4 DEF Accounted, SameClients, Kept

LEMMA BurstFlowSame ==
  ASSUME NEW t, BurstFlow(t), NEW u, SamePlay(t, u), u.onAir = t.onAir,
         t.spoiled \subseteq u.spoiled, Kept(t.pending, u.pending)
  PROVE  BurstFlow(u)
BY DEF BurstFlow, SamePlay, Kept, Excused

LEMMA KeptOf ==
  ASSUME NEW q \in Seq(Items), OneBurst(q), NEW K, "datagram" \in K
  PROVE  Kept(q, Of(q, K))
BY OneBurstOf DEF Kept

LEMMA PlacesPositive ==
  ASSUME NEW t, Typed(t)
  PROVE  0 \notin QueueIds(t.queue) /\ 0 \notin LastId(t.pending)
<1>1. t.queue \in Seq(Entries) /\ Queued(t.pending)
  BY Fields DEF Entries
<1>2. \A i \in 1 .. Len(t.queue) : t.queue[i].id \in 1 .. MaxDatagrams
  <2>1. \A i \in 1 .. Len(t.queue) : t.queue[i] \in Entries
    BY <1>1, ElementOfSeq
  <2> QED
    BY <2>1 DEF Entries
<1>3. MaxDatagrams \in Nat
  BY Bounds
<1>4. 0 \notin QueueIds(t.queue)
  BY <1>2, <1>3 DEF QueueIds
<1>5. LastId(t.pending) \subseteq 1 .. MaxDatagrams
  BY <1>1, QueuedTail DEF LastId
<1> QED
  BY <1>3, <1>4, <1>5

\* With no burst waiting, nor one rendered but an excused one, the queue is all
\* there is.
Cleared(t) ==
  /\ Honest(t) /\ Distinct(t.queue) /\ Excused(t) /\ t.onAir \notin QueueIds(t.queue)
  /\ QueueIds(t.queue) \cup ({t.onAir} \ {0}) \subseteq t.open
  /\ t.open \subseteq QueueIds(t.queue) \cup ({t.onAir} \ {0}) \cup t.spoiled

LEMMA ClearedAccounted ==
  ASSUME NEW t, Typed(t), Cleared(t), Plain(t.pending)
  PROVE  Accounted(t)
<1>1. t.pending \in Seq(Items)
  BY Fields
<1>2. LastId(t.pending) = {} /\ OneBurst(t.pending)
  BY <1>1, LastIdPlain, PlainOneBurst
<1> QED
  BY <1>2 DEF Cleared, Accounted, Places

LEMMA ClearedSame ==
  ASSUME NEW t, Cleared(t), NEW u, SameClients(t, u)
  PROVE  Cleared(u)
BY DEF Cleared, SameClients, Honest, Excused

LEMMA KeptMore ==
  ASSUME NEW q \in Seq(Items), NEW r \in Seq(Items), NEW x \in Seq(Items), OneBurst(q),
         Kept(q, r), Kept(r, x)
  PROVE  Kept(q, x)
<1>1. ~Plain(q) => r # <<>> /\ Head(r).what = "datagram"
  BY NotPlain DEF Kept
<1>2. ~Plain(q) => ~Plain(r)
  BY <1>1, PlainParts
<1> QED
  BY <1>2 DEF Kept

LEMMA AccountedPlain ==
  ASSUME NEW t, Typed(t), Accounted(t), Plain(t.pending), Excused(t)
  PROVE  Cleared(t)
<1>1. LastId(t.pending) = {}
  BY Fields, LastIdPlain
<1> QED
  BY <1>1 DEF Accounted, Cleared, Places

\* The burst on the air is reported when it has left, sent if it was.
LEMMA TransmittedAccounted ==
  ASSUME NEW t, Typed(t), Accounted(t), NEW cut \in BOOLEAN,
         ~cut => Excused(t) \/ Sent(t, t.onAir)
  PROVE  LET u == DatagramTransmitted(t, cut)
         IN  Typed(u) /\ Accounted(u) /\ u.onAir = 0 /\ u.pending = t.pending
<1> DEFINE u == DatagramTransmitted(t, cut)
<1>1. /\ Typed(u) /\ u.pending = t.pending /\ u.onAir = 0 /\ u.queue = t.queue
      /\ t.onAir = 0 => u = t
      /\ t.onAir # 0 =>
           /\ Less(t, u, t.onAir)
           /\ t.onAir \in t.open /\ (~cut => Sent(t, t.onAir) \/ t.onAir \in t.spoiled)
              => u.lies = t.lies
  BY DatagramTransmittedFacts DEF Clients, SameFlow
<1> HIDE DEF u
<1>2. CASE t.onAir = 0
  BY <1>1, <1>2 DEF u
<1>3. CASE t.onAir # 0
  <2>1. t.onAir \in t.open /\ t.onAir \notin QueueIds(t.queue) \cup LastId(t.pending)
        /\ Places(t) = QueueIds(t.queue) \cup LastId(t.pending) \cup {t.onAir}
    BY <1>3 DEF Accounted, Places
  <2>2. u.lies = t.lies /\ u.open = t.open \ {t.onAir} /\ u.spoiled = t.spoiled \ {t.onAir}
    BY <1>1, <1>3, <2>1 DEF Less, Excused
  <2>3. Places(u) = QueueIds(t.queue) \cup LastId(t.pending)
    BY <1>1 DEF Places
  <2>4. Places(u) \subseteq u.open /\ u.open \subseteq Places(u) \cup u.spoiled
    BY <2>1, <2>2, <2>3 DEF Accounted
  <2>5. 0 \notin QueueIds(t.queue) \cup LastId(t.pending) /\ Excused(u)
    BY <1>1, PlacesPositive DEF Excused
  <2> QED
    BY <1>1, <2>2, <2>4, <2>5 DEF u, Accounted, Honest
<1> QED
  BY <1>2, <1>3

\* A burst that is refused takes the rest of its datagram with it.
LEMMA RefuseFront ==
  ASSUME NEW t, Typed(t), Accounted(t), t.pending # <<>>, Excused(t),
         NEW r, Typed(r), SameClients(t, r)
  PROVE  Typed(RefuseDatagram(r, Head(t.pending))) /\ Cleared(RefuseDatagram(r, Head(t.pending)))
<1> DEFINE item == Head(t.pending)
           u == RefuseDatagram(r, item)
           air == {t.onAir} \ {0}
<1>1. /\ Typed(u) /\ u.onAir = r.onAir
      /\ item.what # "datagram" => u = r
      /\ item.what = "datagram" /\ ~item.last /\ r.queue # <<>> =>
           /\ u.queue = Tail(r.queue) /\ Less(r, u, Head(r.queue).id)
           /\ Head(r.queue).id \in r.open => u.lies = r.lies
      /\ item.what = "datagram" /\ (item.last \/ r.queue = <<>>) =>
           /\ u.queue = r.queue /\ Less(r, u, item.id)
           /\ item.id \in r.open => u.lies = r.lies
  BY RefuseDatagramFacts DEF Clients
<1>2. /\ t.pending \in Seq(Items) /\ t.queue \in Seq(Entries)
      /\ item \in Items /\ (Plain(t.pending) <=> Plain(Tail(t.pending)) /\ item.what # "datagram"
                                                  /\ ~item.last)
  BY Fields, PlainParts DEF Entries
<1>3. Plain(Tail(t.pending)) /\ (item.last => item.what = "datagram")
  BY DEF Accounted, OneBurst
<1>4. LastId(t.pending) = IF item.last THEN {item.id} ELSE {}
  BY DEF LastId
<1> HIDE DEF u, item, air
<1>5. /\ Distinct(t.queue)
      /\ LastId(t.pending) \cap QueueIds(t.queue) = {}
      /\ t.onAir \notin QueueIds(t.queue) \cup LastId(t.pending)
      /\ QueueIds(t.queue) \cup LastId(t.pending) \cup air \subseteq r.open
      /\ r.open \subseteq QueueIds(t.queue) \cup LastId(t.pending) \cup air \cup r.spoiled
      /\ r.queue = t.queue /\ r.onAir = t.onAir /\ r.open = t.open /\ Honest(r)
      /\ t.onAir = 0 \/ t.onAir \in r.spoiled
  BY DEF Accounted, SameClients, Honest, Places, Excused, air
<1>6. air \subseteq {t.onAir}
  BY DEF air
<1>7. ASSUME NEW id, Less(r, u, id), u.lies = r.lies, id # t.onAir,
              QueueIds(u.queue) = (QueueIds(t.queue) \cup LastId(t.pending)) \ {id},
              Distinct(u.queue)
       PROVE  Cleared(u)
  <2>1. Honest(u) /\ u.open = r.open \ {id} /\ u.spoiled = r.spoiled \ {id}
        /\ u.onAir = t.onAir
    BY <1>1, <1>5, <1>7 DEF Less, Honest
  <2>2. Excused(u) /\ t.onAir \notin QueueIds(u.queue)
    BY <1>5, <1>7, <2>1 DEF Excused
  <2>3. QueueIds(u.queue) \cup air \subseteq u.open
        /\ u.open \subseteq QueueIds(u.queue) \cup air \cup u.spoiled
    BY <1>5, <1>6, <1>7, <2>1
  <2> QED
    BY <1>7, <2>1, <2>2, <2>3 DEF Cleared, air
<1>8. CASE item.what # "datagram"
  <2>1. u = r /\ LastId(t.pending) = {}
    BY <1>1, <1>3, <1>4, <1>8
  <2>2. Excused(r)
    BY <1>5 DEF Excused
  <2> QED
    BY <1>1, <1>5, <2>1, <2>2 DEF Cleared, u, item, air
<1>9. CASE item.what = "datagram" /\ item.last
  <2>1. u.queue = t.queue /\ Less(r, u, item.id) /\ (item.id \in r.open => u.lies = r.lies)
    BY <1>1, <1>5, <1>9
  <2>2. LastId(t.pending) = {item.id}
    BY <1>4, <1>9
  <2>3. item.id \in r.open /\ item.id # t.onAir
        /\ QueueIds(u.queue) = (QueueIds(t.queue) \cup LastId(t.pending)) \ {item.id}
    BY <1>5, <2>1, <2>2
  <2> QED
    BY <1>1, <1>5, <1>7, <2>1, <2>3 DEF u, item
<1>10. CASE item.what = "datagram" /\ ~item.last
  <2>1. t.queue # <<>>
    BY <1>2, <1>10 DEF Accounted, item
  <2> DEFINE id == Head(t.queue).id
  <2>2. u.queue = Tail(t.queue) /\ Less(r, u, id) /\ (id \in r.open => u.lies = r.lies)
    BY <1>1, <1>5, <1>10, <2>1
  <2>3. /\ QueueIds(t.queue) = {id} \cup QueueIds(Tail(t.queue))
        /\ Distinct(Tail(t.queue)) /\ id \notin QueueIds(Tail(t.queue))
    BY <1>2, <1>5, <2>1, QueueIdsTail
  <2>4. LastId(t.pending) = {}
    BY <1>4, <1>10
  <2> HIDE DEF id
  <2>5. id \in r.open /\ id # t.onAir /\ Distinct(u.queue)
        /\ QueueIds(u.queue) = (QueueIds(t.queue) \cup LastId(t.pending)) \ {id}
    BY <1>5, <2>2, <2>3, <2>4
  <2> QED
    BY <1>1, <1>7, <2>2, <2>5 DEF u, item
<1> QED
  BY <1>8, <1>9, <1>10

\* Of what waits only the front can be a burst: refusing all is refusing it.
LEMMA RefusePendingAccounted ==
  ASSUME NEW t, Typed(t), Accounted(t), Excused(t)
  PROVE  Cleared(RefusePending(t))
<1> DEFINE m == Len(t.pending)
           q == t.pending
<1>0. /\ q \in Seq(Items) /\ m \in Nat /\ OneBurst(q)
  BY Fields, LenProperties DEF Accounted
<1>1. PICK g : RefusedBy(t, g, m)
  BY <1>0, RefusedExists
<1>2. RefusePending(t) = g[m]
  BY <1>0, <1>1, RefusePendingIs
<1>3. CASE m = 0
  <2>1. g[m] = t
    BY <1>0, <1>1, <1>3 DEF RefusedBy
  <2>2. q = <<>>
    BY <1>0, <1>3, EmptySeq
  <2> QED
    BY <1>2, <2>1, <2>2, PlainEmpty, AccountedPlain
<1>4. CASE m # 0
  <2>1. 1 \in 1 .. m /\ q # <<>> /\ Head(q) = q[1] /\ Len(Tail(q)) = m - 1
        /\ \A i \in 1 .. m - 1 : Tail(q)[i] = q[i + 1]
    BY <1>0, <1>4, EmptySeq, HeadTailProperties
  <2>2. g[0] = t /\ \A n \in 1 .. m : g[n] = RefuseDatagram(g[n - 1], q[n])
    <3> HIDE DEF m, q
    <3>1. \A n \in 0 .. m : g[n] = IF n = 0 THEN t ELSE RefuseDatagram(g[n - 1], t.pending[n])
      BY <1>1 DEF RefusedBy
    <3>2. \A n \in 1 .. m : n \in 0 .. m /\ n # 0
      BY <1>0
    <3> QED
      BY <1>0, <3>1, <3>2 DEF q
  <2> DEFINE u == RefuseDatagram(t, Head(q))
  <2>3. Typed(u) /\ Cleared(u)
    <3>1. SameClients(t, t)
      BY DEF SameClients
    <3> QED
      BY <2>1, <3>1, RefuseFront
  <2> HIDE DEF m, u
  <2>4. g[1] = u
    <3>1. 1 - 1 = 0
      OBVIOUS
    <3> QED
      BY <2>1, <2>2, <3>1 DEF u
  <2>5. \A n \in Nat : n + 1 <= m => g[n + 1] = u
    <3> DEFINE T == {n \in Nat : n + 1 <= m => g[n + 1] = u}
    <3>1. 0 \in T
      BY <2>4
    <3>2. ASSUME NEW n \in Nat, n \in T
          PROVE  n + 1 \in T
      <4> SUFFICES ASSUME (n + 1) + 1 <= m
                   PROVE  g[(n + 1) + 1] = u
        OBVIOUS
      <4>1. (n + 1) + 1 \in 1 .. m /\ ((n + 1) + 1) - 1 = n + 1 /\ n + 1 \in 1 .. m - 1
        BY <1>0
      <4>2. g[n + 1] = u
        BY <1>0, <3>2
      <4>3. g[(n + 1) + 1] = RefuseDatagram(u, q[(n + 1) + 1])
        BY <2>2, <4>1, <4>2
      <4>4. q[(n + 1) + 1].what # "datagram"
        <5>1. Plain(Tail(q))
          BY <1>0, <2>1 DEF OneBurst
        <5>2. Tail(q)[n + 1] = q[(n + 1) + 1] /\ n + 1 \in 1 .. Len(Tail(q))
          BY <2>1, <4>1
        <5> QED
          BY <5>1, <5>2 DEF Plain
      <4> QED
        BY <2>3, <4>3, <4>4, RefuseDatagramFacts
    <3> HIDE DEF T
    <3>3. Nat \subseteq T
      BY <3>1, <3>2, SetInduction
    <3> QED
      BY <3>3 DEF T
  <2>6. g[m] = u
    <3>1. m - 1 \in Nat /\ (m - 1) + 1 = m /\ (m - 1) + 1 <= m
      BY <1>0, <1>4
    <3> QED
      BY <2>5, <3>1
  <2> QED
    BY <1>2, <2>3, <2>6 DEF m
<1> QED
  BY <1>3, <1>4

Owed(t) == Accounted(t) /\ BurstFlow(t)

LEMMA OwedSame ==
  ASSUME NEW t, Typed(t), Owed(t), NEW u, Typed(u), SameClients(t, u), SamePlay(t, u),
         Kept(t.pending, u.pending)
  PROVE  Owed(u)
<1>1. u.onAir = t.onAir /\ t.spoiled \subseteq u.spoiled
  BY DEF SameClients
<1> QED
  BY <1>1, AccountedSame, BurstFlowSame DEF Owed

\* Nothing is rendered, and at most what the station queued itself waits.
LEMMA OwedCleared ==
  ASSUME NEW t, Typed(t), Cleared(t), Plain(t.pending)
  PROVE  Owed(t)
<1>1. Accounted(t)
  BY ClearedAccounted
<1> QED
  BY <1>1 DEF Owed, BurstFlow, Cleared

LEMMA OwedKept ==
  ASSUME NEW t, Typed(t), Owed(t)
  PROVE  Kept(t.pending, t.pending) /\ OneBurst(t.pending)
<1>1. t.pending \in Seq(Items) /\ OneBurst(t.pending)
  BY Fields DEF Owed, Accounted
<1> QED
  BY <1>1, KeptSame

\* With nothing of a datagram's on the air or waiting, the queue is all there is.
LEMMA OwedIdle ==
  ASSUME NEW t, Typed(t), Owed(t)
  PROVE  /\ t.waiting \/ t.transmitting => Plain(t.pending)
         /\ t.current.what # "datagram" \/ (~t.waiting /\ ~t.transmitting) => Excused(t)
         /\ Plain(t.pending) /\ Excused(t) => Cleared(t)
<1>1. Accounted(t) /\ BurstFlow(t)
  BY DEF Owed
<1>2. Plain(t.pending) /\ Excused(t) => Cleared(t)
  BY <1>1, AccountedPlain
<1> QED
  BY <1>1, <1>2 DEF BurstFlow, Item

\* abandon_tx tells every client.
LEMMA AbandonOwed ==
  ASSUME NEW t, Typed(t), Accounted(t)
  PROVE  Owed(Abandon(t))
<1>1. PICK told : Tells(t, told, Abandon(t))
  BY AbandonFacts
<1>2. Typed(Abandon(t)) /\ Abandon(t).pending = <<>>
  BY AbandonFacts DEF Given
<1> DEFINE d == DropLinkPending(told)
           x == DatagramTransmitted(d, TRUE)
<1>3. Typed(told) /\ SameClients(t, told) /\ told.pending = t.pending
      /\ SameClients(RefusePending(x), Abandon(t))
  BY <1>1 DEF Tells
<1>4. t.pending \in Seq(Items) /\ OneBurst(t.pending)
  BY Fields DEF Accounted
<1>5. Accounted(told)
  BY <1>3, <1>4, KeptSame, AccountedSame
<1>6. Typed(d) /\ Accounted(d)
  <2>1. Typed(d) /\ SameClients(told, d) /\ d.pending = Of(told.pending, Kinds \ Link)
    BY <1>3, DropLinkPendingFacts
  <2> HIDE DEF d
  <2> DEFINE K == Kinds \ Link
  <2>2. "datagram" \in K /\ d.pending = Of(told.pending, K)
    BY <2>1 DEF Kinds, Link
  <2> HIDE DEF K
  <2>3. Kept(told.pending, d.pending)
    BY <1>3, <1>4, <2>2, KeptOf
  <2> QED
    BY <1>3, <1>5, <2>1, <2>3, AccountedSame
<1> HIDE DEF d
<1>7. Typed(x) /\ Accounted(x) /\ x.onAir = 0
  BY <1>6, TransmittedAccounted
<1> HIDE DEF x
<1>8. Cleared(Abandon(t))
  BY <1>3, <1>7, RefusePendingAccounted, ClearedSame DEF Excused
<1> QED
  BY <1>2, <1>8, OwedCleared, PlainEmpty

\* A burst is reported sent only if it was.
LEMMA FinishesOwed ==
  ASSUME NEW t, Typed(t), Accounted(t), ~t.waiting,
         t.cutShort \/ Excused(t) \/ Sent(t, t.onAir), NEW u \in Finishes(t)
  PROVE  Owed(u)
<1> DEFINE v == Over(t)
           x == DatagramTransmitted(v, t.cutShort)
<1>0. t.pending \in Seq(Items) /\ OneBurst(t.pending) /\ t.cutShort \in BOOLEAN
  BY Fields DEF Accounted
<1>1. /\ Typed(v) /\ SameClients(t, v) /\ v.pending = t.pending /\ v.current = t.current
      /\ v.air = t.air
  BY OverFacts
<1> HIDE DEF v
<1>2. Accounted(v) /\ v.pending \in Seq(Items)
  BY <1>0, <1>1, KeptSame, AccountedSame
<1>3. ~t.cutShort => Excused(v) \/ Sent(v, v.onAir)
  BY <1>1 DEF Excused, Sent, SameClients
<1>4. CASE u = Finish(t, TRUE)
  <2>1. /\ Typed(u) /\ u.pending = t.pending /\ u.waiting = t.waiting /\ ~u.transmitting
        /\ SameClients(x, u)
    BY <1>4, FinishFacts DEF v
  <2>2. Typed(x) /\ Accounted(x) /\ x.onAir = 0 /\ x.pending = v.pending
    BY <1>0, <1>1, <1>2, <1>3, TransmittedAccounted
  <2> HIDE DEF x
  <2>3. Accounted(u) /\ u.onAir = 0
    BY <1>0, <1>1, <2>1, <2>2, KeptSame, AccountedSame DEF SameClients
  <2> QED
    BY <2>1, <2>3 DEF Owed, BurstFlow, Excused
<1>5. CASE u = Finish(t, FALSE)
  <2>1. u = Abandon(v)
    BY <1>5, FinishRefused DEF v
  <2> QED
    BY <1>1, <1>2, <2>1, AbandonOwed
<1> QED
  BY <1>4, <1>5 DEF Finishes

\* The watchdog leaves what is taken to be on the air, and it is excused.
LEMMA TrippedOwed ==
  ASSUME NEW t, Typed(t), Owed(t), t.transmitting
  PROVE  Owed(Tripped(t))
<1> DEFINE u == Tripped(t)
<1>1. /\ Typed(u) /\ SameClients(t, u) /\ u.pending = <<>>
      /\ t.onAir # 0 => t.onAir \in u.spoiled
  BY TrippedFacts
<1> HIDE DEF u
<1>2. Accounted(t) /\ Plain(t.pending)
  BY OwedIdle DEF Owed
<1>3. Kept(t.pending, u.pending) /\ Plain(u.pending)
  BY <1>1, <1>2, PlainEmpty DEF Kept, OneBurst
<1>4. Accounted(u)
  BY <1>1, <1>2, <1>3, AccountedSame
<1>5. BurstFlow(u)
  BY <1>1, <1>3 DEF BurstFlow, Excused, SameClients
<1> QED
  BY <1>4, <1>5 DEF Owed, u

LEMMA ReadOwed ==
  ASSUME NEW t, Typed(t), Owed(t), NEW u \in Read(t),
         card.dropped => t.transmitting /\ t.current.what \in Slotted
  PROVE  Owed(u)
<1>1. CASE ~card.dropped
  BY <1>1 DEF Read
<1>2. CASE card.dropped
  <2> DEFINE v == CardDroppedLate(t, TRUE)
  <2>1. u = v \/ u = CardDroppedLate(t, FALSE)
    BY <1>2 DEF Read
  <2>2. /\ Typed(v) /\ SameClients(t, v) /\ v.pending = t.pending
        /\ CardDroppedLate(t, FALSE) = Abandon(v)
    BY <1>2, CardDroppedLateFacts
  <2> HIDE DEF v
  <2>3. Cleared(t) /\ Plain(t.pending)
    BY <1>2, OwedIdle DEF Slotted
  <2>4. Owed(v)
    BY <2>2, <2>3, ClearedSame, OwedCleared
  <2>5. Owed(Abandon(v))
    BY <2>2, <2>4, AbandonOwed DEF Owed
  <2> QED
    BY <2>1, <2>2, <2>4, <2>5
<1> QED
  BY <1>1, <1>2

\* What is queued behind is no burst.
LEMMA KeptAppend ==
  ASSUME NEW q \in Seq(Items), OneBurst(q), NEW x \in Items, x.what # "datagram", ~x.last
  PROVE  Kept(q, Append(q, x))
BY OneBurstAppend DEF Kept

LEMMA HandedKept ==
  ASSUME NEW t, Typed(t), OneBurst(t.pending), NEW u, Handed(t, u)
  PROVE  Kept(t.pending, u.pending)
<1>1. t.pending \in Seq(Items)
  BY Fields
<1>2. CASE u.pending = t.pending
  BY <1>1, <1>2, KeptSame
<1>3. CASE \E what \in Link, id \in Nat : u.pending = Append(t.pending, Item(what, id, FALSE))
  <2>1. PICK what \in Link, id \in Nat : u.pending = Append(t.pending, Item(what, id, FALSE))
    BY <1>3
  <2> DEFINE x == Item(what, id, FALSE)
  <2>2. x \in Items /\ x.what # "datagram" /\ ~x.last
    BY <2>1 DEF Item, Items, Kinds, Link
  <2>3. u.pending = Append(t.pending, x)
    BY <2>1
  <2> HIDE DEF x
  <2> QED
    BY <1>1, <2>2, <2>3, KeptAppend
<1> QED
  BY <1>2, <1>3 DEF Handed

LEMMA HandedOwed ==
  ASSUME NEW t, Typed(t), Owed(t), NEW u, Handed(t, u)
  PROVE  Owed(u)
<1>1. Kept(t.pending, u.pending)
  BY OwedKept, HandedKept
<1>2. Typed(u) /\ SamePlay(t, u) /\ SameClients(t, u)
  BY DEF Handed
<1> QED
  BY <1>1, <1>2, OwedSame

\* abort: a datagram on the air is cut and finished like any; one waiting stays.
LEMMA AbortOwed ==
  ASSUME NEW t, Typed(t), Owed(t), Flow(t)
  PROVE  Owed(Abort(t))
<1> DEFINE u == Abort(t)
           cuts == t.transmitting /\ ~t.playingTest
           drops == t.keying /\ ~t.transmitting /\ t.waiting
           K == Kinds \ Link
           L == Kinds \ {"beacon"}
<1>1. /\ Typed(u) /\ SameClients(t, u)
      /\ u.pending = Of(Of(t.pending, K), L)
      /\ u.transmitting = t.transmitting
      /\ cuts => ~u.waiting /\ u.current = t.current
      /\ drops => ~u.waiting
      /\ ~cuts /\ ~drops => SamePlay(t, u)
  BY AbortFacts
<1>2. "datagram" \in K /\ "datagram" \in L
  BY DEF Kinds, Link
<1> HIDE DEF u, K, L
<1>3. t.pending \in Seq(Items) /\ OneBurst(t.pending) /\ Accounted(t) /\ BurstFlow(t)
  BY Fields DEF Owed, Accounted
<1>4. Kept(t.pending, u.pending)
  <2> DEFINE r == Of(t.pending, K)
  <2>1. r \in Seq(Items) /\ Kept(t.pending, r)
    BY <1>2, <1>3, OfType, KeptOf
  <2>2. OneBurst(r) /\ u.pending = Of(r, L)
    BY <1>1, <2>1 DEF Kept
  <2> HIDE DEF r
  <2>3. Kept(r, u.pending) /\ u.pending \in Seq(Items)
    BY <1>1, <1>2, <2>1, <2>2, KeptOf, Fields
  <2> QED
    BY <1>3, <2>1, <2>3, KeptMore
<1>5. Accounted(u) /\ u.onAir = t.onAir /\ (~Plain(u.pending) => ~Plain(t.pending))
      /\ (Excused(t) => Excused(u))
  BY <1>1, <1>3, <1>4, AccountedSame DEF Kept, SameClients, Excused
<1>6. CASE cuts
  BY <1>1, <1>3, <1>5, <1>6 DEF Owed, BurstFlow, u
<1>7. CASE drops
  <2>1. Excused(t) /\ Plain(t.pending)
    BY <1>3, <1>7 DEF Flow, BurstFlow, IsLink, Link, Item
  <2> QED
    BY <1>5, <2>1 DEF Owed, BurstFlow, u
<1>8. CASE ~cuts /\ ~drops
  BY <1>1, <1>4, <1>8, OwedSame DEF u
<1> QED
  BY <1>6, <1>7, <1>8

LEMMA TuneStopOwed ==
  ASSUME NEW t, Typed(t), Owed(t), Flow(t)
  PROVE  Owed(TuneStop(t))
<1> DEFINE u == TuneStop(t)
           K == Kinds \ {"tone"}
<1>1. /\ Typed(u) /\ SameClients(t, u) /\ u.pending = Of(t.pending, K)
      /\ u.transmitting = t.transmitting
      /\ ~t.playingTest => SamePlay(t, u)
      /\ t.playingTest => ~u.waiting
  BY TuneStopFacts
<1>2. "datagram" \in K
  BY DEF Kinds
<1> HIDE DEF u, K
<1>3. t.pending \in Seq(Items) /\ OneBurst(t.pending) /\ Accounted(t) /\ BurstFlow(t)
  BY Fields DEF Owed, Accounted
<1>4. Kept(t.pending, u.pending)
  BY <1>1, <1>2, <1>3, KeptOf
<1>5. CASE ~t.playingTest
  BY <1>1, <1>4, <1>5, OwedSame DEF u
<1>6. CASE t.playingTest
  <2>1. Excused(t)
    BY <1>3, <1>6 DEF Flow, BurstFlow, Item
  <2>2. Accounted(u) /\ Excused(u) /\ (~Plain(u.pending) => ~Plain(t.pending))
    BY <1>1, <1>3, <1>4, <2>1, AccountedSame DEF Kept, SameClients, Excused
  <2>3. ~Plain(u.pending) => ~u.waiting /\ ~u.transmitting
    BY <1>1, <1>3, <1>6, <2>2 DEF BurstFlow
  <2> QED
    BY <2>2, <2>3 DEF Owed, BurstFlow, u
<1> QED
  BY <1>5, <1>6

LEMMA SendDatagramOwed ==
  ASSUME NEW t, Typed(t), Owed(t), NEW u \in SendDatagram(t)
  PROVE  Owed(u)
<1>1. /\ Typed(u) /\ SamePlay(t, u) /\ u.pending = t.pending /\ u.lies = t.lies
      /\ u.onAir = t.onAir /\ u.spoiled = t.spoiled
  BY SendDatagramFacts
<1>2. PICK id \in 1 .. MaxDatagrams, left \in 1 .. 2 :
        /\ id \notin t.open /\ u.open = t.open \cup {id}
        /\ u.queue = Append(t.queue, [id |-> id, left |-> left])
  BY SendDatagramFacts
<1> DEFINE e == [id |-> id, left |-> left]
<1>3. e \in Entries /\ e.id = id /\ u.queue = Append(t.queue, e)
  BY <1>2 DEF Entries
<1> HIDE DEF e
<1>4. t.queue \in Seq(Entries) /\ t.pending \in Seq(Items) /\ Accounted(t) /\ BurstFlow(t)
  BY Fields DEF Entries, Owed
<1>5. /\ QueueIds(u.queue) = QueueIds(t.queue) \cup {id}
      /\ Distinct(t.queue) /\ id \notin QueueIds(t.queue) => Distinct(u.queue)
      /\ t.queue # <<>> => Head(u.queue) = Head(t.queue)
      /\ u.queue # <<>>
  BY <1>3, <1>4, QueueIdsAppend
<1>6. id \notin QueueIds(t.queue) /\ id \notin LastId(t.pending) /\ id # t.onAir /\ id # 0
  <2>1. id # 0
    BY Bounds
  <2> QED
    BY <1>2, <1>4, <2>1 DEF Accounted, Places
<1>7. Accounted(u)
  <2>1. /\ Honest(u) /\ OneBurst(u.pending)
        /\ ~Plain(u.pending) => Excused(u)
    BY <1>1, <1>4 DEF Accounted, Honest, Excused
  <2>2. Distinct(u.queue) /\ u.onAir \notin QueueIds(u.queue) \cup LastId(u.pending)
        /\ LastId(u.pending) \cap QueueIds(u.queue) = {}
    BY <1>1, <1>4, <1>5, <1>6 DEF Accounted
  <2>3. ~Plain(u.pending) =>
          Head(u.pending).last \/ (u.queue # <<>> /\ Head(u.queue).id = Head(u.pending).id)
    BY <1>1, <1>4, <1>5 DEF Accounted
  <2>4. Places(t) \subseteq t.open /\ t.open \subseteq Places(t) \cup t.spoiled
    BY <1>4 DEF Accounted
  <2>5. Places(u) = Places(t) \cup {id}
    BY <1>1, <1>5 DEF Places
  <2>6. Places(u) \subseteq u.open /\ u.open \subseteq Places(u) \cup u.spoiled
    BY <1>1, <1>2, <2>4, <2>5
  <2> QED
    BY <2>1, <2>2, <2>3, <2>6 DEF Accounted
<1>8. BurstFlow(u)
  BY <1>1, <1>4 DEF BurstFlow, SamePlay, Excused
<1> QED
  BY <1>7, <1>8 DEF Owed

LEMMA AskedOwed ==
  ASSUME FlowInv, Owed(s), NEW ask \in Commands, NEW u \in Asked(s, ask)
  PROVE  Owed(u)
<1> USE DEF FlowInv, TypeInv
<1>1. CASE ask = "call"
  <2>1. u \in HandedOver([s EXCEPT !.engine = "busy"])
    BY <1>1 DEF Asked
  <2>2. u \in Engine(s)
    BY <2>1 DEF Engine
  <2> QED
    BY <2>2, EngineFacts, HandedOwed
<1>2. CASE ask = "abort"
  <2>1. u \in Engine(Abort(s))
    BY <1>2 DEF Asked
  <2>2. Typed(Abort(s)) /\ Owed(Abort(s))
    BY AbortFacts, AbortOwed
  <2> QED
    BY <2>1, <2>2, EngineFacts, HandedOwed
<1>3. CASE ask = "beacon" \/ ask = "tune"
  <2>1. u \in Beacon(s) \cup Tune(s)
    BY <1>3 DEF Asked
  <2>2. /\ Typed(u) /\ SamePlay(s, u) /\ SameClients(s, u)
        /\ \E x \in Items : /\ x.what \in {"beacon", "tone"} /\ ~x.last
                            /\ u.pending = Append(s.pending, x)
    BY <2>1, AskedOwn
  <2>3. PICK x \in Items : /\ x.what \in {"beacon", "tone"} /\ ~x.last
                           /\ u.pending = Append(s.pending, x)
    BY <2>2
  <2>4. s.pending \in Seq(Items) /\ OneBurst(s.pending)
    BY Fields, OwedKept
  <2>5. Kept(s.pending, u.pending)
    BY <2>3, <2>4, KeptAppend
  <2> QED
    BY <2>2, <2>5, OwedSame
<1>4. CASE ask = "stop"
  BY <1>4, TuneStopOwed DEF Asked
<1>5. CASE ask = "datagram"
  BY <1>5, SendDatagramOwed DEF Asked
<1> QED
  BY <1>1, <1>2, <1>3, <1>4, <1>5 DEF Commands

\* One burst fewer to feed changes no number of the queue.
LEMMA QueueIdsLeft ==
  ASSUME NEW q \in Seq(Entries), q # <<>>, NEW left \in 1 .. 2,
         NEW r, r = [q EXCEPT ![1].left = left]
  PROVE  /\ QueueIds(r) = QueueIds(q) /\ r # <<>> /\ Head(r).id = Head(q).id
         /\ Distinct(q) => Distinct(r)
<1>1. Len(q) \in Nat /\ Len(q) # 0 /\ DOMAIN q = 1 .. Len(q) /\ 1 \in 1 .. Len(q)
  BY EmptySeq, LenProperties
<1>2. \A i \in 1 .. Len(q) : q[i] \in Entries
  BY ElementOfSeq
<1> DEFINE e == [q[1] EXCEPT !.left = left]
<1>3. e \in Entries /\ e.id = q[1].id
  BY <1>1, <1>2 DEF Entries
<1>4. r = [q EXCEPT ![1] = e]
  OBVIOUS
<1> HIDE DEF e, Entries
<1>5. /\ r \in Seq(Entries) /\ Len(r) = Len(q) /\ r[1] = e
      /\ \A i \in 1 .. Len(q) : i # 1 => r[i] = q[i]
  BY <1>1, <1>3, <1>4, ExceptSeq
<1>6. \A i \in 1 .. Len(q) : r[i].id = q[i].id
  BY <1>3, <1>5
<1>7. r # <<>> /\ Head(r) = r[1] /\ Head(q) = q[1]
  <2>1. Len(r) # 0 /\ Len(<<>>) = 0
    BY <1>1, <1>5
  <2>2. r # <<>>
    BY <2>1
  <2> QED
    BY <1>5, <2>2
<1>8. QueueIds(r) = QueueIds(q)
  BY <1>5, <1>6 DEF QueueIds
<1>9. Distinct(q) => Distinct(r)
  BY <1>5, <1>6 DEF Distinct
<1> QED
  BY <1>1, <1>6, <1>7, <1>8, <1>9

\* feed_datagram: the queue's front is a burst, or leaves with its last.
LEMMA FedOwed ==
  ASSUME NEW t, Typed(t), Owed(t), ~t.waiting, ~t.transmitting, NEW u \in Fed(t)
  PROVE  Owed(u)
<1>1. /\ Typed(u) /\ SamePlay(t, u) /\ u.lies = t.lies /\ u.onAir = t.onAir
      /\ u.open = t.open /\ u.spoiled = t.spoiled
      /\ u = t \/ FedOne(t, u)
  BY FedFacts
<1>2. CASE FedOne(t, u)
  <2> DEFINE front == Head(t.queue)
             x == Item("datagram", front.id, front.left = 1)
  <2>1. /\ t.pending = <<>> /\ t.queue # <<>> /\ u.pending = <<x>>
        /\ front.left = 1 => u.queue = Tail(t.queue)
        /\ front.left # 1 => u.queue = [t.queue EXCEPT ![1].left = front.left - 1]
    BY <1>2 DEF FedOne
  <2>2. t.queue \in Seq(Entries)
    BY Fields DEF Entries
  <2>3. front \in Entries
    <3> HIDE DEF Entries
    <3> QED
      BY <2>1, <2>2
  <2>4. front.id \in 1 .. MaxDatagrams /\ front.left \in 1 .. 2
    BY <2>3 DEF Entries
  <2>5. x.what = "datagram" /\ x.id = front.id /\ x.last = (front.left = 1)
    BY DEF Item
  <2>6. Cleared(t)
    BY <2>1, OwedIdle, PlainEmpty
  <2>7. u.pending # <<>> /\ Head(u.pending) = x /\ Tail(u.pending) = <<>>
    BY <2>1
  <2> HIDE DEF x, front
  <2>8. OneBurst(u.pending) /\ LastId(u.pending) = IF x.last THEN {x.id} ELSE {}
    BY <2>5, <2>7, PlainEmpty DEF OneBurst, LastId
  <2>9. /\ Honest(u) /\ Excused(u) /\ Distinct(t.queue) /\ u.onAir \notin QueueIds(t.queue)
        /\ QueueIds(t.queue) \cup ({u.onAir} \ {0}) \subseteq u.open
        /\ u.open \subseteq QueueIds(t.queue) \cup ({u.onAir} \ {0}) \cup u.spoiled
    BY <1>1, <2>6 DEF Cleared, Honest, Excused
  <2>10. BurstFlow(u)
    BY <1>1, <2>9 DEF BurstFlow, SamePlay
  <2>11. CASE front.left = 1
    <3>1. /\ QueueIds(t.queue) = {front.id} \cup QueueIds(u.queue)
          /\ Distinct(u.queue) /\ front.id \notin QueueIds(u.queue)
      BY <2>1, <2>2, <2>9, <2>11, QueueIdsTail DEF front
    <3>2. LastId(u.pending) = {front.id} /\ Head(u.pending).last
      BY <2>5, <2>7, <2>8, <2>11
    <3>3. Places(u) = QueueIds(t.queue) \cup ({u.onAir} \ {0})
      BY <3>1, <3>2 DEF Places
    <3>4. u.onAir \notin QueueIds(u.queue) \cup LastId(u.pending)
          /\ LastId(u.pending) \cap QueueIds(u.queue) = {}
      BY <2>9, <3>1, <3>2
    <3>5. Places(u) \subseteq u.open /\ u.open \subseteq Places(u) \cup u.spoiled
      BY <2>9, <3>3
    <3>6. Accounted(u)
      BY <2>8, <2>9, <3>1, <3>2, <3>4, <3>5 DEF Accounted
    <3> QED
      BY <2>10, <3>6 DEF Owed
  <2>12. CASE front.left # 1
    <3>1. front.left - 1 \in 1 .. 2
      BY <2>4, <2>12
    <3>2. /\ QueueIds(u.queue) = QueueIds(t.queue) /\ u.queue # <<>>
          /\ Head(u.queue).id = front.id /\ Distinct(u.queue)
      BY <2>1, <2>2, <2>9, <2>12, <3>1, QueueIdsLeft DEF front
    <3>3. LastId(u.pending) = {}
      BY <2>5, <2>8, <2>12
    <3>4. Places(u) = QueueIds(t.queue) \cup ({u.onAir} \ {0})
      BY <3>2, <3>3 DEF Places
    <3>5. Places(u) \subseteq u.open /\ u.open \subseteq Places(u) \cup u.spoiled
      BY <2>9, <3>4
    <3>6. u.onAir \notin QueueIds(u.queue)
      BY <2>9, <3>2
    <3>7. Accounted(u)
      BY <2>5, <2>7, <2>8, <2>9, <3>2, <3>3, <3>5, <3>6 DEF Accounted
    <3> QED
      BY <2>10, <3>7 DEF Owed
  <2> QED
    BY <2>11, <2>12
<1> QED
  BY <1>1, <1>2

LEMMA BeaconsDroppedOwed ==
  ASSUME NEW t, Typed(t), Owed(t)
  PROVE  Owed(BeaconsDropped(t))
<1> DEFINE u == BeaconsDropped(t)
           K == Kinds \ {"beacon"}
<1>1. Typed(u) /\ SamePlay(t, u) /\ SameClients(t, u)
      /\ (u.pending = t.pending \/ u.pending = Of(t.pending, K))
  BY BeaconsDroppedFacts DEF BeaconsFree
<1>2. "datagram" \in K
  BY DEF Kinds
<1> HIDE DEF u, K
<1>3. t.pending \in Seq(Items) /\ OneBurst(t.pending)
  BY Fields, OwedKept
<1>4. Kept(t.pending, u.pending)
  BY <1>1, <1>2, <1>3, KeptSame, KeptOf
<1> QED
  BY <1>1, <1>4, OwedSame DEF u

\* What is told of the front of the queue when it is the engine's.
LEMMA LinkFront ==
  ASSUME NEW t, Typed(t), Owed(t), t.pending # <<>>, IsLink(Head(t.pending))
  PROVE  Plain(t.pending) /\ Plain(Tail(t.pending)) /\ Tail(t.pending) \in Seq(Items)
<1>1. t.pending \in Seq(Items) /\ OneBurst(t.pending)
  BY Fields, OwedKept
<1>2. Head(t.pending).what # "datagram"
  BY DEF IsLink, Link
<1> QED
  BY <1>1, <1>2, NotPlain, PlainParts

\* render_next: the last burst of a datagram is now the one on the air.
LEMMA RenderedOwed ==
  ASSUME NEW t, Typed(t), Owed(t), Idle(t), Account(t), t.pending # <<>>, NEW u \in Rendered(t)
  PROVE  Owed(u)
<1>1. /\ Typed(u)
      /\ \/ RenderedOne(t, u)
         \/ /\ SamePlay(t, u) /\ SameClients(t, u) /\ IsLink(Head(t.pending))
            /\ u.pending = Tail(t.pending)
  BY RenderedFacts
<1>2. CASE SamePlay(t, u) /\ SameClients(t, u) /\ IsLink(Head(t.pending))
           /\ u.pending = Tail(t.pending)
  <2>1. Plain(t.pending) /\ Plain(u.pending)
    BY <1>2, LinkFront
  <2>2. Cleared(t)
    BY <2>1, OwedIdle DEF Idle
  <2> QED
    BY <1>1, <1>2, <2>1, <2>2, ClearedSame, OwedCleared
<1>3. CASE RenderedOne(t, u)
  <2> DEFINE x == Head(t.pending)
  <2>1. /\ u.pending = Tail(t.pending) /\ u.current = x /\ u.waiting
        /\ ~u.transmitting /\ u.queue = t.queue /\ u.open = t.open /\ u.lies = t.lies
        /\ u.spoiled = t.spoiled /\ u.onAir = IF x.last THEN x.id ELSE t.onAir
    BY <1>3 DEF RenderedOne
  <2>2. t.pending \in Seq(Items) /\ OneBurst(t.pending) /\ Accounted(t) /\ Excused(t)
    BY Fields, OwedKept, OwedIdle DEF Owed, Idle
  <2>3. Plain(u.pending) /\ (x.last => x.what = "datagram") /\ u.pending \in Seq(Items)
        /\ LastId(t.pending) = (IF x.last THEN {x.id} ELSE {})
    BY <1>1, <2>1, <2>2, Fields DEF OneBurst, LastId
  <2>4. (x.last => x.id \in 1 .. MaxDatagrams) /\ x \in Items
    BY Fields, QueuedTail
  <2> HIDE DEF x
  <2>5. LastId(u.pending) = {} /\ OneBurst(u.pending)
    BY <2>3, LastIdPlain, PlainOneBurst
  <2>6. /\ Honest(t) /\ Distinct(t.queue) /\ t.onAir \notin QueueIds(t.queue)
        /\ LastId(t.pending) \cap QueueIds(t.queue) = {}
        /\ {t.onAir} \ {0} \subseteq t.spoiled
        /\ QueueIds(t.queue) \cup LastId(t.pending) \cup ({t.onAir} \ {0}) \subseteq t.open
        /\ t.open \subseteq QueueIds(t.queue) \cup LastId(t.pending) \cup t.spoiled
    BY <2>2 DEF Accounted, Excused, Places
  <2>7. /\ u.onAir \notin QueueIds(t.queue)
        /\ QueueIds(t.queue) \cup ({u.onAir} \ {0}) \subseteq t.open
        /\ t.open \subseteq QueueIds(t.queue) \cup ({u.onAir} \ {0}) \cup t.spoiled
    <3>1. CASE x.last
      <4>1. u.onAir = x.id /\ x.id # 0 /\ LastId(t.pending) = {x.id}
        BY <2>1, <2>3, <2>4, <3>1, Bounds
      <4> QED
        BY <2>6, <4>1
    <3>2. CASE ~x.last
      BY <2>1, <2>3, <2>6, <3>2
    <3> QED
      BY <3>1, <3>2
  <2>8. Accounted(u)
    <3>1. Honest(u) /\ u.onAir \notin QueueIds(u.queue) \cup LastId(u.pending)
          /\ Places(u) = QueueIds(t.queue) \cup ({u.onAir} \ {0})
      BY <2>1, <2>5, <2>6, <2>7 DEF Honest, Places
    <3> QED
      BY <2>1, <2>3, <2>5, <2>6, <2>7, <3>1 DEF Accounted
  <2>9. ~Excused(u) => u.current = Item("datagram", u.onAir, TRUE)
    <3>1. ~Excused(u) => x.last
      BY <2>1, <2>2 DEF Excused
    <3>2. x.last => x = Item("datagram", x.id, TRUE)
      BY <2>3, <2>4 DEF Item, Items
    <3> QED
      BY <2>1, <3>1, <3>2
  <2> QED
    BY <2>1, <2>3, <2>8, <2>9 DEF Owed, BurstFlow
<1> QED
  BY <1>1, <1>2, <1>3

\* refuse: a burst takes the rest of its datagram with it.
LEMMA RefusedOwed ==
  ASSUME Typed(s), NEW t, Typed(t), Owed(t), Idle(t), t.pending # <<>>, NEW u \in Refused(t)
  PROVE  Owed(u)
<1>1. Typed(u) /\ SamePlay(t, u) /\ RefusedOne(t, u)
  BY RefusedFacts
<1>2. CASE IsLink(Head(t.pending)) /\ SameClients(t, u) /\ u.pending = Tail(t.pending)
  <2>1. Plain(t.pending) /\ Plain(u.pending)
    BY <1>2, LinkFront
  <2>2. Cleared(t)
    BY <2>1, OwedIdle DEF Idle
  <2> QED
    BY <1>1, <1>2, <2>1, <2>2, ClearedSame, OwedCleared
<1>3. CASE /\ IsLink(Head(t.pending))
           /\ \E v : /\ SameClients(t, v) /\ v.pending = Of(Tail(t.pending), Kinds \ Link)
                     /\ Handed(v, u)
  <2> DEFINE K == Kinds \ Link
  <2>1. PICK v : SameClients(t, v) /\ v.pending = Of(Tail(t.pending), K) /\ Handed(v, u)
    BY <1>3
  <2> HIDE DEF K
  <2>2. Plain(t.pending) /\ Plain(Tail(t.pending)) /\ Tail(t.pending) \in Seq(Items)
    BY <1>3, LinkFront
  <2>3. Plain(v.pending) /\ v.pending \in Seq(Items)
    <3> DEFINE r == Tail(t.pending)
    <3>1. r \in Seq(Items) /\ Plain(r) /\ v.pending = Of(r, K)
      BY <2>1, <2>2
    <3> HIDE DEF r
    <3> QED
      BY <3>1, PlainOf, OfType
  <2>4. SameClients(t, u)
    BY <2>1 DEF SameClients, Handed
  <2>5. Plain(u.pending)
    <3>1. CASE u.pending = v.pending
      BY <2>3, <3>1
    <3>2. CASE \E what \in Link, id \in Nat : u.pending = Append(v.pending, Item(what, id, FALSE))
      <4>1. PICK what \in Link, id \in Nat : u.pending = Append(v.pending, Item(what, id, FALSE))
        BY <3>2
      <4> DEFINE x == Item(what, id, FALSE)
      <4>2. x \in Items /\ x.what # "datagram" /\ ~x.last
        BY <4>1 DEF Item, Items, Kinds, Link
      <4>3. u.pending = Append(v.pending, x)
        BY <4>1
      <4> HIDE DEF x
      <4> QED
        BY <2>3, <4>2, <4>3, PlainAppend
    <3> QED
      BY <2>1, <3>1, <3>2 DEF Handed
  <2>6. Cleared(t)
    BY <2>2, OwedIdle DEF Idle
  <2> QED
    BY <1>1, <2>4, <2>5, <2>6, ClearedSame, OwedCleared
<1>4. CASE u = RefuseDatagram([t EXCEPT !.pending = Tail(t.pending)], Head(t.pending))
  <2> DEFINE rest == [t EXCEPT !.pending = Tail(t.pending)]
  <2>1. t.pending \in Seq(Items) /\ Accounted(t) /\ Excused(t) /\ OneBurst(t.pending)
    BY Fields, OwedIdle, OwedKept DEF Owed, Idle
  <2>2. rest \in Stations /\ rest.pending = Tail(t.pending) /\ SameClients(t, rest)
    <3>1. Tail(t.pending) \in Seq(Items) /\ t \in Stations
      BY <2>1, PlainParts, Fields
    <3> QED
      BY <3>1 DEF Stations, SameClients
  <2>3. Typed(rest)
    BY <2>2, TypedQueue, QueuedTail, Fields
  <2>4. u = RefuseDatagram(rest, Head(t.pending))
    BY <1>4
  <2> HIDE DEF rest
  <2>5. Cleared(u)
    BY <2>1, <2>2, <2>3, <2>4, RefuseFront
  <2>6. u.pending = Tail(t.pending)
    BY <2>2, <2>3, <2>4, RefuseDatagramFacts, ZenonT(40) DEF Clients, SameFlow
  <2>7. Plain(u.pending)
    BY <2>1, <2>6 DEF OneBurst
  <2> QED
    BY <1>1, <2>5, <2>7, OwedCleared
<1> QED
  BY <1>1, <1>2, <1>3, <1>4 DEF RefusedOne

\* start_pending: whatever of it happens.
LEMMA StartedOwed ==
  ASSUME Typed(s), NEW t, Typed(t), Owed(t), Account(t), Flow(t), NEW u \in Started(t)
  PROVE  Owed(u)
<1>1. CASE t.transmitting \/ t.waiting
  BY <1>1 DEF Started
<1>2. CASE ~t.transmitting /\ ~t.waiting
  <2>0. Idle(t)
    BY <1>2, Fields DEF Flow, Idle
  <2>1. PICK fed \in Fed(t) :
          \/ u = fed
          \/ u = BeaconsDropped(fed)
          \/ /\ BeaconsDropped(fed).pending # <<>>
             /\ u \in Rendered(BeaconsDropped(fed)) \cup Refused(BeaconsDropped(fed))
    BY <1>2, StartedSteps
  <2> DEFINE v == BeaconsDropped(fed)
  <2>2. Typed(fed) /\ SamePlay(t, fed) /\ Account(fed) /\ Owed(fed)
    BY <1>2, FedFacts, FedOwed
  <2>3. Typed(v) /\ SamePlay(fed, v) /\ Account(v) /\ Owed(v)
    BY <2>2, BeaconsDroppedFacts, BeaconsDroppedOwed DEF BeaconsFree
  <2>4. u = fed \/ u = v \/ (v.pending # <<>> /\ u \in Rendered(v) \cup Refused(v))
    BY <2>1
  <2> HIDE DEF v
  <2>5. Idle(v)
    BY <2>0, <2>2, <2>3 DEF SamePlay, Idle
  <2>6. CASE v.pending # <<>> /\ u \in Rendered(v)
    BY <2>3, <2>5, <2>6, RenderedOwed
  <2>7. CASE v.pending # <<>> /\ u \in Refused(v)
    BY <2>3, <2>5, <2>7, RefusedOwed
  <2> QED
    BY <2>2, <2>3, <2>4, <2>6, <2>7
<1> QED
  BY <1>1, <1>2

\* What is held, past its slot or not keyed.
LEMMA NotStartedOwed ==
  ASSUME NEW t, Typed(t), Owed(t), NEW u \in NotStarted(t)
  PROVE  Owed(u)
<1>1. CASE u = t
  BY <1>1
<1>2. CASE u = Abandon(t)
  BY <1>2, AbandonOwed DEF Owed
<1>3. CASE Late(t) /\ u = DropLate(t)
  <2>1. Cleared(t) /\ Plain(t.pending)
    BY <1>3, OwedIdle DEF Late, Slotted
  <2>2. Typed(u) /\ SameClients(t, u) /\ u.pending = t.pending
    BY <1>3, DiscardWaitingFacts DEF DropLate
  <2> QED
    BY <2>1, <2>2, ClearedSame, OwedCleared
<1> QED
  BY <1>1, <1>2, <1>3 DEF NotStarted

LEMMA KeyedOwed ==
  ASSUME NEW t, Typed(t), Owed(t), t.waiting
  PROVE  Owed(Keyed(t))
<1> DEFINE u == Keyed(t)
<1>1. /\ Typed(u) /\ SameClients(t, u) /\ u.pending = t.pending
      /\ u.current = t.current /\ u.transmitting
  BY KeyedFacts
<1> HIDE DEF u
<1>2. Kept(t.pending, u.pending) /\ Plain(t.pending)
  BY <1>1, OwedKept, OwedIdle
<1>3. Accounted(u)
  BY <1>1, <1>2, AccountedSame DEF Owed
<1>4. BurstFlow(u)
  BY <1>1, <1>2 DEF Owed, BurstFlow, SameClients, Excused
<1> QED
  BY <1>3, <1>4 DEF Owed, u

\* A change of the card's, or of a flush asked for.
LEMMA OwedFlags ==
  ASSUME NEW t, Typed(t), Owed(t), NEW u, Typed(u), SameClients(t, u), u.pending = t.pending,
         u.current = t.current, u.waiting = t.waiting, u.transmitting = t.transmitting
  PROVE  Owed(u)
<1>1. Kept(t.pending, u.pending)
  BY OwedKept
<1>2. Accounted(u)
  BY <1>1, AccountedSame DEF Owed
<1> QED
  BY <1>2 DEF Owed, BurstFlow, SameClients, Excused

\* What the card has played of a burst that is not excused: no flush takes it, and
\* the card has it until it has all radiated.
Radiates(t, c) ==
  t.transmitting /\ ~t.cutShort /\ ~Excused(t) =>
    /\ ~t.flush
    /\ \/ c.at = "lead" /\ t.air = "nothing"
       \/ c.at = "frames" /\ t.air = "header"
       \/ c.at = "end" /\ t.air = "whole"

LEMMA RadiatesSame ==
  ASSUME NEW t, NEW c, Radiates(t, c), NEW u, SamePlay(t, u), u.onAir = t.onAir,
         t.spoiled \subseteq u.spoiled
  PROVE  Radiates(u, c)
BY DEF Radiates, SamePlay, Excused

\* So what has left the card whole was sent.
LEMMA RadiatesSent ==
  ASSUME NEW t, Owed(t), NEW c, Radiates(t, c), t.transmitting, t.cutShort \/ c.at = "end"
  PROVE  t.cutShort \/ Excused(t) \/ Sent(t, t.onAir)
BY DEF Owed, BurstFlow, Radiates, Sent

LEMMA HeardOwed ==
  ASSUME Typed(s), NEW t, Typed(t), Owed(t), Radiates(t, card),
         NEW u \in Heard(t) \cup Stalled(t)
  PROVE  Owed(u)
<1> DEFINE over == t.transmitting /\ card.at = "end" /\ ~t.waiting
           trips == t.transmitting /\ ~over
           Good(v) == Typed(v) /\ Owed(v)
<1>1. Good(t)
  OBVIOUS
<1>2. Good(Abandon(t))
  BY AbandonFacts, AbandonOwed DEF Owed
<1>3. ASSUME over, NEW v \in Finishes(t)
      PROVE  Good(v)
  BY <1>3, FinishesIdle, FinishesOwed, RadiatesSent DEF Owed
<1>4. ASSUME trips
      PROVE  Good(Tripped(t)) /\ Good(Abandon(Tripped(t)))
  <2>1. Good(Tripped(t))
    BY <1>4, TrippedFacts, TrippedOwed
  <2> QED
    BY <2>1, AbandonFacts, AbandonOwed DEF Owed
<1>5. CASE u \in Stalled(t)
  BY <1>1, <1>2, <1>5 DEF Stalled
<1>6. CASE u \in Heard(t)
  <2> DEFINE ends == (IF over THEN Finishes(t) ELSE {t})
                       \cup (IF trips THEN {Abandon(t), Tripped(t), Abandon(Tripped(t))} ELSE {})
  <2>1. PICK v \in ends : u \in Engine(v)
    BY <1>6 DEF Heard
  <2>2. Good(v)
    <3> HIDE DEF Good, over, trips
    <3> QED
      BY <1>1, <1>2, <1>3, <1>4, <2>1
  <2> QED
    BY <2>1, <2>2, EngineFacts, HandedOwed
<1> QED
  BY <1>5, <1>6

\* Read: a burst is not what the card drops.
LEMMA ReadRadiates ==
  ASSUME NEW t, Typed(t), NEW c, Radiates(t, c), NEW u \in Read(t),
         card.dropped => t.transmitting
  PROVE  Radiates(u, c)
<1>1. CASE ~card.dropped
  BY <1>1 DEF Read
<1>2. CASE card.dropped
  <2> DEFINE v == CardDroppedLate(t, TRUE)
  <2>1. u = v \/ u = CardDroppedLate(t, FALSE)
    BY <1>2 DEF Read
  <2>2. Typed(v) /\ Idle(v) /\ CardDroppedLate(t, FALSE) = Abandon(v)
    BY <1>2, CardDroppedLateFacts
  <2> HIDE DEF v
  <2>3. ~u.transmitting
    BY <2>1, <2>2, AbandonFacts DEF Given, Idle
  <2> QED
    BY <2>3 DEF Radiates
<1> QED
  BY <1>1, <1>2

LEMMA HandedRadiates ==
  ASSUME NEW t, NEW c, Radiates(t, c), NEW u, Handed(t, u)
  PROVE  Radiates(u, c)
BY RadiatesSame DEF Handed, SameClients

\* What ends a transmission leaves none.
LEMMA HeardRadiates ==
  ASSUME Typed(s), NEW t, Typed(t), Radiates(t, card), NEW u \in Heard(t) \cup Stalled(t)
  PROVE  Radiates(u, card)
<1> DEFINE Good(v) == Radiates(v, card)
           over == t.transmitting /\ card.at = "end" /\ ~t.waiting
<1>1. \A v : ~v.transmitting => Good(v)
  BY DEF Radiates
<1>2. ~Abandon(t).transmitting /\ ~Tripped(t).transmitting
      /\ ~Abandon(Tripped(t)).transmitting
  <2>1. Typed(Tripped(t)) /\ ~Tripped(t).transmitting
    BY TrippedFacts DEF Idle
  <2> QED
    BY <2>1, AbandonFacts DEF Given
<1>3. \A v \in Finishes(t) : ~v.transmitting
  BY FinishesIdle
<1>4. CASE u \in Stalled(t)
  BY <1>1, <1>2, <1>4 DEF Stalled
<1>5. CASE u \in Heard(t)
  <2> DEFINE ends == Finishes(t) \cup {t, Abandon(t), Tripped(t), Abandon(Tripped(t))}
  <2>1. PICK v \in ends : u \in Engine(v)
    BY <1>5 DEF Heard
  <2>2. Typed(v)
    <3>1. Typed(Tripped(t))
      BY TrippedFacts
    <3> QED
      BY <2>1, <3>1, AbandonFacts, FinishesIdle
  <2>3. v = t \/ ~v.transmitting
    BY <1>2, <1>3, <2>1
  <2>4. Good(v)
    BY <1>1, <2>3
  <2> QED
    BY <2>1, <2>2, <2>4, EngineFacts, HandedRadiates
<1> QED
  BY <1>4, <1>5

\* A command cuts what is on the air, or leaves it.
LEMMA AskedRadiates ==
  ASSUME FlowInv, Radiates(s, card), NEW ask \in Commands, NEW u \in Asked(s, ask)
  PROVE  Radiates(u, card)
<1> USE DEF FlowInv, TypeInv
<1>1. CASE ask = "call"
  <2>1. u \in Engine(s)
    BY <1>1 DEF Asked, Engine
  <2> QED
    BY <2>1, EngineFacts, HandedRadiates
<1>2. CASE ask = "abort"
  <2> DEFINE v == Abort(s)
             cuts == s.transmitting /\ ~s.playingTest
             drops == s.keying /\ ~s.transmitting /\ s.waiting
  <2>1. u \in Engine(v)
    BY <1>2 DEF Asked
  <2>2. /\ Typed(v) /\ v.onAir = s.onAir /\ s.spoiled \subseteq v.spoiled
        /\ v.transmitting = s.transmitting
        /\ cuts => v.cutShort
        /\ ~cuts /\ ~drops => SamePlay(s, v)
    BY AbortFacts DEF SameClients
  <2> HIDE DEF v
  <2>3. Radiates(v, card)
    BY <2>2, RadiatesSame DEF Radiates
  <2> QED
    BY <2>1, <2>2, <2>3, EngineFacts, HandedRadiates
<1>3. CASE ask = "beacon" \/ ask = "tune"
  <2>1. u \in Beacon(s) \cup Tune(s)
    BY <1>3 DEF Asked
  <2>2. SamePlay(s, u) /\ SameClients(s, u)
    BY <2>1, AskedOwn
  <2> QED
    BY <2>2, RadiatesSame DEF SameClients
<1>4. CASE ask = "stop"
  <2> DEFINE v == TuneStop(s)
  <2>1. /\ v.onAir = s.onAir /\ s.spoiled \subseteq v.spoiled
        /\ ~s.playingTest => SamePlay(s, v)
        /\ s.playingTest => v.cutShort
    BY TuneStopFacts DEF SameClients
  <2>2. u = v
    BY <1>4 DEF Asked
  <2> HIDE DEF v
  <2> QED
    BY <2>1, <2>2, RadiatesSame DEF Radiates
<1>5. CASE ask = "datagram"
  <2>1. SamePlay(s, u) /\ u.onAir = s.onAir /\ u.spoiled = s.spoiled
    BY <1>5, SendDatagramFacts DEF Asked
  <2> QED
    BY <2>1, RadiatesSame
<1> QED
  BY <1>1, <1>2, <1>3, <1>4, <1>5 DEF Commands

\* The card's own steps: it plays a burst to its end.
LEMMA CardRadiates ==
  ASSUME FlowInv, Owed(s), Radiates(s, card), Card
  PROVE  Radiates(s', card')
<1> USE DEF FlowInv, TypeInv
<1>1. CASE Excused(s)
  <2>1. s'.onAir = s.onAir /\ s'.spoiled = s.spoiled
    BY Fields DEF Card, CardStarts, CardDrops, CardDrains, Stations
  <2> QED
    BY <1>1, <2>1 DEF Excused, Radiates
<1>2. CASE ~Excused(s)
  <2>1. /\ ~s.flush /\ s.current.what = "datagram" /\ s.transmitting
        /\ \/ card.at = "lead" /\ s.air = "nothing"
           \/ card.at = "frames" /\ s.air = "header"
           \/ card.at = "end" /\ s.air = "whole"
    BY <1>2 DEF Card, CardStarts, CardDrops, CardDrains, Plays, Radiates, Owed, BurstFlow, Item
  <2>2. CASE CardStarts
    <3>1. s'.flush = s.flush /\ s'.air = "header" /\ card'.at = "frames"
      BY <2>2, Fields DEF CardStarts, Cards, Stations
    <3> QED
      BY <2>1, <3>1 DEF Radiates
  <2>3. CASE CardDrops
    <3>1. card.at = "lead" /\ card.guard
      BY <2>3 DEF CardDrops
    <3>2. card.of = s.current /\ card.of.what \in Slotted
      BY <2>1, <3>1 DEF Fits
    <3> QED
      BY <2>1, <3>2 DEF Slotted
  <2>4. CASE CardDrains
    <3>1. card.at = "frames"
      BY <2>1, <2>4 DEF CardDrains
    <3>2. s'.flush = s.flush /\ s'.air = "whole" /\ card'.at = "end"
      BY <2>4, <3>1, Fields DEF CardDrains, Cards, Stations
    <3> QED
      BY <2>1, <3>2 DEF Radiates
  <2> QED
    BY <2>2, <2>3, <2>4 DEF Card
<1> QED
  BY <1>1, <1>2

\* Every step leaves the card with what it was to radiate.
LEMMA RadiatesNext ==
  ASSUME FlowInv, Owed(s), Radiates(s, card), [Next]_vars
  PROVE  Radiates(s', card')
<1> USE DEF FlowInv, TypeInv
<1>0. card.dropped => s.transmitting
  BY DEF Fits
<1>1. CASE Command
  <2>1. PICK ask \in Asks : s' \in Asked(s, ask)
    BY <1>1 DEF Command
  <2>2. ask \in Commands /\ card' = card
    BY <1>1, <2>1, Bounds DEF Command
  <2> QED
    BY <2>1, <2>2, AskedRadiates
<1>2. CASE EndCommands
  BY <1>2 DEF EndCommands
<1>3. CASE Capture
  <2>1. PICK t \in Read(s) : s' \in Heard(t) \cup Stalled(t)
    BY <1>3 DEF Capture
  <2>2. card'.at = card.at
    BY <1>3 DEF Capture, Cards
  <2>3. Typed(t) /\ Radiates(t, card)
    BY <1>0, <2>1, ReadType, ReadRadiates
  <2>4. Radiates(s', card)
    BY <2>1, <2>3, HeardRadiates
  <2> QED
    BY <2>2, <2>4 DEF Radiates
<1>4. CASE Flush
  <2> DEFINE t == [s EXCEPT !.flush = FALSE]
  <2>1. /\ Typed(t) /\ t.onAir = s.onAir /\ s.spoiled \subseteq t.spoiled
        /\ t.transmitting = s.transmitting /\ t.cutShort = s.cutShort /\ ~t.flush
        /\ t.air = s.air
    BY FlushedFacts DEF SameClients
  <2>2. s' \in Read(t)
    BY <1>4 DEF Flush
  <2> HIDE DEF t
  <2>3. ~s.flush => card'.at = card.at
    BY <1>4 DEF Flush, Cards
  <2>4. Radiates(t, card')
    BY <2>1, <2>3 DEF Radiates, Excused
  <2> QED
    BY <1>0, <2>1, <2>2, <2>4, ReadRadiates
<1>5. CASE FillTransmission
  <2>0. ~s.transmitting
    BY <1>5 DEF FillTransmission
  <2>1. PICK t \in Started(s) :
          \/ s' \in NotStarted(t) /\ UNCHANGED card
          \/ /\ t.waiting
             /\ s' = Keyed(t)
             /\ card' = [card EXCEPT !.at = "lead", !.of = t.current,
                                     !.guard = (t.current.what \in Slotted)]
    BY <1>5 DEF FillTransmission
  <2>2. Typed(t) /\ Account(t) /\ Flow(t) /\ ~t.transmitting
    BY <2>0, <2>1, StartedFacts
  <2>3. CASE s' \in NotStarted(t)
    <3>1. ~s'.transmitting
      BY <2>2, <2>3, NotStartedFacts
    <3> QED
      BY <3>1 DEF Radiates
  <2>4. CASE /\ s' = Keyed(t)
             /\ card' = [card EXCEPT !.at = "lead", !.of = t.current,
                                     !.guard = (t.current.what \in Slotted)]
    <3>1. /\ s'.onAir = t.onAir /\ s'.flush = t.flush /\ s'.air = "nothing"
          /\ t.flush /\ t.onAir # 0 => t.onAir \in s'.spoiled
      BY <2>2, <2>4, KeyedFacts DEF SameClients
    <3>2. card'.at = "lead"
      BY <2>4 DEF Cards
    <3>3. s'.flush => Excused(s')
      BY <3>1 DEF Excused
    <3> QED
      BY <3>1, <3>2, <3>3 DEF Radiates
  <2> QED
    BY <2>1, <2>3, <2>4
<1>6. CASE FillRelease
  <2>1. card' = card /\ (s' \in Finishes(s) \/ s' = s)
    BY <1>6 DEF FillRelease
  <2>2. CASE s' \in Finishes(s)
    <3>1. ~s'.transmitting
      BY <2>2, FinishesIdle
    <3> QED
      BY <3>1 DEF Radiates
  <2> QED
    BY <2>1, <2>2
<1>7. CASE Card
  BY <1>7, CardRadiates
<1>8. CASE UNCHANGED vars
  BY <1>8 DEF vars
<1> QED
  BY <1>1, <1>2, <1>3, <1>4, <1>5, <1>6, <1>7, <1>8 DEF Next, Pass

DataInv == FlowInv /\ Owed(s) /\ Radiates(s, card)

LEMMA DataInit == Init => DataInv
<1> SUFFICES ASSUME Init
             PROVE  DataInv
  OBVIOUS
<1>1. FlowInv
  BY FlowInit
<1>2. /\ s.pending = <<>> /\ s.queue = <<>> /\ s.onAir = 0 /\ s.open = {} /\ s.lies = {}
      /\ ~s.transmitting
  BY DEF Init
<1>3. Distinct(s.queue) /\ QueueIds(s.queue) = {}
  BY <1>2 DEF Distinct, QueueIds
<1>4. Cleared(s) /\ Radiates(s, card)
  BY <1>2, <1>3 DEF Cleared, Honest, Excused, Radiates
<1>5. Typed(s) /\ Plain(s.pending)
  BY <1>1, <1>2, PlainEmpty DEF FlowInv, TypeInv
<1> QED
  BY <1>1, <1>4, <1>5, OwedCleared DEF DataInv

LEMMA DataNext == DataInv /\ [Next]_vars => DataInv'
<1> SUFFICES ASSUME DataInv, [Next]_vars
             PROVE  DataInv'
  OBVIOUS
<1>1. FlowInv' /\ Radiates(s', card')
  BY FlowNext, RadiatesNext DEF DataInv
<1>2. FlowInv /\ Typed(s) /\ Flow(s) /\ Account(s) /\ Fits(s, card) /\ Owed(s) /\ Typed(s')
      /\ Radiates(s, card)
  BY <1>1 DEF DataInv, FlowInv, TypeInv
<1>3. card.dropped => s.transmitting /\ s.current.what \in Slotted
  BY <1>2 DEF Fits
<1>4. Owed(s')
  <2>1. CASE Command
    <3>1. PICK ask \in Asks : s' \in Asked(s, ask)
      BY <2>1 DEF Command
    <3>2. ask \in Commands
      BY <3>1, Bounds
    <3> QED
      BY <1>2, <3>1, <3>2, AskedOwed
  <2>2. CASE EndCommands
    BY <1>2, <2>2 DEF EndCommands
  <2>3. CASE Capture
    <3>1. PICK t \in Read(s) : s' \in Heard(t) \cup Stalled(t)
      BY <2>3 DEF Capture
    <3>2. Typed(t) /\ Owed(t) /\ Radiates(t, card)
      BY <1>2, <1>3, <3>1, ReadType, ReadOwed, ReadRadiates
    <3> QED
      BY <1>2, <3>1, <3>2, HeardOwed
  <2>4. CASE Flush
    <3> DEFINE t == [s EXCEPT !.flush = FALSE]
    <3>1. /\ Typed(t) /\ SameClients(s, t) /\ t.pending = s.pending
          /\ t.current = s.current /\ t.waiting = s.waiting
          /\ t.transmitting = s.transmitting
      BY <1>2, FlushedFacts
    <3>2. s' \in Read(t)
      BY <2>4 DEF Flush
    <3> HIDE DEF t
    <3>3. Owed(t)
      BY <1>2, <3>1, OwedFlags
    <3> QED
      BY <1>3, <3>1, <3>2, <3>3, ReadOwed
  <2>5. CASE FillTransmission
    <3>1. PICK t \in Started(s) :
            s' \in NotStarted(t) \/ (t.waiting /\ s' = Keyed(t))
      BY <2>5 DEF FillTransmission
    <3>2. Typed(t) /\ Owed(t)
      BY <1>2, <3>1, StartedType, StartedOwed
    <3> QED
      BY <3>1, <3>2, NotStartedOwed, KeyedOwed
  <2>6. CASE FillRelease
    <3>1. CASE s.cutShort \/ card.at = "end"
      <4>1. s' \in Finishes(s) /\ ~s.waiting /\ s.transmitting
        BY <1>2, <2>6, <3>1 DEF FillRelease, Flow
      <4>2. s.cutShort \/ Excused(s) \/ Sent(s, s.onAir)
        BY <1>2, <3>1, <4>1, RadiatesSent
      <4> QED
        BY <1>2, <4>1, <4>2, FinishesOwed DEF Owed
    <3>2. CASE ~(s.cutShort \/ card.at = "end")
      BY <1>2, <2>6, <3>2 DEF FillRelease
    <3> QED
      BY <3>1, <3>2
  <2>7. CASE Card
    <3>1. CASE CardStarts
      <4>1. s' = [s EXCEPT !.air = "header"]
        BY <3>1 DEF CardStarts
      <4> QED
        BY <1>2, <4>1, AirFacts, OwedFlags
    <3>2. CASE CardDrops
      BY <1>2, <3>2 DEF CardDrops
    <3>3. CASE CardDrains
      <4> DEFINE air == IF card.at = "frames" THEN "whole" ELSE s.air
      <4>1. s' = [s EXCEPT !.air = air] /\ air \in {"nothing", "header", "whole"}
        BY <1>2, <3>3, Fields DEF CardDrains, Stations
      <4> HIDE DEF air
      <4> QED
        BY <1>2, <4>1, AirFacts, OwedFlags
    <3> QED
      BY <2>7, <3>1, <3>2, <3>3 DEF Card
  <2>8. CASE UNCHANGED vars
    BY <1>2, <2>8 DEF vars
  <2> QED
    BY <2>1, <2>2, <2>3, <2>4, <2>5, <2>6, <2>7, <2>8 DEF Next, Pass
<1> QED
  BY <1>1, <1>4 DEF DataInv

\* What the account says of the places a datagram can be in.
LEMMA OwedIsOpen ==
  ASSUME Typed(s), Owed(s)
  PROVE  DatagramsAccounted
<1> DEFINE lasts == {s.pending[i].id : i \in {j \in DOMAIN s.pending : s.pending[j].last}}
           queued == {s.queue[i].id : i \in DOMAIN s.queue}
           q == s.pending
<1>1. q \in Seq(Items) /\ s.queue \in Seq(Entries) /\ Accounted(s) /\ OneBurst(q)
  BY Fields DEF Entries, Owed, Accounted
<1>2. queued = QueueIds(s.queue)
  <2>1. DOMAIN s.queue = 1 .. Len(s.queue)
    BY <1>1
  <2> QED
    BY <2>1 DEF QueueIds
<1>3. DOMAIN q = 1 .. Len(q) /\ Len(q) \in Nat
  BY <1>1
<1>4. lasts = LastId(q)
  <2>1. CASE q = <<>>
    <3>1. DOMAIN q = {}
      BY <2>1
    <3> QED
      BY <2>1, <3>1 DEF LastId
  <2>2. CASE q # <<>>
    <3>1. /\ 1 \in DOMAIN q /\ Head(q) = q[1] /\ Len(Tail(q)) = Len(q) - 1
          /\ \A i \in 1 .. Len(Tail(q)) : Tail(q)[i] = q[i + 1]
      BY <1>1, <2>2, HeadTailProperties, EmptySeq
    <3>2. \A j \in DOMAIN q : q[j].last => j = 1
      <4> SUFFICES ASSUME NEW j \in DOMAIN q, j # 1
                   PROVE  ~q[j].last
        OBVIOUS
      <4>1. j - 1 \in 1 .. Len(Tail(q)) /\ (j - 1) + 1 = j
        BY <1>3, <3>1
      <4>2. Tail(q)[j - 1] = q[j] /\ Plain(Tail(q))
        BY <1>1, <2>2, <3>1, <4>1 DEF OneBurst
      <4> QED
        BY <4>1, <4>2 DEF Plain
    <3> QED
      BY <2>2, <3>1, <3>2 DEF LastId
  <2> QED
    BY <2>1, <2>2
<1>5. s.lies \cap {"twice", "sent"} = {}
  BY <1>1 DEF Accounted, Honest
<1> HIDE DEF lasts, queued
<1>6. LET has == queued \cup lasts \cup ({s.onAir} \ {0})
      IN  has \subseteq s.open /\ s.open \subseteq has \cup s.spoiled
  BY <1>1, <1>2, <1>4 DEF Accounted, Places
<1> QED
  BY <1>5, <1>6 DEF DatagramsAccounted, lasts, queued

\* A client hears once of each datagram it sent, and that it was sent only if its
\* last burst radiated whole; until then the station has some of it. Excepted are
\* those whose last burst the watchdog ended, or that a late flush took.
THEOREM EachDatagramAnswered == Spec => []DatagramsAccounted
<1>1. Init => DataInv
  BY DataInit
<1>2. DataInv /\ [Next]_vars => DataInv'
  BY DataNext
<1>3. DataInv => DatagramsAccounted
  BY OwedIsOpen DEF DataInv, FlowInv, TypeInv
<1> QED
  BY <1>1, <1>2, <1>3, PTL DEF Spec
=============================================================================
