---------------------------- MODULE DatagramsProofs ----------------------------
(***************************************************************************)
(* Proofs about Datagrams, for every value of its constants: what a        *)
(* datagram is split in, what is joined, and that what is heard in time is *)
(* handed on.                                                              *)
(***************************************************************************)
EXTENDS Datagrams, InductionFacts, FiniteSetTheorems, SequenceTheorems

-----------------------------------------------------------------------------
(* The inductive invariant. *)

\* Datagrams of a sender of which a piece was on the air.
Begun(s) ==
  IF sending[s] # <<>> /\ Head(sending[s]).index = 0 THEN made[s] - 1 ELSE made[s]

\* The number of a sender's id'th datagram.
Numbered(id, n) == n \in 1 .. Numbers /\ \E k \in Nat : id = k * Numbers + n

\* What is left of a datagram is its last pieces, in order.
SendingInv ==
  \A s \in Senders :
    /\ \/ made[s] = 0 /\ number[s] = 0
       \/ Numbered(made[s], number[s])
    /\ \A i \in 1 .. Len(sending[s]) :
         LET piece == sending[s][i]
         IN  /\ piece.of = <<s, made[s]>> /\ piece.number = number[s]
             /\ piece.index = Head(sending[s]).index + i - 1
             /\ piece.last = Head(sending[s]).index + Len(sending[s]) - 1

\* A piece the receiver keeps: of a datagram begun so long ago that as many
\* frames as its sender began datagrams since fit in the time.
PieceInv(q, first) ==
  /\ q.index <= q.last
  /\ q.of[2] <= Begun(q.of[1]) /\ Numbered(q.of[2], q.number)
  /\ first + Frame * (Begun(q.of[1]) - q.of[2]) <= now

\* One piece of an index; one datagram of a sender.
Alone(pieces) ==
  \A q, r \in pieces : /\ q.index = r.index => q = r
                       /\ q.of[1] = r.of[1] => q.of = r.of

Partials == [key : (1 .. Numbers) \X (0 .. MaxFragments - 1), first : Nat,
             pieces : SUBSET Pieces]

PartialInv(p) ==
  /\ p.first <= now /\ now - p.first <= Timeout
  /\ p.pieces # {} /\ IsFiniteSet(p.pieces) /\ Alone(p.pieces)
  /\ \A q \in p.pieces : Key(q) = p.key /\ PieceInv(q, p.first)

WaitingInv ==
  /\ waiting \subseteq Partials /\ IsFiniteSet(waiting) /\ Cardinality(waiting) <= Keep
  /\ \A p \in waiting : PartialInv(p)
  /\ \A p, q \in waiting : p.key = q.key \/ p.first = q.first => p = q

\* What the history keeps of a sender's datagram is true.
Heard == [heard : SUBSET (0 .. MaxFragments - 1), first : Nat, late : BOOLEAN,
          begun : Nat, met : BOOLEAN]

Later(partials, first) == {x \in {p.first : p \in partials} : x > first}

\* A datagram of which pieces were heard waits with those pieces, unless it was
\* given up on, met or pushed out.
Followed(s) ==
  \E p \in waiting :
    /\ p.key = Key(Head(sending[s])) /\ p.first = story[s].first
    /\ \A q \in p.pieces : q.of = <<s, made[s]>>
    /\ {q.index : q \in p.pieces} = story[s].heard
    /\ Cardinality(Later(waiting, p.first)) <= story[s].begun

StoryOf(s) ==
  /\ story[s].heard # {} => story[s].first <= now
  /\ \A p \in waiting : \A q \in p.pieces :
       q.of = <<s, made[s]>> => q.index \in story[s].heard
  /\ sending[s] # <<>> =>
       /\ \A i \in story[s].heard : i < Head(sending[s]).index
       /\ story[s].heard # {} /\ now - story[s].first <= Timeout
          /\ ~story[s].met /\ story[s].begun < Keep => Followed(s)

StoryInv == story \in [Senders -> Heard] /\ \A s \in Senders : StoryOf(s)

Typed ==
  /\ now \in 0 .. MaxTime
  /\ made \in [Senders -> 0 .. MaxMade] /\ number \in [Senders -> 0 .. Numbers]
  /\ DOMAIN sending = Senders /\ \A s \in Senders : sending[s] \in Seq(Pieces)
LEMMA ConstantFacts ==
  /\ Full \in Nat /\ Full >= 3 /\ Partial = 2 /\ MaxFragments \in Nat /\ MaxFragments >= 1
  /\ Numbers \in Nat /\ Numbers >= 1 /\ Frame \in Nat /\ Frame >= 1
  /\ Keep \in Nat /\ Keep >= 1 /\ Timeout \in Nat /\ MaxMade \in Nat /\ MaxTime \in Nat
  /\ Numbers * Frame > Timeout
BY SizeAssumption, WrapAssumption

-----------------------------------------------------------------------------
\* Products, which the provers know little of.

LEMMA TimesStep ==
  ASSUME NEW a \in Int, NEW b \in Int
  PROVE  a * (b + 1) = a * b + a /\ a * b \in Int /\ a * b = b * a
OBVIOUS

LEMMA TimesSpan ==
  ASSUME NEW a \in Nat, NEW b \in Int, NEW c \in Int, b <= c
  PROVE  a * b <= a * c
<1>1. a * (c - b) >= 0
  OBVIOUS
<1>2. a * (c - b) = a * c - a * b
  OBVIOUS
<1>3. a * b \in Int /\ a * c \in Int
  OBVIOUS
<1> QED
  BY <1>1, <1>2, <1>3

\* Two datagrams of a sender with one number are a round of numbers apart.
LEMMA RoundApart ==
  ASSUME NEW i \in Int, NEW j \in Int, NEW n \in Int, Numbered(i, n), Numbered(j, n), i < j
  PROVE  j - i >= Numbers
<1>1. PICK k \in Nat : i = k * Numbers + n
  BY DEF Numbered
<1>2. PICK l \in Nat : j = l * Numbers + n
  BY DEF Numbered
<1>3. Numbers \in Nat
  BY ConstantFacts
<1>4. k * Numbers \in Int /\ l * Numbers \in Int
      /\ k * Numbers = Numbers * k /\ l * Numbers = Numbers * l
  BY <1>3, TimesStep
<1>5. k < l
  <2>1. CASE l <= k
    <3>1. Numbers * l <= Numbers * k
      BY <2>1, <1>3, TimesSpan
    <3> QED
      BY <3>1, <1>1, <1>2, <1>4
  <2> QED
    BY <2>1
<1>6. Numbers * (k + 1) <= Numbers * l /\ Numbers * (k + 1) = Numbers * k + Numbers
  BY <1>5, <1>3, TimesSpan, TimesStep
<1> QED
  BY <1>1, <1>2, <1>3, <1>4, <1>6

LEMMA NextNumbered ==
  ASSUME NEW id \in Nat, NEW n \in Nat, (id = 0 /\ n = 0) \/ Numbered(id, n)
  PROVE  Numbered(id + 1, NextNumber(n))
<1>1. Numbers \in Nat /\ Numbers >= 1
  BY ConstantFacts
<1>2. CASE id = 0 /\ n = 0
  <2>1. id + 1 = 0 * Numbers + 1 /\ NextNumber(n) = 1
    BY <1>1, <1>2 DEF NextNumber
  <2> QED
    BY <2>1, <1>1 DEF Numbered
<1>3. CASE Numbered(id, n)
  <2>1. PICK k \in Nat : id = k * Numbers + n
    BY <1>3 DEF Numbered
  <2>2. n \in 1 .. Numbers
    BY <1>3 DEF Numbered
  <2>3. k * Numbers \in Int /\ k * Numbers = Numbers * k
        /\ (k + 1) * Numbers = Numbers * (k + 1) /\ Numbers * (k + 1) = Numbers * k + Numbers
    BY <1>1, TimesStep
  <2>4. CASE n = Numbers
    <3>1. id + 1 = (k + 1) * Numbers + 1 /\ NextNumber(n) = 1
      BY <2>1, <2>3, <2>4, <1>1 DEF NextNumber
    <3>2. k + 1 \in Nat /\ 1 \in 1 .. Numbers
      BY <1>1
    <3>3. \E l \in Nat : id + 1 = l * Numbers + 1
      BY <3>1, <3>2
    <3> QED
      BY <3>1, <3>2, <3>3 DEF Numbered
  <2>5. CASE n # Numbers
    <3>1. id + 1 = k * Numbers + (n + 1) /\ NextNumber(n) = n + 1 /\ n + 1 \in 1 .. Numbers
      BY <2>1, <2>2, <2>3, <2>5, <1>1 DEF NextNumber
    <3> QED
      BY <3>1 DEF Numbered
  <2> QED
    BY <2>4, <2>5
<1> QED
  BY <1>2, <1>3

-----------------------------------------------------------------------------
\* What a datagram is split in.

LEMMA SplitFacts ==
  ASSUME NEW length \in Nat \ {0}
  PROVE  /\ Split(length) \in Seq(1 .. Full) /\ Split(length) # <<>>
         /\ \A i \in 1 .. Len(Split(length)) :
              Split(length)[i] = Full \/ Split(length)[i] <= Full - Partial
<1> DEFINE whole == (length - 1) \div Full
           rest == length - whole * Full
           fulls == [i \in 1 .. whole |-> Full]
           end == IF rest = Full - 1 THEN <<Full - Partial, rest - (Full - Partial)>>
                  ELSE <<rest>>
<1>1. Split(length) = fulls \o end
  BY DEF Split
<1>2. Full \in Nat /\ Full >= 3 /\ Partial = 2
  BY ConstantFacts
<1>3. /\ whole \in Nat /\ rest \in 1 .. Full
  <2>1. length - 1 \in Nat
    OBVIOUS
  <2>2. whole \in Int /\ Full * whole <= length - 1 /\ length - 1 < Full * whole + Full
    BY <2>1, <1>2
  <2>3. whole >= 0
    BY <2>1, <1>2
  <2>4. whole * Full = Full * whole /\ Full * whole \in Int
    BY <2>2, <1>2, TimesStep
  <2> QED
    BY <2>1, <2>2, <2>3, <2>4, <1>2
<1> HIDE DEF rest, whole
<1>4. fulls \in Seq(1 .. Full) /\ \A i \in 1 .. Len(fulls) : fulls[i] = Full
  BY <1>2, <1>3
<1>5. /\ end \in Seq(1 .. Full) /\ Len(end) >= 1
      /\ \A i \in 1 .. Len(end) : end[i] = Full \/ end[i] <= Full - Partial
  <2>1. CASE rest = Full - 1
    <3>1. end = <<Full - 2, 1>> /\ Full - 2 \in 1 .. Full /\ 1 \in 1 .. Full
      BY <2>1, <1>2
    <3> HIDE DEF end
    <3> QED
      BY <3>1, <1>2
  <2>2. CASE rest # Full - 1
    <3>1. end = <<rest>>
      BY <2>2
    <3> HIDE DEF end
    <3> QED
      BY <3>1, <2>2, <1>2, <1>3
  <2> QED
    BY <2>1, <2>2
<1> HIDE DEF fulls, end
<1>6. /\ fulls \o end \in Seq(1 .. Full) /\ Len(fulls \o end) = Len(fulls) + Len(end)
      /\ \A i \in 1 .. Len(fulls \o end) :
           (fulls \o end)[i] = IF i <= Len(fulls) THEN fulls[i] ELSE end[i - Len(fulls)]
  BY <1>4, <1>5
<1>7. Len(fulls) \in Nat /\ Len(end) \in Nat
  BY <1>4, <1>5
<1> DEFINE all == fulls \o end
<1>8. ASSUME NEW i \in 1 .. Len(all)
      PROVE  all[i] = Full \/ all[i] <= Full - Partial
  <2>1. CASE i <= Len(fulls)
    BY <2>1, <1>6, <1>4
  <2>2. CASE ~(i <= Len(fulls))
    <3>1. i - Len(fulls) \in 1 .. Len(end) /\ all[i] = end[i - Len(fulls)]
      BY <2>2, <1>6, <1>7
    <3> QED
      BY <3>1, <1>5
  <2> QED
    BY <2>1, <2>2
<1>9. all # <<>>
  BY <1>5, <1>6, <1>7
<1> QED
  BY <1>1, <1>6, <1>8, <1>9
LEMMA FragmentsFacts ==
  ASSUME NEW s \in Senders, NEW id \in 1 .. MaxMade, NEW n \in 1 .. Numbers,
         NEW lengths \in Seq(1 .. Full), lengths # <<>>, Len(lengths) <= MaxFragments
  PROVE  LET all == Fragments(s, id, n, lengths)
         IN  /\ all \in Seq(Pieces) /\ all # <<>> /\ Len(all) = Len(lengths)
             /\ Head(all).index = 0
             /\ \A i \in 1 .. Len(all) :
                  /\ all[i].of = <<s, id>> /\ all[i].number = n
                  /\ all[i].index = i - 1 /\ all[i].last = Len(all) - 1
                  /\ all[i].bytes = lengths[i]
<1> DEFINE all == Fragments(s, id, n, lengths)
           N == Len(lengths)
           piece(i) == [of |-> <<s, id>>, number |-> n, index |-> i - 1,
                        last |-> N - 1, bytes |-> lengths[i]]
<1>1. N \in Nat /\ N >= 1 /\ MaxFragments \in Nat /\ N <= MaxFragments
  BY ConstantFacts
<1>2. ASSUME NEW i \in 1 .. N
      PROVE  piece(i) \in Pieces
  <2>1. lengths[i] \in 1 .. Full
    <3>1. i \in 1 .. Len(lengths)
      BY <1>2
    <3> QED
      BY <3>1, ElementOfSeq
  <2>2. i - 1 \in 0 .. MaxFragments - 1 /\ N - 1 \in 0 .. MaxFragments - 1
    BY <1>1, <1>2
  <2> HIDE DEF N
  <2> QED
    BY <2>1, <2>2 DEF Pieces
<1>3. all = [i \in 1 .. N |-> piece(i)]
  BY DEF Fragments
<1> HIDE DEF N, all
<1>4. all \in [1 .. N -> Pieces] /\ \A i \in 1 .. N : all[i] = piece(i)
  BY <1>2, <1>3
<1>5. all \in Seq(Pieces) /\ Len(all) = N
  BY <1>4, <1>1
<1>6. all # <<>> /\ Head(all) = all[1] /\ 1 \in 1 .. N
  BY <1>5, <1>1
<1> QED
  BY <1>4, <1>5, <1>6 DEF N, all

-----------------------------------------------------------------------------
\* What is left of what is sent.

LEMMA HeadFacts ==
  ASSUME Typed, SendingInv, NEW s \in Senders, sending[s] # <<>>
  PROVE  /\ Head(sending[s]) \in Pieces /\ Head(sending[s]).of = <<s, made[s]>>
         /\ Head(sending[s]).number = number[s]
         /\ Head(sending[s]).index \in Nat /\ Head(sending[s]).last \in Nat
         /\ Len(sending[s]) \in Nat /\ Len(sending[s]) >= 1
         /\ Head(sending[s]).last = Head(sending[s]).index + Len(sending[s]) - 1
         /\ made[s] \in 1 .. MaxMade /\ number[s] \in 1 .. Numbers
         /\ Numbered(made[s], number[s])
<1> DEFINE piece == Head(sending[s])
<1>1. sending[s] \in Seq(Pieces)
  BY DEF Typed
<1>2. Len(sending[s]) \in Nat /\ Len(sending[s]) >= 1 /\ piece = sending[s][1]
      /\ 1 \in 1 .. Len(sending[s])
  BY <1>1
<1>3. piece \in Pieces
  BY <1>1, <1>2
<1>4. /\ piece.of = <<s, made[s]>> /\ piece.number = number[s]
      /\ piece.last = piece.index + Len(sending[s]) - 1
  BY <1>2 DEF SendingInv
<1> HIDE DEF piece
<1>5. piece.of \in Senders \X (1 .. MaxMade) /\ piece.number \in 1 .. Numbers
      /\ piece.index \in Nat /\ piece.last \in Nat
  BY <1>3 DEF Pieces
<1>6. made[s] \in 1 .. MaxMade
  BY <1>4, <1>5
<1>7. Numbered(made[s], number[s])
  BY <1>6 DEF SendingInv
<1> QED
  BY <1>2, <1>3, <1>4, <1>5, <1>6, <1>7 DEF piece

LEMMA TailFacts ==
  ASSUME Typed, SendingInv, NEW s \in Senders, sending[s] # <<>>
  PROVE  /\ Tail(sending[s]) \in Seq(Pieces)
         /\ Len(Tail(sending[s])) = Len(sending[s]) - 1
         /\ \A i \in 1 .. Len(Tail(sending[s])) :
              Tail(sending[s])[i] = sending[s][i + 1] /\ i + 1 \in 1 .. Len(sending[s])
         /\ Tail(sending[s]) # <<>> =>
              Head(Tail(sending[s])).index = Head(sending[s]).index + 1
<1>1. sending[s] \in Seq(Pieces)
  BY DEF Typed
<1> DEFINE q == sending[s]
<1>2. q \in Seq(Pieces) /\ q # <<>>
  BY <1>1
<1>3. SUFFICES
         /\ Tail(q) \in Seq(Pieces) /\ Len(Tail(q)) = Len(q) - 1
         /\ \A i \in 1 .. Len(Tail(q)) : Tail(q)[i] = q[i + 1] /\ i + 1 \in 1 .. Len(q)
         /\ Tail(q) # <<>> => Head(Tail(q)).index = Head(q).index + 1
  OBVIOUS
<1>4. \A i \in 1 .. Len(q) : q[i].index = Head(q).index + i - 1
  BY DEF SendingInv
<1>5. Head(q).index \in Nat
  BY HeadFacts
<1> HIDE DEF q
<1>6. /\ Tail(q) \in Seq(Pieces) /\ Len(Tail(q)) = Len(q) - 1
      /\ \A i \in 1 .. Len(Tail(q)) : Tail(q)[i] = q[i + 1] /\ i + 1 \in 1 .. Len(q)
  BY <1>2
<1>7. ASSUME Tail(q) # <<>>
      PROVE  Head(Tail(q)).index = Head(q).index + 1
  <2>1. 1 \in 1 .. Len(Tail(q)) /\ Head(Tail(q)) = Tail(q)[1]
    BY <1>6, <1>7
  <2>2. Tail(q)[1] = q[1 + 1] /\ 1 + 1 \in 1 .. Len(q)
    BY <1>6, <2>1
  <2>3. q[1 + 1].index = Head(q).index + (1 + 1) - 1
    BY <1>4, <2>2
  <2> QED
    BY <2>1, <2>2, <2>3, <1>5
<1> QED
  BY <1>6, <1>7
-----------------------------------------------------------------------------
\* How a step ages what waits.

LEMMA BegunFacts ==
  ASSUME Typed, SendingInv, NEW s \in Senders
  PROVE  /\ made[s] \in Nat /\ Begun(s) \in Int /\ Begun(s) <= made[s]
         /\ made[s] <= Begun(s) + 1
         /\ sending[s] = <<>> => Begun(s) = made[s]
         /\ sending[s] # <<>> /\ Head(sending[s]).index # 0 => Begun(s) = made[s]
<1>1. made[s] \in Nat
  BY DEF Typed
<1> QED
  BY <1>1 DEF Begun

LEMMA TransmitsFacts ==
  ASSUME Typed, SendingInv, NEW sender \in Senders, Transmits(sender)
  PROVE  /\ now' = now + Frame /\ now' \in Nat /\ now' <= MaxTime /\ now' > now
         /\ now \in Nat
         /\ made' = made /\ number' = number
         /\ DOMAIN sending' = Senders
         /\ sending[sender] # <<>> /\ sending'[sender] = Tail(sending[sender])
         /\ \A s \in Senders \ {sender} : sending'[s] = sending[s]
<1>1. DOMAIN sending = Senders /\ now \in Nat /\ Frame \in Nat /\ Frame >= 1 /\ MaxTime \in Nat
  BY ConstantFacts DEF Typed
<1> QED
  BY <1>1 DEF Transmits

LEMMA TransmitsBegun ==
  ASSUME Typed, SendingInv, NEW sender \in Senders, Transmits(sender), NEW s \in Senders
  PROVE  /\ Begun(s)' \in Int /\ Begun(s) \in Int
         /\ Begun(s) <= Begun(s)' /\ Begun(s)' <= Begun(s) + 1
         /\ s = sender => Begun(s)' = made[s]
<1>1. /\ made' = made /\ sending'[sender] = Tail(sending[sender]) /\ sending[sender] # <<>>
      /\ \A r \in Senders \ {sender} : sending'[r] = sending[r]
  BY TransmitsFacts
<1>2. /\ made[s] \in Nat /\ Begun(s) \in Int /\ Begun(s) <= made[s] /\ made[s] <= Begun(s) + 1
  BY BegunFacts
<1>3. CASE s # sender
  <2>1. sending'[s] = sending[s]
    BY <1>1, <1>3
  <2>2. Begun(s)' = Begun(s)
    BY <1>1, <2>1 DEF Begun
  <2> QED
    BY <2>2, <1>2, <1>3
<1>4. CASE s = sender
  <2>1. sending'[s] # <<>> => Head(sending'[s]).index # 0
    <3>1. sending'[s] # <<>> => Head(sending'[s]).index = Head(sending[s]).index + 1
      BY <1>1, <1>4, TailFacts
    <3>2. Head(sending[s]).index \in Nat
      BY <1>1, <1>4, HeadFacts
    <3> QED
      BY <3>1, <3>2
  <2>2. Begun(s)' = made'[s]
    BY <2>1 DEF Begun
  <2> QED
    BY <2>2, <1>1, <1>2
<1> QED
  BY <1>3, <1>4

\* A frame later a sender may have begun one datagram more.
LEMMA AgedPiece ==
  ASSUME Typed, SendingInv, NEW sender \in Senders, Transmits(sender),
         NEW q \in Pieces, NEW first \in Nat, PieceInv(q, first)
  PROVE  /\ q.index <= q.last /\ Numbered(q.of[2], q.number)
         /\ q.of[2] <= Begun(q.of[1])'
         /\ first + Frame * (Begun(q.of[1])' - q.of[2]) <= now'
<1> DEFINE s == q.of[1]
           id == q.of[2]
           b == Begun(s)
           c == Begun(s)'
<1>1. s \in Senders /\ id \in Int
  BY DEF Pieces
<1>2. /\ q.index <= q.last /\ Numbered(id, q.number)
      /\ id <= b /\ first + Frame * (b - id) <= now
  BY DEF PieceInv
<1>3. b \in Int /\ c \in Int /\ b <= c /\ c <= b + 1
  BY <1>1, TransmitsBegun
<1>4. now' = now + Frame /\ now \in Nat
  BY TransmitsFacts
<1>5. Frame \in Nat
  BY ConstantFacts
<1> HIDE DEF s, id, b, c
<1>6. id <= c
  BY <1>1, <1>2, <1>3
<1>7. first + Frame * (c - id) <= now'
  <2> DEFINE d == b - id
             e == c - id
  <2>1. d \in Int /\ e \in Int /\ e <= d + 1
    BY <1>1, <1>3
  <2>2. first + Frame * d <= now
    BY <1>2
  <2> HIDE DEF d, e
  <2>3. Frame * e <= Frame * (d + 1) /\ Frame * (d + 1) = Frame * d + Frame
        /\ Frame * d \in Int /\ Frame * e \in Int
    BY <2>1, <1>5, TimesSpan, TimesStep
  <2>4. first + Frame * e <= now'
    BY <2>2, <2>3, <1>4, <1>5
  <2> QED
    BY <2>4 DEF e
<1> QED
  BY <1>2, <1>6, <1>7 DEF s, id, b, c

\* What is not given up on.
LEMMA ExpiredFacts ==
  ASSUME Typed, WaitingInv, NEW t \in Nat, t >= now
  PROVE  /\ Expired(waiting, t) \subseteq waiting
         /\ Expired(waiting, t) \subseteq Partials
         /\ IsFiniteSet(Expired(waiting, t))
         /\ Cardinality(Expired(waiting, t)) \in Nat
         /\ Cardinality(Expired(waiting, t)) <= Keep
         /\ \A p \in Expired(waiting, t) : p.first \in Nat /\ p.first <= now /\ t - p.first <= Timeout
<1> DEFINE live == Expired(waiting, t)
<1>1. live \subseteq waiting /\ \A p \in live : t - p.first <= Timeout
  BY DEF Expired
<1>2. waiting \subseteq Partials /\ IsFiniteSet(waiting) /\ Cardinality(waiting) <= Keep
  BY DEF WaitingInv
<1>3. IsFiniteSet(live) /\ Cardinality(live) <= Cardinality(waiting)
  BY <1>1, <1>2, FS_Subset
<1>4. Cardinality(live) \in Nat /\ Cardinality(waiting) \in Nat /\ Keep \in Nat
  BY <1>2, <1>3, FS_CardinalityType, ConstantFacts
<1>5. \A p \in live : p.first \in Nat /\ p.first <= now
  BY <1>1, <1>2 DEF WaitingInv, PartialInv, Partials
<1> HIDE DEF live
<1> QED
  BY <1>1, <1>2, <1>3, <1>4, <1>5 DEF live

\* What is left when room is made: one less than may wait.
LEMMA KeptFacts ==
  ASSUME NEW W, W \subseteq Partials, IsFiniteSet(W), Cardinality(W) <= Keep
  PROVE  /\ Kept(W) \subseteq W /\ IsFiniteSet(Kept(W)) /\ Cardinality(Kept(W)) <= Keep - 1
         /\ \/ Kept(W) = W
            \/ \E o \in W : /\ Kept(W) = W \ {o} /\ Cardinality(W) = Keep
                            /\ \A p \in W : o.first <= p.first
<1>1. Keep \in Nat /\ Keep >= 1 /\ Cardinality(W) \in Nat
  BY ConstantFacts, FS_CardinalityType
<1>2. CASE Cardinality(W) < Keep
  <2>1. Kept(W) = W
    BY <1>2 DEF Kept
  <2> QED
    BY <2>1, <1>1, <1>2
<1>3. CASE ~(Cardinality(W) < Keep)
  <2> DEFINE oldest == CHOOSE p \in W : \A q \in W : p.first <= q.first
             firsts == {p.first : p \in W}
  <2>1. Kept(W) = W \ {oldest}
    BY <1>3 DEF Kept
  <2>2. W # {}
    BY <1>1, <1>3, FS_EmptySet
  <2>3. firsts \subseteq Nat /\ firsts # {}
    BY <2>2 DEF Partials
  <2>4. PICK x \in firsts : \A y \in firsts : x <= y
    BY <2>3, LeastNatural
  <2>5. \E p \in W : \A q \in W : p.first <= q.first
    BY <2>4
  <2>6. oldest \in W /\ \A q \in W : oldest.first <= q.first
    BY <2>5
  <2> HIDE DEF oldest
  <2>7. IsFiniteSet(W \ {oldest}) /\ Cardinality(W \ {oldest}) = Cardinality(W) - 1
    BY <2>6, FS_RemoveElement
  <2>8. Cardinality(W) = Keep
    BY <1>1, <1>3
  <2> QED
    BY <2>1, <2>6, <2>7, <2>8, <1>1
<1> QED
  BY <1>2, <1>3
\* What a piece does to what waits: it goes to the datagram of its key, or begins
\* one, for which the oldest may have to go; a whole one is handed on.
Joins(piece, t, live, rest, old, pieces) ==
  /\ rest \subseteq live /\ IsFiniteSet(rest) /\ Cardinality(rest) <= Keep - 1
  /\ \A p \in rest : p.key # Key(piece)
  /\ old \in Partials /\ old.key = Key(piece)
  /\ \/ old \in live /\ rest = live \ {old}
     \/ /\ old = [key |-> Key(piece), first |-> t, pieces |-> {}]
        /\ \A p \in live : p.key # Key(piece)
        /\ \/ rest = live
           \/ \E o \in live : /\ rest = live \ {o} /\ Cardinality(live) = Keep
                              /\ \A p \in live : o.first <= p.first
  /\ \/ pieces = old.pieces /\ \E q \in old.pieces : q.index = piece.index
     \/ /\ pieces = old.pieces \cup {piece}
        /\ \A q \in old.pieces : q.index # piece.index
  /\ \/ Cardinality(pieces) = piece.last + 1 /\ waiting' = rest /\ joined' = pieces
     \/ /\ Cardinality(pieces) # piece.last + 1 /\ joined' = {}
        /\ waiting' = rest \cup {[old EXCEPT !.pieces = pieces]}

LEMMA AddFacts ==
  ASSUME Typed, WaitingInv, NEW t \in Nat, t >= now, NEW piece \in Pieces, Add(piece, t)
  PROVE  \E rest, old, pieces : Joins(piece, t, Expired(waiting, t), rest, old, pieces)
<1> DEFINE live == Expired(waiting, t)
           known == {p \in live : p.key = Key(piece)}
           rest == IF known = {} THEN Kept(live) ELSE live \ known
           fresh == [key |-> Key(piece), first |-> t, pieces |-> {}]
           old == IF known = {} THEN fresh ELSE CHOOSE p \in known : TRUE
           seen == \E q \in old.pieces : q.index = piece.index
           pieces == IF seen THEN old.pieces ELSE old.pieces \cup {piece}
<1>1. /\ live \subseteq waiting /\ live \subseteq Partials /\ IsFiniteSet(live)
      /\ Cardinality(live) \in Nat /\ Cardinality(live) <= Keep
  BY ExpiredFacts
<1>2. IF Cardinality(pieces) = piece.last + 1
      THEN waiting' = rest /\ joined' = pieces
      ELSE waiting' = rest \cup {[old EXCEPT !.pieces = pieces]} /\ joined' = {}
  BY DEF Add
<1>3. Key(piece) \in (1 .. Numbers) \X (0 .. MaxFragments - 1)
  BY DEF Key, Pieces
<1>4. fresh \in Partials /\ fresh.key = Key(piece)
  BY <1>3 DEF Partials
<1>5. \A p, q \in waiting : p.key = q.key => p = q
  BY DEF WaitingInv
<1> HIDE DEF live
<1>6. CASE known = {}
  <2>1. rest = Kept(live) /\ old = fresh
    BY <1>6
  <2>2. \A p \in live : p.key # Key(piece)
    BY <1>6
  <2>3. /\ rest \subseteq live /\ IsFiniteSet(rest) /\ Cardinality(rest) <= Keep - 1
        /\ \/ rest = live
           \/ \E o \in live : /\ rest = live \ {o} /\ Cardinality(live) = Keep
                              /\ \A p \in live : o.first <= p.first
    BY <2>1, <1>1, KeptFacts
  <2>4. \/ pieces = old.pieces /\ \E q \in old.pieces : q.index = piece.index
        \/ pieces = old.pieces \cup {piece} /\ \A q \in old.pieces : q.index # piece.index
    OBVIOUS
  <2> HIDE DEF rest, old, pieces, known
  <2>5. \/ Cardinality(pieces) = piece.last + 1 /\ waiting' = rest /\ joined' = pieces
        \/ /\ Cardinality(pieces) # piece.last + 1 /\ joined' = {}
           /\ waiting' = rest \cup {[old EXCEPT !.pieces = pieces]}
    BY <1>2
  <2>6. Joins(piece, t, live, rest, old, pieces)
    BY <2>1, <2>2, <2>3, <2>4, <2>5, <1>4 DEF Joins
  <2> QED
    BY <2>6 DEF live
<1>7. CASE known # {}
  <2>1. rest = live \ known /\ old = CHOOSE p \in known : TRUE
    BY <1>7
  <2>2. old \in known
    BY <2>1, <1>7
  <2>3. known = {old}
    <3>1. \A p \in known : p = old
      BY <2>2, <1>1, <1>5
    <3> QED
      BY <3>1, <2>2
  <2>4. old \in live /\ old.key = Key(piece)
    BY <2>2
  <2>5. rest = live \ {old}
    BY <2>1, <2>3
  <2>6. \/ pieces = old.pieces /\ \E q \in old.pieces : q.index = piece.index
        \/ pieces = old.pieces \cup {piece} /\ \A q \in old.pieces : q.index # piece.index
    OBVIOUS
  <2>7. \A p \in rest : p.key # Key(piece)
    BY <2>1
  <2> HIDE DEF rest, old, pieces, known
  <2>8. IsFiniteSet(rest) /\ Cardinality(rest) = Cardinality(live) - 1
    BY <2>4, <2>5, <1>1, FS_RemoveElement
  <2>9. Cardinality(rest) <= Keep - 1
    BY <2>8, <1>1, ConstantFacts
  <2>10. \/ Cardinality(pieces) = piece.last + 1 /\ waiting' = rest /\ joined' = pieces
         \/ /\ Cardinality(pieces) # piece.last + 1 /\ joined' = {}
            /\ waiting' = rest \cup {[old EXCEPT !.pieces = pieces]}
    BY <1>2
  <2>11. Joins(piece, t, live, rest, old, pieces)
    BY <2>4, <2>5, <2>6, <2>7, <2>8, <2>9, <2>10, <1>1 DEF Joins
  <2> QED
    BY <2>11 DEF live
<1> QED
  BY <1>6, <1>7

\* Pieces of a sender under a number are of its datagram that has it now.
OneRound(pieces, piece) == \A r \in pieces : r.of[1] = piece.of[1] => r.of = piece.of

\* The pieces of a datagram that a piece of the sender's current one joins.
LEMMA JoinedPieces ==
  ASSUME Typed, SendingInv, WaitingInv, NEW sender \in Senders, Transmits(sender),
         NEW piece, piece = Head(sending[sender]), NEW rest, NEW old, NEW pieces,
         Joins(piece, now + Frame, Expired(waiting, now + Frame), rest, old, pieces)
  PROVE  /\ pieces \subseteq Pieces /\ pieces # {} /\ IsFiniteSet(pieces) /\ Alone(pieces)
         /\ old.first \in Nat /\ old.first <= now' /\ now' - old.first <= Timeout
         /\ \A q \in pieces : Key(q) = old.key /\ PieceInv(q, old.first)'
         /\ OneRound(old.pieces, piece)
<1> DEFINE live == Expired(waiting, now + Frame)
<1>1. /\ sending[sender] # <<>> /\ now' = now + Frame /\ now \in Nat /\ now' \in Nat /\ now' > now
  BY TransmitsFacts
<1>2. /\ piece \in Pieces /\ piece.of = <<sender, made[sender]>>
      /\ piece.number = number[sender] /\ Numbered(made[sender], number[sender])
      /\ piece.index \in Nat /\ piece.index <= piece.last /\ made[sender] \in 1 .. MaxMade
      /\ number[sender] \in 1 .. Numbers
  <2>1. piece.index \in Nat /\ piece.last = piece.index + Len(sending[sender]) - 1
        /\ Len(sending[sender]) \in Nat /\ Len(sending[sender]) >= 1
    BY <1>1, HeadFacts
  <2>2. piece.index <= piece.last
    BY <2>1
  <2> QED
    BY <1>1, <2>1, <2>2, HeadFacts
<1>3. live \subseteq waiting /\ \A p \in live : now' - p.first <= Timeout /\ p.first <= now
  BY <1>1, ExpiredFacts
<1>4. Frame \in Nat /\ Frame >= 1 /\ Timeout \in Nat /\ Numbers \in Nat /\ Numbers * Frame > Timeout
  BY ConstantFacts
<1> HIDE DEF live
<1>5. /\ old \in Partials /\ old.key = Key(piece)
      /\ old \in live \/ old = [key |-> Key(piece), first |-> now + Frame, pieces |-> {}]
      /\ \/ pieces = old.pieces /\ \E q \in old.pieces : q.index = piece.index
         \/ /\ pieces = old.pieces \cup {piece}
            /\ \A q \in old.pieces : q.index # piece.index
  BY DEF Joins, live
<1>6. old.first \in Nat /\ old.first <= now' /\ now' - old.first <= Timeout
  <2>1. old.first \in Nat
    BY <1>5 DEF Partials
  <2>2. CASE old \in live
    BY <2>1, <2>2, <1>3, <1>1
  <2>3. CASE old = [key |-> Key(piece), first |-> now + Frame, pieces |-> {}]
    <3>1. old.first = now'
      BY <2>3, <1>1
    <3> QED
      BY <3>1, <1>1, <1>4
  <2> QED
    BY <2>1, <2>2, <2>3, <1>5
<1>7. /\ old.pieces \subseteq Pieces /\ IsFiniteSet(old.pieces) /\ Alone(old.pieces)
      /\ \A q \in old.pieces : Key(q) = old.key /\ PieceInv(q, old.first)
  <2>1. CASE old \in live
    BY <2>1, <1>3, <1>5 DEF WaitingInv, PartialInv, Partials
  <2>2. CASE old = [key |-> Key(piece), first |-> now + Frame, pieces |-> {}]
    <3>1. old.pieces = {}
      BY <2>2
    <3> QED
      BY <3>1, FS_EmptySet DEF Alone
  <2> QED
    BY <2>1, <2>2, <1>5
<1>8. \A q \in old.pieces : PieceInv(q, old.first)'
  <2> TAKE q \in old.pieces
  <2>1. q \in Pieces /\ PieceInv(q, old.first)
    BY <1>7
  <2>2. /\ q.index <= q.last /\ Numbered(q.of[2], q.number)
        /\ q.of[2] <= Begun(q.of[1])'
        /\ old.first + Frame * (Begun(q.of[1])' - q.of[2]) <= now'
    BY <2>1, <1>6, AgedPiece
  <2> QED
    BY <2>2 DEF PieceInv
<1>9. Begun(sender)' = made[sender]
  BY TransmitsBegun
<1>10. PieceInv(piece, old.first)'
  <2>1. piece.of[1] = sender /\ piece.of[2] = made[sender]
    BY <1>2
  <2>2. made[sender] - made[sender] = 0 /\ Frame * 0 = 0
    BY <1>2, <1>4
  <2>3. old.first + Frame * (made[sender] - made[sender]) <= now'
    BY <2>2, <1>6
  <2>4. made[sender] <= made[sender]
    BY <1>2
  <2> QED
    BY <2>1, <2>3, <2>4, <1>2, <1>9 DEF PieceInv
<1>11. ASSUME NEW r \in old.pieces, r.of[1] = sender
       PROVE  r.of = piece.of
  <2> DEFINE id == r.of[2]
             k == made[sender]
  <2>1. r \in Pieces /\ Key(r) = Key(piece)
    BY <1>7, <1>5
  <2>2. r.number = number[sender]
    BY <2>1, <1>2 DEF Key
  <2>3. id \in Int /\ r.of = <<sender, id>>
    BY <2>1, <1>11 DEF Pieces
  <2>4. id <= k /\ Numbered(id, number[sender]) /\ old.first + Frame * (k - id) <= now'
    BY <1>8, <1>9, <1>11, <2>2 DEF PieceInv
  <2>5. ~(id < k)
    <3>1. SUFFICES ASSUME id < k PROVE FALSE
      OBVIOUS
    <3>2. k \in Int /\ number[sender] \in Int
      BY <1>2
    <3> HIDE DEF id, k
    <3>3. k - id >= Numbers
      BY <3>1, <3>2, <2>3, <2>4, <1>2, RoundApart DEF k
    <3>4. Frame * Numbers <= Frame * (k - id) /\ Frame * Numbers = Numbers * Frame
          /\ Frame * (k - id) \in Int /\ Frame * Numbers \in Int
      <4>1. k - id \in Int /\ Numbers \in Int
        BY <3>2, <2>3, <1>4
      <4> QED
        BY <4>1, <3>3, <1>4, TimesSpan, TimesStep
    <3> QED
      BY <3>4, <2>4, <1>4, <1>6, <1>1
  <2>6. id = k
    BY <2>3, <2>4, <2>5, <1>2
  <2> QED
    BY <2>3, <2>6, <1>2
<1>12. OneRound(old.pieces, piece)
  <2>1. piece.of[1] = sender
    BY <1>2
  <2> QED
    BY <2>1, <1>11 DEF OneRound
<1>13. CASE pieces = old.pieces /\ \E q \in old.pieces : q.index = piece.index
  BY <1>13, <1>6, <1>7, <1>8, <1>12
<1>14. CASE pieces = old.pieces \cup {piece} /\ \A q \in old.pieces : q.index # piece.index
  <2>1. pieces \subseteq Pieces /\ pieces # {} /\ IsFiniteSet(pieces)
    BY <1>14, <1>7, <1>2, FS_AddElement
  <2>2. \A q \in pieces : Key(q) = old.key /\ PieceInv(q, old.first)'
    BY <1>14, <1>5, <1>7, <1>8, <1>10
  <2>3. Alone(pieces)
    <3>1. piece.of[1] = sender
      BY <1>2
    <3> QED
      BY <3>1, <1>14, <1>7, <1>11 DEF Alone
  <2> QED
    BY <2>1, <2>2, <2>3, <1>6, <1>12
<1> QED
  BY <1>5, <1>13, <1>14

\* As many images as elements, where no two have the same.
LEMMA ImageSize ==
  ASSUME NEW S, IsFiniteSet(S), NEW T, NEW f \in [S -> T], T = {f[x] : x \in S},
         \A x, y \in S : f[x] = f[y] => x = y
  PROVE  IsFiniteSet(T) /\ Cardinality(T) = Cardinality(S)
<1>1. f \in Injection(S, T)
  BY DEF Injection, IsInjective
<1>2. f \in Surjection(S, T)
  BY DEF Surjection
<1>3. ExistsBijection(S, T)
  BY <1>1, <1>2 DEF ExistsBijection, Bijection
<1> QED
  BY <1>3, FS_Bijection

-----------------------------------------------------------------------------
\* What waits, and what is handed on, after each step.

LEMMA AgedPartial ==
  ASSUME Typed, SendingInv, WaitingInv, NEW sender \in Senders, Transmits(sender),
         NEW p \in Expired(waiting, now + Frame)
  PROVE  PartialInv(p)'
<1>1. now' = now + Frame /\ now \in Nat /\ now' \in Nat /\ now' > now
  BY TransmitsFacts
<1>2. p \in waiting /\ p \in Partials /\ p.first \in Nat /\ p.first <= now
      /\ now' - p.first <= Timeout
  BY <1>1, ExpiredFacts
<1>3. /\ p.pieces \subseteq Pieces /\ p.pieces # {} /\ IsFiniteSet(p.pieces)
      /\ Alone(p.pieces)
      /\ \A q \in p.pieces : Key(q) = p.key /\ PieceInv(q, p.first)
  BY <1>2 DEF WaitingInv, PartialInv, Partials
<1>4. ASSUME NEW q \in p.pieces
      PROVE  PieceInv(q, p.first)'
  <2>1. q \in Pieces /\ PieceInv(q, p.first)
    BY <1>3
  <2>2. /\ q.index <= q.last /\ Numbered(q.of[2], q.number)
        /\ q.of[2] <= Begun(q.of[1])'
        /\ p.first + Frame * (Begun(q.of[1])' - q.of[2]) <= now'
    BY <2>1, <1>2, AgedPiece
  <2> QED
    BY <2>2 DEF PieceInv
<1>5. p.first <= now'
  BY <1>1, <1>2
<1> QED
  BY <1>2, <1>3, <1>4, <1>5 DEF PartialInv

LEMMA NoneHandedOn ==
  /\ joined = {} => joined \subseteq Pieces /\ JoinedIsOne
  /\ joined' = {} => joined' \subseteq Pieces /\ JoinedIsOne'
<1>1. Cardinality({}) = 0
  BY FS_EmptySet
<1>2. {p.index : p \in {}} = {} /\ 0 .. (Cardinality({}) - 1) = {}
  BY <1>1
<1>3. joined = {} => JoinedIsOne
  BY <1>2 DEF JoinedIsOne
<1>4. joined' = {} => JoinedIsOne'
  BY <1>2 DEF JoinedIsOne
<1> QED
  BY <1>3, <1>4

\* The last piece of a datagram means every index is there.
LEMMA WholeFacts ==
  ASSUME NEW pieces, pieces \subseteq Pieces, IsFiniteSet(pieces), Alone(pieces),
         NEW last \in Nat, Cardinality(pieces) = last + 1,
         \A q \in pieces : q.last = last /\ q.index <= last
  PROVE  {q.index : q \in pieces} = 0 .. last
<1> DEFINE T == {q.index : q \in pieces}
           f == [q \in pieces |-> q.index]
<1>1. T \subseteq 0 .. last
  BY DEF Pieces
<1>2. f \in [pieces -> T] /\ T = {f[x] : x \in pieces}
  OBVIOUS
<1>3. \A x, y \in pieces : f[x] = f[y] => x = y
  BY DEF Alone
<1> HIDE DEF f, T
<1>4. Cardinality(T) = last + 1
  BY <1>2, <1>3, ImageSize
<1>5. IsFiniteSet(0 .. last) /\ Cardinality(0 .. last) = last + 1
  BY FS_Interval
<1>6. T = 0 .. last
  BY <1>1, <1>4, <1>5, FS_Subset
<1> QED
  BY <1>6 DEF T

LEMMA HearWaiting ==
  ASSUME Typed, SendingInv, WaitingInv, NEW sender \in Senders, Transmits(sender),
         NEW piece, piece = Head(sending[sender]), NEW rest, NEW old, NEW pieces,
         Joins(piece, now + Frame, Expired(waiting, now + Frame), rest, old, pieces)
  PROVE  WaitingInv' /\ joined' \subseteq Pieces /\ JoinedIsOne'
<1> DEFINE live == Expired(waiting, now + Frame)
           new == [old EXCEPT !.pieces = pieces]
<1>1. /\ sending[sender] # <<>> /\ now' = now + Frame /\ now \in Nat /\ now' \in Nat /\ now' > now
  BY TransmitsFacts
<1>2. /\ live \subseteq waiting /\ live \subseteq Partials /\ IsFiniteSet(live)
      /\ \A p \in live : p.first <= now
  BY <1>1, ExpiredFacts
<1>3. \A p \in live : PartialInv(p)'
  BY AgedPartial
<1>4. \A p, q \in live : p.key = q.key \/ p.first = q.first => p = q
  BY <1>2 DEF WaitingInv
<1>5. /\ pieces \subseteq Pieces /\ pieces # {} /\ IsFiniteSet(pieces) /\ Alone(pieces)
      /\ old.first \in Nat /\ old.first <= now' /\ now' - old.first <= Timeout
      /\ \A q \in pieces : Key(q) = old.key /\ PieceInv(q, old.first)'
  BY JoinedPieces
<1> HIDE DEF live
<1>6. /\ rest \subseteq live /\ IsFiniteSet(rest) /\ Cardinality(rest) <= Keep - 1
      /\ \A p \in rest : p.key # Key(piece)
      /\ old \in Partials /\ old.key = Key(piece)
      /\ \/ old \in live /\ rest = live \ {old}
         \/ old = [key |-> Key(piece), first |-> now + Frame, pieces |-> {}]
      /\ \/ Cardinality(pieces) = piece.last + 1 /\ waiting' = rest /\ joined' = pieces
         \/ /\ Cardinality(pieces) # piece.last + 1 /\ joined' = {}
            /\ waiting' = rest \cup {new}
  BY DEF Joins, live
<1>7. /\ new \in Partials /\ new.key = old.key /\ new.first = old.first /\ new.pieces = pieces
  BY <1>5, <1>6 DEF Partials
<1>8. PartialInv(new)'
  <2>1. /\ old.first <= now' /\ now' - old.first <= Timeout
        /\ pieces # {} /\ IsFiniteSet(pieces) /\ Alone(pieces)
        /\ \A q \in pieces : Key(q) = old.key /\ PieceInv(q, old.first)'
    BY <1>5
  <2> HIDE DEF new
  <2>2. /\ new.first <= now' /\ now' - new.first <= Timeout
        /\ new.pieces # {} /\ IsFiniteSet(new.pieces) /\ Alone(new.pieces)
        /\ \A q \in new.pieces : Key(q) = new.key /\ PieceInv(q, new.first)'
    BY <2>1, <1>7
  <2> QED
    BY <2>2 DEF PartialInv
<1>9. \A p \in rest : p.key # new.key /\ p.first # new.first
  <2>1. \A p \in rest : p.key # new.key
    BY <1>6, <1>7
  <2>2. CASE old \in live /\ rest = live \ {old}
    BY <2>1, <2>2, <1>4, <1>7
  <2>3. CASE old = [key |-> Key(piece), first |-> now + Frame, pieces |-> {}]
    <3>1. old.first = now'
      BY <2>3, <1>1
    <3>2. \A p \in rest : p.first \in Nat /\ p.first <= now
      BY <1>2, <1>6 DEF Partials
    <3> HIDE DEF new
    <3> QED
      BY <3>1, <3>2, <2>1, <1>1, <1>7
  <2> QED
    BY <2>2, <2>3, <1>6
<1> HIDE DEF new
<1>10. Cardinality(rest) \in Nat /\ Keep \in Nat
  BY <1>6, FS_CardinalityType, ConstantFacts
<1>11. CASE Cardinality(pieces) = piece.last + 1 /\ waiting' = rest /\ joined' = pieces
  <2>1. /\ rest \subseteq Partials /\ Cardinality(rest) <= Keep
        /\ \A p \in rest : PartialInv(p)'
        /\ \A p, q \in rest : p.key = q.key \/ p.first = q.first => p = q
    BY <1>2, <1>3, <1>4, <1>6, <1>10
  <2>2. WaitingInv'
    BY <2>1, <1>6, <1>11 DEF WaitingInv
  <2>3. piece.last \in Nat
    BY <1>1, HeadFacts
  <2>4. \A q \in pieces : q.last = piece.last /\ q.index <= piece.last
    BY <1>5, <1>6 DEF Key, PieceInv
  <2>5. {q.index : q \in pieces} = 0 .. piece.last
    BY <2>3, <2>4, <1>5, <1>11, WholeFacts
  <2>6. Cardinality(pieces) - 1 = piece.last
    BY <2>3, <1>11
  <2>7. \A p, q \in pieces : p.of[1] = q.of[1] => p.of = q.of
    BY <1>5 DEF Alone
  <2>8. /\ {p.index : p \in pieces} = 0 .. (Cardinality(pieces) - 1)
        /\ \A p, q \in pieces : p.last = Cardinality(pieces) - 1
                                /\ (p.of[1] = q.of[1] => p.of = q.of)
    BY <2>4, <2>5, <2>6, <2>7
  <2>9. JoinedIsOne'
    BY <2>8, <1>11 DEF JoinedIsOne
  <2> QED
    BY <2>2, <2>9, <1>5, <1>11
<1>12. CASE /\ joined' = {}
            /\ waiting' = rest \cup {new}
  <2>1. IsFiniteSet(rest \cup {new}) /\ Cardinality(rest \cup {new}) <= Cardinality(rest) + 1
    <3>1. /\ IsFiniteSet(rest \cup {new})
          /\ Cardinality(rest \cup {new}) =
               IF new \in rest THEN Cardinality(rest) ELSE Cardinality(rest) + 1
      BY <1>6, FS_AddElement
    <3>2. CASE new \in rest
      BY <3>1, <3>2, <1>10
    <3>3. CASE new \notin rest
      BY <3>1, <3>3, <1>10
    <3> QED
      BY <3>1, <3>2, <3>3
  <2>2. Cardinality(rest \cup {new}) <= Keep
    <3>1. Cardinality(rest \cup {new}) \in Nat
      BY <2>1, FS_CardinalityType
    <3> QED
      BY <3>1, <2>1, <1>6, <1>10
  <2>3. /\ rest \cup {new} \subseteq Partials
        /\ \A p \in rest \cup {new} : PartialInv(p)'
    BY <1>2, <1>3, <1>6, <1>7, <1>8
  <2>4. \A p, q \in rest \cup {new} : p.key = q.key \/ p.first = q.first => p = q
    BY <1>4, <1>6, <1>9
  <2>5. WaitingInv'
    BY <2>1, <2>2, <2>3, <2>4, <1>12 DEF WaitingInv
  <2>6. joined' \subseteq Pieces /\ JoinedIsOne'
    BY <1>12, NoneHandedOn
  <2> QED
    BY <2>5, <2>6
<1> QED
  BY <1>6, <1>11, <1>12
\* What waits is given up on in time, whether a piece is lost or nothing is sent.
LEMMA AgedWaiting ==
  ASSUME Typed, SendingInv, WaitingInv, NEW t \in Nat, t >= now, waiting' = Expired(waiting, t),
         \A p \in Expired(waiting, t) : PartialInv(p)'
  PROVE  WaitingInv'
<1> DEFINE live == Expired(waiting, t)
<1>1. /\ live \subseteq waiting /\ live \subseteq Partials /\ IsFiniteSet(live)
      /\ Cardinality(live) <= Keep
  BY ExpiredFacts
<1>2. \A p, q \in live : p.key = q.key \/ p.first = q.first => p = q
  BY <1>1 DEF WaitingInv
<1> HIDE DEF live
<1>3. waiting' = live /\ \A p \in live : PartialInv(p)'
  BY DEF live
<1> QED
  BY <1>1, <1>2, <1>3 DEF WaitingInv

LEMMA LoseWaiting ==
  ASSUME Typed, SendingInv, WaitingInv, NEW sender \in Senders, Lose(sender)
  PROVE  WaitingInv'
<1>1. Transmits(sender) /\ waiting' = Expired(waiting, now + Frame)
  BY DEF Lose
<1>2. now + Frame \in Nat /\ now + Frame >= now
  BY <1>1, TransmitsFacts
<1>3. \A p \in Expired(waiting, now + Frame) : PartialInv(p)'
  BY <1>1, AgedPartial
<1> QED
  BY <1>1, <1>2, <1>3, AgedWaiting

\* Where nothing goes on the air and the same datagrams are begun, pieces stay
\* what they were.
LEMMA SamePartial ==
  ASSUME Typed, SendingInv, WaitingInv, NEW t \in Nat, t >= now, now' = t,
         \A s \in Senders : Begun(s)' = Begun(s), NEW p \in waiting, t - p.first <= Timeout
  PROVE  PartialInv(p)'
<1>1. p \in Partials /\ PartialInv(p) /\ now \in Nat
  BY DEF WaitingInv, Typed
<1>2. p.first \in Nat /\ p.first <= now /\ p.pieces \subseteq Pieces /\ p.pieces # {}
      /\ IsFiniteSet(p.pieces) /\ Alone(p.pieces) /\ \A q \in p.pieces : Key(q) = p.key /\ PieceInv(q, p.first)
  BY <1>1 DEF PartialInv, Partials
<1>3. ASSUME NEW q \in p.pieces
      PROVE  PieceInv(q, p.first)'
  <2> DEFINE s == q.of[1]
             id == q.of[2]
             span == Frame * (Begun(s) - id)
  <2>1. s \in Senders /\ id \in Int
    BY <1>2 DEF Pieces
  <2>2. /\ q.index <= q.last /\ id <= Begun(s) /\ Numbered(id, q.number)
        /\ p.first + span <= now
    BY <1>2 DEF PieceInv
  <2>3. Begun(s)' = Begun(s) /\ Begun(s) \in Int
    BY <2>1, BegunFacts
  <2>4. span \in Int
    BY <2>1, <2>3, ConstantFacts
  <2>5. p.first + span <= now'
    <3> HIDE DEF span
    <3> QED
      BY <2>2, <2>4, <1>1, <1>2
  <2> QED
    BY <2>2, <2>3, <2>5 DEF PieceInv
<1>4. p.first <= now'
  BY <1>1, <1>2
<1> QED
  BY <1>2, <1>3, <1>4 DEF PartialInv

LEMMA QuietWaiting ==
  ASSUME Typed, SendingInv, WaitingInv, Quiet
  PROVE  WaitingInv'
<1>1. now' = now + 1 /\ now + 1 \in Nat /\ now + 1 >= now /\ waiting' = Expired(waiting, now + 1)
      /\ sending' = sending /\ made' = made
  BY DEF Quiet, Typed
<1>2. \A s \in Senders : Begun(s)' = Begun(s)
  BY <1>1 DEF Begun
<1>3. \A p \in Expired(waiting, now + 1) : PartialInv(p)'
  BY <1>1, <1>2, SamePartial DEF Expired
<1> QED
  BY <1>1, <1>3, AgedWaiting

\* What is made is numbered next, and split as it fits.
LEMMA MakeFacts ==
  ASSUME Typed, SendingInv, NEW sender \in Senders, Make(sender)
  PROVE  /\ sending[sender] = <<>> /\ sending'[sender] # <<>> /\ DOMAIN sending' = Senders
         /\ sending'[sender] \in Seq(Pieces) /\ Head(sending'[sender]).index = 0
         /\ \A i \in 1 .. Len(sending'[sender]) :
              LET piece == sending'[sender][i]
              IN  /\ piece.of = <<sender, made'[sender]>> /\ piece.number = number'[sender]
                  /\ piece.index = i - 1 /\ piece.last = Len(sending'[sender]) - 1
                  /\ piece.bytes = Full \/ piece.bytes <= Full - Partial
         /\ made'[sender] = made[sender] + 1 /\ number'[sender] = NextNumber(number[sender])
         /\ made' \in [Senders -> 0 .. MaxMade] /\ number' \in [Senders -> 0 .. Numbers]
         /\ Numbered(made'[sender], number'[sender])
         /\ \A s \in Senders \ {sender} :
              sending'[s] = sending[s] /\ made'[s] = made[s] /\ number'[s] = number[s]
<1> DEFINE id == made[sender] + 1
           n == NextNumber(number[sender])
<1>1. made[sender] \in Nat /\ number[sender] \in Nat /\ number[sender] <= Numbers
      /\ made[sender] < MaxMade /\ MaxMade \in Nat /\ Numbers \in Nat /\ Numbers >= 1
  BY ConstantFacts DEF Typed, Make
<1>2. id \in 1 .. MaxMade
  BY <1>1
<1>3. n \in 1 .. Numbers
  BY <1>1 DEF NextNumber
<1>4. Numbered(id, n)
  BY <1>1, NextNumbered DEF SendingInv
<1>5. PICK length \in Lengths :
        /\ Len(Split(length)) <= MaxFragments
        /\ sending' = [sending EXCEPT ![sender] = Fragments(sender, id, n, Split(length))]
  BY DEF Make
<1> DEFINE lengths == Split(length)
           all == Fragments(sender, id, n, lengths)
<1>6. length \in Nat \ {0}
  BY SizeAssumption
<1>7. /\ lengths \in Seq(1 .. Full) /\ lengths # <<>>
      /\ \A i \in 1 .. Len(lengths) : lengths[i] = Full \/ lengths[i] <= Full - Partial
  BY <1>6, SplitFacts
<1>8. /\ DOMAIN sending = Senders /\ made \in [Senders -> 0 .. MaxMade]
      /\ number \in [Senders -> 0 .. Numbers]
  BY DEF Typed
<1>9. /\ sending'[sender] = all /\ DOMAIN sending' = Senders
      /\ \A s \in Senders \ {sender} : sending'[s] = sending[s]
  BY <1>5, <1>8
<1> HIDE DEF lengths, id, n
<1>10. /\ all \in Seq(Pieces) /\ all # <<>> /\ Len(all) = Len(lengths)
       /\ Head(all).index = 0
       /\ \A i \in 1 .. Len(all) :
            /\ all[i].of = <<sender, id>> /\ all[i].number = n
            /\ all[i].index = i - 1 /\ all[i].last = Len(all) - 1
            /\ all[i].bytes = lengths[i]
  BY <1>2, <1>3, <1>5, <1>7, FragmentsFacts DEF lengths
<1> HIDE DEF all
<1>11. /\ sending[sender] = <<>>
       /\ made' = [made EXCEPT ![sender] = @ + 1]
       /\ number' = [number EXCEPT ![sender] = NextNumber(@)]
  BY DEF Make
<1>12. /\ made'[sender] = id /\ number'[sender] = n
       /\ made' \in [Senders -> 0 .. MaxMade] /\ number' \in [Senders -> 0 .. Numbers]
       /\ \A s \in Senders \ {sender} : made'[s] = made[s] /\ number'[s] = number[s]
  BY <1>2, <1>3, <1>8, <1>11 DEF id, n
<1>13. made'[sender] = made[sender] + 1 /\ number'[sender] = NextNumber(number[sender])
  BY <1>12 DEF id, n
<1>14. \A i \in 1 .. Len(all) : all[i].bytes = Full \/ all[i].bytes <= Full - Partial
  BY <1>7, <1>10
<1> QED
  BY <1>4, <1>9, <1>10, <1>11, <1>12, <1>13, <1>14

LEMMA MakeBegun ==
  ASSUME Typed, SendingInv, NEW sender \in Senders, Make(sender), NEW s \in Senders
  PROVE  Begun(s)' = Begun(s)
<1>1. CASE s # sender
  <2>1. sending'[s] = sending[s] /\ made'[s] = made[s]
    BY <1>1, MakeFacts
  <2> QED
    BY <2>1 DEF Begun
<1>2. CASE s = sender
  <2>1. /\ sending'[s] # <<>> /\ Head(sending'[s]).index = 0 /\ made'[s] = made[s] + 1
        /\ sending[s] = <<>>
    BY <1>2, MakeFacts
  <2>2. Begun(s)' = made'[s] - 1 /\ Begun(s) = made[s] /\ made[s] \in Nat
    BY <2>1 DEF Begun, Typed
  <2> QED
    BY <2>1, <2>2
<1> QED
  BY <1>1, <1>2

LEMMA MakeWaiting ==
  ASSUME Typed, SendingInv, WaitingInv, NEW sender \in Senders, Make(sender)
  PROVE  WaitingInv'
<1>1. now' = now /\ now \in Nat /\ waiting' = waiting /\ waiting \subseteq Partials
  BY DEF Make, Typed, WaitingInv
<1>2. \A s \in Senders : Begun(s)' = Begun(s)
  BY MakeBegun
<1>3. \A p \in waiting : now - p.first <= Timeout
  BY DEF WaitingInv, PartialInv
<1>4. now >= now
  BY <1>1
<1>5. \A p \in waiting : PartialInv(p)'
  BY <1>1, <1>2, <1>3, <1>4, SamePartial
<1> QED
  BY <1>1, <1>5 DEF WaitingInv
-----------------------------------------------------------------------------
\* What is left to send, after each step.

LEMMA TransmitsSending ==
  ASSUME Typed, SendingInv, PiecesFit, NEW sender \in Senders, Transmits(sender)
  PROVE  Typed' /\ SendingInv' /\ PiecesFit'
<1>1. /\ now' \in Nat /\ now' <= MaxTime /\ made' = made /\ number' = number
      /\ DOMAIN sending' = Senders
      /\ sending[sender] # <<>> /\ sending'[sender] = Tail(sending[sender])
      /\ \A s \in Senders \ {sender} : sending'[s] = sending[s]
  BY TransmitsFacts
<1> DEFINE q == sending[sender]
           r == Tail(q)
<1>2. /\ r \in Seq(Pieces) /\ Len(r) = Len(q) - 1
      /\ \A i \in 1 .. Len(r) : r[i] = q[i + 1] /\ i + 1 \in 1 .. Len(q)
      /\ r # <<>> => Head(r).index = Head(q).index + 1
  BY <1>1, TailFacts
<1>3. q \in Seq(Pieces) /\ Len(q) \in Nat /\ Head(q).index \in Nat
  BY <1>1, HeadFacts DEF Typed
<1>4. Typed'
  <2>1. \A s \in Senders : sending'[s] \in Seq(Pieces)
    BY <1>1, <1>2 DEF Typed
  <2>2. now' \in 0 .. MaxTime
    BY <1>1, ConstantFacts
  <2> QED
    BY <1>1, <2>1, <2>2 DEF Typed
<1>5. \A i \in 1 .. Len(q) :
        /\ q[i].of = <<sender, made[sender]>> /\ q[i].number = number[sender]
        /\ q[i].index = Head(q).index + i - 1 /\ q[i].last = Head(q).index + Len(q) - 1
        /\ q[i].bytes = Full \/ q[i].bytes <= Full - Partial
  <2>1. DOMAIN q = 1 .. Len(q)
    BY <1>3
  <2> QED
    BY <2>1 DEF SendingInv, PiecesFit
<1> HIDE DEF q, r
<1>6. \A i \in 1 .. Len(r) :
        /\ r[i].of = <<sender, made[sender]>> /\ r[i].number = number[sender]
        /\ r[i].index = Head(r).index + i - 1 /\ r[i].last = Head(r).index + Len(r) - 1
        /\ r[i].bytes = Full \/ r[i].bytes <= Full - Partial
  <2> TAKE i \in 1 .. Len(r)
  <2>1. r[i] = q[i + 1] /\ i + 1 \in 1 .. Len(q) /\ r # <<>>
    BY <1>2
  <2>2. Head(r).index = Head(q).index + 1
    BY <1>2, <2>1
  <2>3. /\ r[i].of = <<sender, made[sender]>> /\ r[i].number = number[sender]
        /\ r[i].index = Head(q).index + (i + 1) - 1
        /\ r[i].last = Head(q).index + Len(q) - 1
        /\ r[i].bytes = Full \/ r[i].bytes <= Full - Partial
    BY <1>5, <2>1
  <2> QED
    BY <2>2, <2>3, <1>2, <1>3
<1>7. sending'[sender] = r
  BY <1>1 DEF q, r
<1>8. SendingInv'
  <2> SUFFICES ASSUME NEW s \in Senders
               PROVE  /\ \/ made'[s] = 0 /\ number'[s] = 0
                         \/ Numbered(made'[s], number'[s])
                      /\ \A i \in 1 .. Len(sending'[s]) :
                           LET piece == sending'[s][i]
                           IN  /\ piece.of = <<s, made'[s]>> /\ piece.number = number'[s]
                               /\ piece.index = Head(sending'[s]).index + i - 1
                               /\ piece.last = Head(sending'[s]).index + Len(sending'[s]) - 1
    BY DEF SendingInv, Numbered
  <2>1. \/ made'[s] = 0 /\ number'[s] = 0
        \/ Numbered(made'[s], number'[s])
    BY <1>1 DEF SendingInv
  <2>2. CASE s # sender
    <3>1. sending'[s] = sending[s] /\ made'[s] = made[s] /\ number'[s] = number[s]
      BY <1>1, <2>2
    <3> QED
      BY <2>1, <3>1 DEF SendingInv
  <2>3. CASE s = sender
    BY <1>1, <1>6, <1>7, <2>1, <2>3
  <2> QED
    BY <2>2, <2>3
<1>9. PiecesFit'
  <2>1. DOMAIN r = 1 .. Len(r)
    BY <1>2
  <2> QED
    BY <1>1, <1>6, <1>7, <2>1 DEF PiecesFit
<1> QED
  BY <1>4, <1>8, <1>9

LEMMA MakeSending ==
  ASSUME Typed, SendingInv, PiecesFit, NEW sender \in Senders, Make(sender)
  PROVE  Typed' /\ SendingInv' /\ PiecesFit'
<1> DEFINE all == sending'[sender]
<1>1. /\ all # <<>> /\ DOMAIN sending' = Senders
      /\ all \in Seq(Pieces) /\ Head(all).index = 0
      /\ \A i \in 1 .. Len(all) :
           /\ all[i].of = <<sender, made'[sender]>> /\ all[i].number = number'[sender]
           /\ all[i].index = i - 1 /\ all[i].last = Len(all) - 1
           /\ all[i].bytes = Full \/ all[i].bytes <= Full - Partial
      /\ made' \in [Senders -> 0 .. MaxMade] /\ number' \in [Senders -> 0 .. Numbers]
      /\ Numbered(made'[sender], number'[sender])
      /\ \A s \in Senders \ {sender} :
           sending'[s] = sending[s] /\ made'[s] = made[s] /\ number'[s] = number[s]
  BY MakeFacts
<1>2. now' = now
  BY DEF Make
<1>3. Typed'
  BY <1>1, <1>2 DEF Typed
<1>4. SendingInv'
  <2> SUFFICES ASSUME NEW s \in Senders
               PROVE  /\ \/ made'[s] = 0 /\ number'[s] = 0
                         \/ Numbered(made'[s], number'[s])
                      /\ \A i \in 1 .. Len(sending'[s]) :
                           LET piece == sending'[s][i]
                           IN  /\ piece.of = <<s, made'[s]>> /\ piece.number = number'[s]
                               /\ piece.index = Head(sending'[s]).index + i - 1
                               /\ piece.last = Head(sending'[s]).index + Len(sending'[s]) - 1
    BY DEF SendingInv, Numbered
  <2>1. CASE s # sender
    <3>1. sending'[s] = sending[s] /\ made'[s] = made[s] /\ number'[s] = number[s]
      BY <1>1, <2>1
    <3> QED
      BY <3>1 DEF SendingInv
  <2>2. CASE s = sender
    <3>1. Len(all) \in Nat
      BY <1>1
    <3> HIDE DEF all
    <3>2. \A i \in 1 .. Len(all) :
            /\ all[i].index = Head(all).index + i - 1
            /\ all[i].last = Head(all).index + Len(all) - 1
      BY <1>1, <3>1
    <3> QED
      BY <1>1, <2>2, <3>2 DEF all
  <2> QED
    BY <2>1, <2>2
<1>5. PiecesFit'
  <2>1. DOMAIN all = 1 .. Len(all)
    BY <1>1
  <2> QED
    BY <1>1, <2>1, SMTT(30) DEF PiecesFit
<1> QED
  BY <1>3, <1>4, <1>5

-----------------------------------------------------------------------------
\* All of it but the history.

Base == Typed /\ SendingInv /\ PiecesFit /\ WaitingInv /\ joined \subseteq Pieces /\ JoinedIsOne

LEMMA BaseInit ==
  ASSUME Init
  PROVE  Base
<1>1. Typed /\ SendingInv /\ PiecesFit
  BY ConstantFacts DEF Init, Typed, SendingInv, PiecesFit
<1>2. WaitingInv
  BY FS_EmptySet, ConstantFacts DEF Init, WaitingInv
<1> QED
  BY <1>1, <1>2, NoneHandedOn DEF Init, Base

LEMMA HearBase ==
  ASSUME Base, NEW sender \in Senders, Hear(sender)
  PROVE  Base'
<1>1. PICK piece : piece = Head(sending[sender])
  OBVIOUS
<1>2. Transmits(sender) /\ Add(piece, now + Frame)
  BY <1>1 DEF Hear
<1>3. Typed /\ SendingInv /\ PiecesFit /\ WaitingInv
  BY DEF Base
<1>4. now + Frame \in Nat /\ now + Frame >= now /\ piece \in Pieces
  BY <1>1, <1>2, <1>3, TransmitsFacts, HeadFacts
<1>5. PICK rest, old, pieces :
        Joins(piece, now + Frame, Expired(waiting, now + Frame), rest, old, pieces)
  BY <1>2, <1>3, <1>4, AddFacts
<1>6. WaitingInv' /\ joined' \subseteq Pieces /\ JoinedIsOne'
  BY <1>1, <1>2, <1>3, <1>5, HearWaiting
<1>7. Typed' /\ SendingInv' /\ PiecesFit'
  BY <1>2, <1>3, TransmitsSending
<1> QED
  BY <1>6, <1>7 DEF Base

LEMMA BaseNext ==
  ASSUME Base, [Next]_vars
  PROVE  Base'
<1>1. Typed /\ SendingInv /\ PiecesFit /\ WaitingInv
  BY DEF Base
<1>2. ASSUME NEW sender \in Senders, Make(sender)
      PROVE  Base'
  <2>1. joined' = {}
    BY <1>2 DEF Make
  <2> QED
    BY <1>1, <1>2, <2>1, MakeSending, MakeWaiting, NoneHandedOn DEF Base
<1>3. ASSUME NEW sender \in Senders, Hear(sender)
      PROVE  Base'
  BY <1>3, HearBase
<1>4. ASSUME NEW sender \in Senders, Lose(sender)
      PROVE  Base'
  <2>1. joined' = {} /\ Transmits(sender)
    BY <1>4 DEF Lose
  <2> QED
    BY <1>1, <1>4, <2>1, TransmitsSending, LoseWaiting, NoneHandedOn DEF Base
<1>5. CASE Quiet
  <2>1. joined' = {} /\ sending' = sending /\ made' = made /\ number' = number
        /\ now' = now + 1 /\ now < MaxTime
    BY <1>5 DEF Quiet
  <2>2. Typed'
    <3>1. now' \in 0 .. MaxTime
      BY <1>1, <2>1, ConstantFacts DEF Typed
    <3> QED
      BY <1>1, <2>1, <3>1 DEF Typed
  <2>3. SendingInv' /\ PiecesFit'
    BY <1>1, <2>1 DEF SendingInv, PiecesFit
  <2> QED
    BY <1>1, <1>5, <2>1, <2>2, <2>3, QuietWaiting, NoneHandedOn DEF Base
<1>6. CASE UNCHANGED vars
  <2>1. UNCHANGED <<now, made, number, sending, waiting, joined>>
    BY <1>6 DEF vars
  <2>2. Typed' /\ SendingInv' /\ PiecesFit'
    BY <1>1, <2>1 DEF Typed, SendingInv, PiecesFit
  <2>3. WaitingInv'
    BY <1>1, <2>1 DEF WaitingInv, PartialInv, PieceInv, Begun
  <2>4. joined' \subseteq Pieces /\ JoinedIsOne'
    BY <2>1 DEF Base, JoinedIsOne
  <2> QED
    BY <2>2, <2>3, <2>4 DEF Base
<1> QED
  BY <1>2, <1>3, <1>4, <1>5, <1>6 DEF Next

LEMMA BaseInvariant == Spec => []Base
<1>1. Init => Base
  BY BaseInit
<1>2. Base /\ [Next]_vars => Base'
  BY BaseNext
<1> QED
  BY <1>1, <1>2, PTL DEF Spec

LEMMA BaseTypeOK ==
  ASSUME Base
  PROVE  TypeOK
<1>1. Typed /\ WaitingInv /\ joined \subseteq Pieces
  BY DEF Base
<1>2. \A p \in waiting : /\ p.pieces \subseteq Pieces /\ now - p.first <= Timeout
                         /\ \A q \in waiting : p.key = q.key => p = q
  BY <1>1 DEF WaitingInv, PartialInv, Partials
<1> QED
  BY <1>1, <1>2 DEF TypeOK, Typed, WaitingInv

(* The receiver keeps no more incomplete datagrams than it may, one for a  *)
(* number and a last piece, none older than it waits for.                  *)
THEOREM DatagramsTypeCorrect == Spec => []TypeOK
<1>1. Base => TypeOK
  BY BaseTypeOK
<1> QED
  BY <1>1, BaseInvariant, PTL

(* Whatever the length of a datagram and the frame it is sent in, every    *)
(* piece is a full frame or leaves room for its length.                    *)
THEOREM PiecesFitHolds == Spec => []PiecesFit
<1>1. Base => PiecesFit
  BY DEF Base
<1> QED
  BY <1>1, BaseInvariant, PTL

(* What is handed on is whole, and of each sender pieces of one datagram:  *)
(* by the time a number comes round the receiver gave up on the last that  *)
(* had it.                                                                 *)
THEOREM JoinedIsOneHolds == Spec => []JoinedIsOne
<1>1. Base => JoinedIsOne
  BY DEF Base
<1> QED
  BY <1>1, BaseInvariant, PTL
-----------------------------------------------------------------------------
\* What the history is told.

LEMMA ToldFacts ==
  ASSUME story \in [Senders -> Heard], NEW piece \in Pieces, NEW t \in Nat,
         story' = Told(piece, t)
  PROVE  LET sender == piece.of[1]
             old == story[sender]
             first == IF old.heard = {} THEN t ELSE old.first
             live == Expired(waiting, t)
         IN  /\ story' \in [Senders -> Heard]
             /\ story'[sender].heard = old.heard \cup {piece.index}
             /\ story'[sender].first = first /\ story'[sender].begun = old.begun
             /\ ~story'[sender].late => t - first <= Timeout
             /\ ~story'[sender].met =>
                  /\ ~old.met
                  /\ \A p \in live : p.key = Key(piece) => \A q \in p.pieces : q.of[1] = sender
             /\ \A s \in Senders \ {sender} :
                  /\ story'[s].heard = story[s].heard /\ story'[s].first = story[s].first
                  /\ story'[s].begun = IF (\A p \in live : p.key # Key(piece))
                                          /\ story[s].heard # {}
                                       THEN story[s].begun + 1 ELSE story[s].begun
                  /\ ~story'[s].met =>
                       ~story[s].met /\ (story[s].heard # {} => number[s] # piece.number)
<1> DEFINE sender == piece.of[1]
           old == story[sender]
           first == IF old.heard = {} THEN t ELSE old.first
           live == Expired(waiting, t)
           others == {p \in live : p.key = Key(piece) /\ \E q \in p.pieces : q.of[1] # sender}
           begins == \A p \in live : p.key # Key(piece)
           late == t - first > Timeout
           met == old.met \/ others # {}
           mine == [heard |-> old.heard \cup {piece.index}, first |-> first,
                    late |-> late, begun |-> old.begun, met |-> met]
           begun(s) == IF begins /\ story[s].heard # {} THEN story[s].begun + 1
                       ELSE story[s].begun
           crossed(s) == story[s].met \/ (story[s].heard # {} /\ number[s] = piece.number)
           theirs(s) == [story[s] EXCEPT !.begun = begun(s), !.met = crossed(s)]
<1>1. story' = [s \in Senders |-> IF s = sender THEN mine ELSE theirs(s)]
  BY DEF Told
<1>2. sender \in Senders /\ piece.index \in 0 .. MaxFragments - 1
  BY DEF Pieces
<1>3. old \in Heard /\ old.heard \in SUBSET (0 .. MaxFragments - 1) /\ old.first \in Nat
      /\ old.begun \in Nat
  BY <1>2 DEF Heard
<1>4. first \in Nat /\ late \in BOOLEAN /\ met \in BOOLEAN
  BY <1>3
<1>5. ~late => t - first <= Timeout
  BY <1>4, ConstantFacts
<1>6. ~met => ~old.met /\ others = {}
  OBVIOUS
<1>7. others = {} => \A p \in live : p.key = Key(piece) => \A q \in p.pieces : q.of[1] = sender
  OBVIOUS
<1>8. old.heard \cup {piece.index} \in SUBSET (0 .. MaxFragments - 1)
  BY <1>2, <1>3
<1> HIDE DEF sender, old, first, live, others, late, met, begins
<1>9. /\ mine \in Heard /\ mine.heard = old.heard \cup {piece.index} /\ mine.first = first
      /\ mine.late = late /\ mine.begun = old.begun /\ mine.met = met
  BY <1>3, <1>4, <1>8 DEF Heard
<1>10. ASSUME NEW s \in Senders
       PROVE  /\ theirs(s) \in Heard /\ theirs(s).heard = story[s].heard
              /\ theirs(s).first = story[s].first /\ theirs(s).begun = begun(s)
              /\ theirs(s).met = crossed(s)
              /\ ~crossed(s) => ~story[s].met /\ (story[s].heard # {} => number[s] # piece.number)
  <2>1. story[s] \in Heard
    OBVIOUS
  <2>2. begun(s) \in Nat
    BY <2>1 DEF Heard
  <2>3. crossed(s) \in BOOLEAN
    BY <2>1 DEF Heard
  <2>4. ~crossed(s) => ~story[s].met /\ (story[s].heard # {} => number[s] # piece.number)
    OBVIOUS
  <2> HIDE DEF begun, crossed
  <2>5. /\ theirs(s) \in Heard /\ theirs(s).heard = story[s].heard
        /\ theirs(s).first = story[s].first /\ theirs(s).begun = begun(s)
        /\ theirs(s).met = crossed(s)
    BY <2>1, <2>2, <2>3 DEF Heard
  <2> QED
    BY <2>4, <2>5
<1> HIDE DEF mine, theirs
<1>11. story' \in [Senders -> Heard] /\ story'[sender] = mine
       /\ \A s \in Senders \ {sender} : story'[s] = theirs(s)
  BY <1>1, <1>2, <1>9, <1>10
<1> HIDE DEF begun, crossed
<1>12. \A s \in Senders \ {sender} :
         /\ story'[s].heard = story[s].heard /\ story'[s].first = story[s].first
         /\ story'[s].begun = begun(s)
         /\ ~story'[s].met =>
              ~story[s].met /\ (story[s].heard # {} => number[s] # piece.number)
  <2> TAKE s \in Senders \ {sender}
  <2>1. story'[s] = theirs(s)
    BY <1>11
  <2>2. story'[s].met = crossed(s)
    BY <2>1, <1>10
  <2>3. ~story'[s].met => ~crossed(s)
    BY <2>2, Zenon
  <2> QED
    BY <2>1, <2>3, <1>10
<1>13. /\ story'[sender].heard = old.heard \cup {piece.index}
       /\ story'[sender].first = first /\ story'[sender].begun = old.begun
  BY <1>9, <1>11
<1>14. story'[sender].late = late /\ story'[sender].met = met
  BY <1>9, <1>11
<1>15. (~story'[sender].late => ~late) /\ (~story'[sender].met => ~met)
  BY <1>14, Zenon
<1>16. ~story'[sender].late => t - first <= Timeout
  BY <1>5, <1>15
<1>17. ~story'[sender].met =>
         /\ ~old.met
         /\ \A p \in live : p.key = Key(piece) => \A q \in p.pieces : q.of[1] = sender
  BY <1>6, <1>7, <1>15
<1> QED
  BY <1>11, <1>12, <1>13, <1>16, <1>17 DEF sender, old, first, live, begins, begun

\* Datagrams begun at times of their own are as many as the times.
LEMMA FirstsFacts ==
  ASSUME NEW W, IsFiniteSet(W), \A p, q \in W : p.first = q.first => p = q
  PROVE  /\ IsFiniteSet({p.first : p \in W})
         /\ Cardinality({p.first : p \in W}) = Cardinality(W)
<1> DEFINE T == {p.first : p \in W}
           f == [p \in W |-> p.first]
<1>1. f \in [W -> T] /\ T = {f[x] : x \in W}
  OBVIOUS
<1>2. \A x, y \in W : f[x] = f[y] => x = y
  OBVIOUS
<1> HIDE DEF f, T
<1>3. IsFiniteSet(T) /\ Cardinality(T) = Cardinality(W)
  BY <1>1, <1>2, ImageSize
<1> QED
  BY <1>3 DEF T

LEMMA LaterFacts ==
  ASSUME WaitingInv, NEW first
  PROVE  IsFiniteSet(Later(waiting, first)) /\ Cardinality(Later(waiting, first)) \in Nat
<1>1. IsFiniteSet({p.first : p \in waiting})
  BY FirstsFacts DEF WaitingInv
<1>2. Later(waiting, first) \subseteq {p.first : p \in waiting}
  BY DEF Later
<1>3. IsFiniteSet(Later(waiting, first))
  BY <1>1, <1>2, FS_Subset
<1> QED
  BY <1>3, FS_CardinalityType
-----------------------------------------------------------------------------
\* What the history says stays true.

LEMMA FewerLater ==
  ASSUME WaitingInv, NEW W, NEW first, Later(W, first) \subseteq Later(waiting, first)
  PROVE  /\ IsFiniteSet(Later(W, first)) /\ Cardinality(Later(W, first)) \in Nat
         /\ Cardinality(Later(W, first)) <= Cardinality(Later(waiting, first))
<1>1. IsFiniteSet(Later(waiting, first))
  BY LaterFacts
<1>2. IsFiniteSet(Later(W, first)) /\ Cardinality(Later(W, first)) <= Cardinality(Later(waiting, first))
  BY <1>1, FS_Subset
<1> QED
  BY <1>2, FS_CardinalityType

LEMMA StoryTypes ==
  ASSUME StoryInv, NEW s \in Senders
  PROVE  /\ story[s].heard \subseteq 0 .. MaxFragments - 1 /\ story[s].heard \subseteq Int
         /\ story[s].first \in Nat /\ story[s].begun \in Nat
BY DEF StoryInv, Heard

\* Where time passes, what still is in time is followed as before.
LEMMA AgedStory ==
  ASSUME Base, StoryInv, NEW t \in Nat, t >= now, now' = t,
         waiting' = Expired(waiting, t), made' = made, story' = story,
         NEW s \in Senders,
         sending'[s] # <<>> =>
           /\ sending[s] # <<>> /\ Key(Head(sending'[s])) = Key(Head(sending[s]))
           /\ Head(sending'[s]).index >= Head(sending[s]).index
           /\ Head(sending'[s]).index \in Int /\ Head(sending[s]).index \in Int
  PROVE  StoryOf(s)'
<1>1. /\ Typed /\ WaitingInv /\ now \in Nat
  BY DEF Base, Typed
<1>2. waiting' \subseteq waiting
  BY DEF Expired
<1>3. StoryOf(s)
  BY DEF StoryInv
<1>4. /\ story[s].heard \subseteq Int /\ story[s].first \in Nat /\ story[s].begun \in Nat
  BY StoryTypes
<1>5. story'[s].heard # {} => story'[s].first <= now'
  BY <1>1, <1>3, <1>4 DEF StoryOf
<1>6. \A p \in waiting' : \A q \in p.pieces :
        q.of = <<s, made'[s]>> => q.index \in story'[s].heard
  BY <1>2, <1>3 DEF StoryOf
<1>7. ASSUME sending'[s] # <<>>
      PROVE  \A i \in story'[s].heard : i < Head(sending'[s]).index
  BY <1>3, <1>4, <1>7 DEF StoryOf
<1>8. ASSUME sending'[s] # <<>>, story'[s].heard # {}, now' - story'[s].first <= Timeout,
             ~story'[s].met, story'[s].begun < Keep
      PROVE  Followed(s)'
  <2>1. story[s].heard # {} /\ ~story[s].met /\ story[s].begun < Keep
        /\ now' - story[s].first <= Timeout
    BY <1>8
  <2>2. now - story[s].first <= Timeout
    BY <2>1, <1>1, <1>4, ConstantFacts
  <2>3. sending[s] # <<>> /\ Key(Head(sending'[s])) = Key(Head(sending[s]))
    BY <1>8
  <2>4. Followed(s)
    BY <1>3, <2>1, <2>2, <2>3 DEF StoryOf
  <2>5. PICK p \in waiting :
          /\ p.key = Key(Head(sending[s])) /\ p.first = story[s].first
          /\ \A q \in p.pieces : q.of = <<s, made[s]>>
          /\ {q.index : q \in p.pieces} = story[s].heard
          /\ Cardinality(Later(waiting, p.first)) <= story[s].begun
    BY <2>4 DEF Followed
  <2>6. p \in waiting'
    BY <2>1, <2>5 DEF Expired
  <2>7. Later(waiting', p.first) \subseteq Later(waiting, p.first)
    BY <1>2 DEF Later
  <2>8. Cardinality(Later(waiting', p.first)) <= story[s].begun
    <3>1. /\ Cardinality(Later(waiting', p.first)) \in Nat
          /\ Cardinality(Later(waiting', p.first)) <= Cardinality(Later(waiting, p.first))
          /\ Cardinality(Later(waiting, p.first)) \in Nat
      BY <1>1, <2>7, FewerLater, LaterFacts
    <3> QED
      BY <3>1, <2>5, <1>4
  <2> QED
    BY <2>3, <2>5, <2>6, <2>8 DEF Followed
<1> QED
  BY <1>5, <1>6, <1>7, <1>8 DEF StoryOf

LEMMA HeadAfter ==
  ASSUME Typed, SendingInv, NEW sender \in Senders, Transmits(sender), NEW s \in Senders,
         sending'[s] # <<>>
  PROVE  /\ sending[s] # <<>> /\ Key(Head(sending'[s])) = Key(Head(sending[s]))
         /\ Head(sending'[s]).index \in Int /\ Head(sending[s]).index \in Int
         /\ Head(sending'[s]).index =
              IF s = sender THEN Head(sending[s]).index + 1 ELSE Head(sending[s]).index
         /\ s = sender => Head(sending[s]).index < Head(sending[s]).last
<1> DEFINE q == sending[s]
           r == sending'[s]
<1>1. /\ sending[sender] # <<>> /\ sending'[sender] = Tail(sending[sender])
      /\ \A x \in Senders \ {sender} : sending'[x] = sending[x]
  BY TransmitsFacts
<1>2. CASE s # sender
  <2>1. r = q /\ q # <<>>
    BY <1>1, <1>2
  <2>2. Head(q).index \in Nat
    BY <2>1, HeadFacts
  <2> QED
    BY <2>1, <2>2, <1>2
<1>3. CASE s = sender
  <2>1. r = Tail(q) /\ q # <<>> /\ r # <<>>
    BY <1>1, <1>3
  <2>2. /\ r \in Seq(Pieces) /\ Len(r) = Len(q) - 1 /\ Len(q) \in Nat
        /\ \A i \in 1 .. Len(r) : r[i] = q[i + 1] /\ i + 1 \in 1 .. Len(q)
        /\ Head(r).index = Head(q).index + 1 /\ Head(q).index \in Nat
        /\ Head(q).last = Head(q).index + Len(q) - 1 /\ Head(q).number = number[s]
    BY <2>1, TailFacts, HeadFacts
  <2>3. 1 \in 1 .. Len(r) /\ Head(r) = r[1]
    BY <2>1, <2>2
  <2>4. Head(r) = q[2] /\ 2 \in 1 .. Len(q)
    <3>1. r[1] = q[1 + 1] /\ 1 + 1 \in 1 .. Len(q)
      BY <2>2, <2>3
    <3> QED
      BY <3>1, <2>3
  <2>5. q[2].number = number[s] /\ q[2].last = Head(q).index + Len(q) - 1
    BY <2>4 DEF SendingInv
  <2>6. Key(Head(r)) = Key(Head(q))
    BY <2>2, <2>4, <2>5 DEF Key
  <2>7. Head(q).index < Head(q).last
    <3>1. Len(q) >= 2
      BY <2>2, <2>4
    <3> HIDE DEF q
    <3> QED
      BY <3>1, <2>2
  <2> QED
    BY <2>1, <2>2, <2>6, <2>7, <1>3
<1> QED
  BY <1>2, <1>3

LEMMA LoseStory ==
  ASSUME Base, StoryInv, NEW sender \in Senders, Lose(sender)
  PROVE  StoryInv'
<1>1. Typed /\ SendingInv /\ Transmits(sender) /\ waiting' = Expired(waiting, now + Frame)
      /\ story' = story
  BY DEF Base, Lose
<1>2. now + Frame \in Nat /\ now + Frame >= now /\ now' = now + Frame /\ made' = made
  BY <1>1, TransmitsFacts
<1>3. ASSUME NEW s \in Senders
      PROVE  StoryOf(s)'
  <2>1. sending'[s] # <<>> =>
           /\ sending[s] # <<>> /\ Key(Head(sending'[s])) = Key(Head(sending[s]))
           /\ Head(sending'[s]).index >= Head(sending[s]).index
           /\ Head(sending'[s]).index \in Int /\ Head(sending[s]).index \in Int
    <3>1. SUFFICES ASSUME sending'[s] # <<>>
          PROVE /\ sending[s] # <<>> /\ Key(Head(sending'[s])) = Key(Head(sending[s]))
                /\ Head(sending'[s]).index >= Head(sending[s]).index
                /\ Head(sending'[s]).index \in Int /\ Head(sending[s]).index \in Int
      OBVIOUS
    <3>2. /\ sending[s] # <<>> /\ Key(Head(sending'[s])) = Key(Head(sending[s]))
          /\ Head(sending'[s]).index \in Int /\ Head(sending[s]).index \in Int
          /\ Head(sending'[s]).index =
               IF s = sender THEN Head(sending[s]).index + 1 ELSE Head(sending[s]).index
      BY <1>1, <3>1, HeadAfter
    <3> QED
      BY <3>2
  <2> QED
    BY <1>1, <1>2, <2>1, AgedStory
<1> QED
  BY <1>1, <1>3 DEF StoryInv

LEMMA QuietStory ==
  ASSUME Base, StoryInv, Quiet
  PROVE  StoryInv'
<1>1. /\ now' = now + 1 /\ now + 1 \in Nat /\ now + 1 >= now /\ waiting' = Expired(waiting, now + 1)
      /\ sending' = sending /\ made' = made /\ story' = story
  BY DEF Base, Quiet, Typed
<1>2. ASSUME NEW s \in Senders
      PROVE  StoryOf(s)'
  <2>1. sending[s] # <<>> => Head(sending[s]).index \in Int
    BY HeadFacts DEF Base
  <2>2. sending'[s] # <<>> =>
           /\ sending[s] # <<>> /\ Key(Head(sending'[s])) = Key(Head(sending[s]))
           /\ Head(sending'[s]).index >= Head(sending[s]).index
           /\ Head(sending'[s]).index \in Int /\ Head(sending[s]).index \in Int
    BY <1>1, <2>1
  <2> QED
    BY <1>1, <2>2, AgedStory
<1> QED
  BY <1>1, <1>2 DEF StoryInv

\* A datagram just made was heard of nowhere.
LEMMA MakeStory ==
  ASSUME Base, StoryInv, NEW sender \in Senders, Make(sender)
  PROVE  StoryInv'
<1>1. Typed /\ SendingInv /\ WaitingInv
  BY DEF Base
<1>2. /\ now' = now /\ waiting' = waiting
      /\ story' = [story EXCEPT ![sender] = Untold]
  BY DEF Make
<1>3. story \in [Senders -> Heard] /\ \A s \in Senders : StoryOf(s)
  BY DEF StoryInv
<1>4. Untold \in Heard /\ Untold.heard = {}
  BY DEF Untold, Heard
<1>5. /\ story' \in [Senders -> Heard] /\ story'[sender] = Untold
      /\ \A s \in Senders \ {sender} : story'[s] = story[s]
  BY <1>2, <1>3, <1>4
<1>6. /\ sending'[sender] # <<>> /\ Head(sending'[sender]).index = 0
      /\ made'[sender] = made[sender] + 1 /\ made[sender] \in Nat
      /\ \A s \in Senders \ {sender} :
           sending'[s] = sending[s] /\ made'[s] = made[s] /\ number'[s] = number[s]
  BY <1>1, MakeFacts DEF Typed
<1>7. ASSUME NEW s \in Senders \ {sender}
      PROVE  StoryOf(s)'
  <2>1. sending'[s] = sending[s] /\ made'[s] = made[s] /\ story'[s] = story[s]
    BY <1>5, <1>6
  <2>2. StoryOf(s)
    BY <1>3
  <2> QED
    BY <1>2, <2>1, <2>2 DEF StoryOf, Followed
<1>8. StoryOf(sender)'
  <2>1. story'[sender].heard = {}
    BY <1>4, <1>5
  <2>2. ASSUME NEW p \in waiting, NEW q \in p.pieces
        PROVE  q.of # <<sender, made'[sender]>>
    <3>1. q \in Pieces /\ PieceInv(q, p.first)
      BY <1>1 DEF WaitingInv, PartialInv, Partials
    <3>2. SUFFICES ASSUME q.of = <<sender, made[sender] + 1>> PROVE FALSE
      BY <1>6
    <3>3. q.of[1] = sender /\ q.of[2] = made[sender] + 1
      BY <3>2
    <3>4. made[sender] + 1 <= Begun(sender)
      BY <3>1, <3>3 DEF PieceInv
    <3>5. Begun(sender) \in Int /\ Begun(sender) <= made[sender]
      BY <1>1, BegunFacts
    <3> QED
      BY <3>4, <3>5, <1>6
  <2> QED
    BY <1>2, <2>1, <2>2 DEF StoryOf
<1> QED
  BY <1>5, <1>7, <1>8 DEF StoryInv
\* After each piece heard of a datagram that was followed so far, the receiver
\* has together what was heard.
LEMMA HeardTogether ==
  ASSUME Base, StoryInv, NEW sender \in Senders, Transmits(sender),
         NEW piece, piece = Head(sending[sender]), NEW rest, NEW old, NEW pieces,
         Joins(piece, now + Frame, Expired(waiting, now + Frame), rest, old, pieces),
         story' = Told(piece, now + Frame),
         ~story'[sender].met, story'[sender].begun < Keep,
         now' - story'[sender].first <= Timeout
  PROVE  /\ \A q \in pieces : q.of = <<sender, made[sender]>>
         /\ {q.index : q \in pieces} = story'[sender].heard
         /\ old.first = story'[sender].first
         /\ Cardinality(Later(waiting', old.first)) <= story'[sender].begun
<1> DEFINE live == Expired(waiting, now + Frame)
           new == [old EXCEPT !.pieces = pieces]
           mine == story[sender]
<1>1. Typed /\ SendingInv /\ WaitingInv
  BY DEF Base
<1>2. /\ sending[sender] # <<>> /\ now' = now + Frame /\ now \in Nat /\ now' \in Nat /\ now' > now
      /\ now + Frame \in Nat /\ now + Frame >= now
  BY <1>1, TransmitsFacts
<1>3. /\ piece \in Pieces /\ piece.of = <<sender, made[sender]>> /\ piece.of[1] = sender
      /\ piece.index \in Nat
  <2>1. piece \in Pieces /\ piece.of = <<sender, made[sender]>> /\ piece.index \in Nat
    BY <1>1, <1>2, HeadFacts
  <2> QED
    BY <2>1
<1>4. story \in [Senders -> Heard] /\ StoryOf(sender)
  BY DEF StoryInv
<1>5. /\ story'[sender].heard = mine.heard \cup {piece.index}
      /\ story'[sender].first = IF mine.heard = {} THEN now + Frame ELSE mine.first
      /\ story'[sender].begun = mine.begun
      /\ ~mine.met
      /\ \A p \in live : p.key = Key(piece) => \A q \in p.pieces : q.of[1] = sender
  BY <1>2, <1>3, <1>4, ToldFacts
<1>6. /\ mine.heard \subseteq Int /\ mine.first \in Nat /\ mine.begun \in Nat
  BY StoryTypes
<1>7. /\ live \subseteq waiting /\ live \subseteq Partials
      /\ \A p \in live : p.first \in Nat /\ p.first <= now
  BY <1>1, <1>2, ExpiredFacts
<1>8. /\ rest \subseteq live /\ \A p \in rest : p.key # Key(piece)
      /\ old \in Partials /\ old.key = Key(piece)
      /\ \/ old \in live
         \/ /\ old = [key |-> Key(piece), first |-> now + Frame, pieces |-> {}]
            /\ \A p \in live : p.key # Key(piece)
      /\ \/ pieces = old.pieces /\ \E q \in old.pieces : q.index = piece.index
         \/ /\ pieces = old.pieces \cup {piece}
            /\ \A q \in old.pieces : q.index # piece.index
      /\ waiting' = rest \/ waiting' = rest \cup {new}
  BY DEF Joins
<1>9. \A r \in old.pieces : r.of[1] = sender => r.of = <<sender, made[sender]>>
  <2>1. OneRound(old.pieces, piece)
    BY <1>1, JoinedPieces
  <2> QED
    BY <2>1, <1>3 DEF OneRound
<1>10. new.first = old.first
  BY <1>8 DEF Partials
<1>11. \A p \in waiting : \A q \in p.pieces :
         q.of = <<sender, made[sender]>> => q.index \in mine.heard
  BY <1>4 DEF StoryOf
<1> HIDE DEF live, new
<1>12. CASE mine.heard = {}
  <2>1. old \notin live
    <3>1. SUFFICES ASSUME old \in live PROVE FALSE
      OBVIOUS
    <3>2. PartialInv(old) /\ old \in waiting
      BY <1>1, <1>7, <3>1 DEF WaitingInv
    <3>3. PICK q \in old.pieces : TRUE
      BY <3>2 DEF PartialInv
    <3>4. q.of[1] = sender
      BY <1>5, <1>8, <3>1, <3>3
    <3>5. q.of = <<sender, made[sender]>>
      BY <1>9, <3>3, <3>4
    <3> QED
      BY <1>11, <1>12, <3>2, <3>3, <3>5
  <2>2. old = [key |-> Key(piece), first |-> now + Frame, pieces |-> {}]
    BY <1>8, <2>1
  <2>3. old.pieces = {} /\ old.first = now + Frame
    BY <2>2
  <2>4. pieces = {piece}
    BY <1>8, <2>3
  <2>5. {q.index : q \in pieces} = {piece.index} /\ story'[sender].heard = {piece.index}
    BY <2>4, <1>5, <1>12
  <2>6. Later(waiting', old.first) = {}
    <3>1. ASSUME NEW p \in waiting'
          PROVE  ~(p.first > old.first)
      <4>1. CASE p \in rest
        BY <4>1, <1>2, <1>7, <1>8, <2>3
      <4>2. CASE p = new
        BY <4>2, <1>2, <1>10, <2>3
      <4> QED
        BY <4>1, <4>2, <1>8
    <3> QED
      BY <3>1 DEF Later
  <2>7. Cardinality(Later(waiting', old.first)) = 0
    BY <2>6, FS_EmptySet
  <2>8. old.first = story'[sender].first
    BY <1>5, <1>12, <2>3
  <2>9. \A q \in pieces : q.of = <<sender, made[sender]>>
    BY <1>3, <2>4
  <2>10. Cardinality(Later(waiting', old.first)) <= story'[sender].begun
    BY <2>7, <1>5, <1>6
  <2> QED
    BY <2>5, <2>8, <2>9, <2>10
<1>13. CASE mine.heard # {}
  <2>1. now' - mine.first <= Timeout /\ mine.begun < Keep
    BY <1>5, <1>13
  <2>2. now - mine.first <= Timeout
    BY <2>1, <1>2, <1>6, ConstantFacts
  <2>3. Followed(sender) /\ \A i \in mine.heard : i < piece.index
    BY <1>2, <1>4, <1>5, <1>13, <2>1, <2>2 DEF StoryOf
  <2>4. PICK p \in waiting :
          /\ p.key = Key(piece) /\ p.first = mine.first
          /\ \A q \in p.pieces : q.of = <<sender, made[sender]>>
          /\ {q.index : q \in p.pieces} = mine.heard
          /\ Cardinality(Later(waiting, p.first)) <= mine.begun
    BY <2>3 DEF Followed
  <2>5. p \in live
    BY <1>2, <2>1, <2>4 DEF live, Expired
  <2>6. old \in live
    BY <1>8, <2>4, <2>5
  <2>7. old = p
    BY <1>1, <1>7, <1>8, <2>4, <2>6 DEF WaitingInv
  <2>8. pieces = old.pieces \cup {piece}
    <3>1. ASSUME NEW q \in old.pieces
          PROVE  q.index # piece.index
      <4>1. q.index \in mine.heard
        BY <2>4, <2>7, <3>1
      <4>2. q.index < piece.index /\ q.index \in Int
        BY <4>1, <2>3, <1>6
      <4> QED
        BY <4>2, <1>3
    <3> QED
      BY <3>1, <1>8
  <2>9. {q.index : q \in pieces} = story'[sender].heard
    BY <2>4, <2>7, <2>8, <1>5
  <2>10. \A q \in pieces : q.of = <<sender, made[sender]>>
    BY <2>4, <2>7, <2>8, <1>3
  <2>11. Later(waiting', old.first) \subseteq Later(waiting, old.first)
    <3>1. ASSUME NEW q \in waiting', q.first > old.first
          PROVE  q \in waiting
      <4>1. CASE q \in rest
        BY <4>1, <1>7, <1>8
      <4>2. CASE q = new
        BY <3>1, <4>2, <1>7, <1>10, <2>6
      <4> QED
        BY <4>1, <4>2, <1>8
    <3> QED
      BY <3>1 DEF Later
  <2>12. /\ Cardinality(Later(waiting', old.first)) \in Nat
         /\ Cardinality(Later(waiting', old.first)) <= Cardinality(Later(waiting, old.first))
         /\ Cardinality(Later(waiting, old.first)) \in Nat
    BY <1>1, <2>11, FewerLater, LaterFacts
  <2>13. Cardinality(Later(waiting', old.first)) <= story'[sender].begun
    BY <2>4, <2>7, <2>12, <1>5, <1>6
  <2>14. old.first = story'[sender].first
    BY <2>4, <2>7, <1>5, <1>13
  <2> QED
    BY <2>9, <2>10, <2>13, <2>14
<1> QED
  BY <1>12, <1>13
\* A piece of another sender's makes one datagram more begun, or joins one; one
\* that was followed is pushed out only when as many as may wait are younger.
LEMMA OthersFollowed ==
  ASSUME Base, StoryInv, NEW sender \in Senders, Transmits(sender),
         NEW piece, piece = Head(sending[sender]), NEW rest, NEW old, NEW pieces,
         Joins(piece, now + Frame, Expired(waiting, now + Frame), rest, old, pieces),
         story' = Told(piece, now + Frame), NEW s \in Senders \ {sender},
         sending[s] # <<>>, story'[s].heard # {}, now' - story'[s].first <= Timeout,
         ~story'[s].met, story'[s].begun < Keep
  PROVE  Followed(s)'
<1> DEFINE live == Expired(waiting, now + Frame)
           new == [old EXCEPT !.pieces = pieces]
           mine == story[s]
<1>1. Typed /\ SendingInv /\ WaitingInv
  BY DEF Base
<1>2. /\ sending[sender] # <<>> /\ now' = now + Frame /\ now \in Nat /\ now' \in Nat /\ now' > now
      /\ now + Frame \in Nat /\ now + Frame >= now /\ made' = made /\ sending'[s] = sending[s]
  BY <1>1, TransmitsFacts
<1>3. piece \in Pieces /\ piece.of[1] = sender
  <2>1. piece \in Pieces /\ piece.of = <<sender, made[sender]>>
    BY <1>1, <1>2, HeadFacts
  <2> QED
    BY <2>1
<1>4. story \in [Senders -> Heard] /\ StoryOf(s)
  BY DEF StoryInv
<1>5. /\ story'[s].heard = mine.heard /\ story'[s].first = mine.first
      /\ story'[s].begun = IF (\A p \in live : p.key # Key(piece)) /\ mine.heard # {}
                           THEN mine.begun + 1 ELSE mine.begun
      /\ ~mine.met /\ (mine.heard # {} => number[s] # piece.number)
  BY <1>2, <1>3, <1>4, ToldFacts
<1>6. mine.first \in Nat /\ mine.begun \in Nat /\ mine.heard # {} /\ Keep \in Nat
  BY <1>5, StoryTypes, ConstantFacts
<1>7. /\ live \subseteq waiting /\ live \subseteq Partials /\ IsFiniteSet(live)
      /\ \A p \in live : p.first \in Nat /\ p.first <= now
  BY <1>1, <1>2, ExpiredFacts
<1>8. /\ rest \subseteq live
      /\ old \in Partials /\ old.key = Key(piece)
      /\ \/ old \in live /\ rest = live \ {old}
         \/ /\ old = [key |-> Key(piece), first |-> now + Frame, pieces |-> {}]
            /\ \A p \in live : p.key # Key(piece)
            /\ \/ rest = live
               \/ \E o \in live : /\ rest = live \ {o} /\ Cardinality(live) = Keep
                                  /\ \A p \in live : o.first <= p.first
      /\ waiting' = rest \/ waiting' = rest \cup {new}
  BY DEF Joins
<1>9. new.first = old.first
  BY <1>8 DEF Partials
<1> HIDE DEF live, new
<1>10. mine.begun < Keep /\ now - mine.first <= Timeout
  BY <1>2, <1>5, <1>6, ConstantFacts
<1>11. PICK p \in waiting :
         /\ p.key = Key(Head(sending[s])) /\ p.first = mine.first
         /\ \A q \in p.pieces : q.of = <<s, made[s]>>
         /\ {q.index : q \in p.pieces} = mine.heard
         /\ Cardinality(Later(waiting, p.first)) <= mine.begun
  BY <1>4, <1>5, <1>6, <1>10 DEF StoryOf, Followed
<1>12. p \in live
  BY <1>2, <1>5, <1>11 DEF live, Expired
<1>13. p.key # Key(piece)
  <2>1. Head(sending[s]).number = number[s]
    BY <1>1, HeadFacts
  <2> QED
    BY <2>1, <1>5, <1>6, <1>11 DEF Key
<1>14. IsFiniteSet(Later(waiting, p.first)) /\ Cardinality(Later(waiting, p.first)) \in Nat
  BY <1>1, LaterFacts
<1>15. SUFFICES p \in rest /\ Cardinality(Later(waiting', p.first)) <= story'[s].begun
  BY <1>2, <1>5, <1>8, <1>11 DEF Followed
<1>16. CASE old \in live /\ rest = live \ {old}
  <2>1. p \in rest
    BY <1>8, <1>12, <1>13, <1>16
  <2>2. Later(waiting', p.first) \subseteq Later(waiting, p.first)
    <3>1. ASSUME NEW q \in waiting'
          PROVE  \E r \in waiting : r.first = q.first
      BY <1>7, <1>8, <1>9, <1>16
    <3> QED
      BY <3>1 DEF Later
  <2>3. /\ Cardinality(Later(waiting', p.first)) \in Nat
        /\ Cardinality(Later(waiting', p.first)) <= Cardinality(Later(waiting, p.first))
    BY <1>1, <2>2, FewerLater
  <2>4. story'[s].begun = mine.begun
    BY <1>5, <1>8, <1>16
  <2> QED
    BY <2>1, <2>3, <2>4, <1>6, <1>11, <1>14
<1>17. CASE /\ old = [key |-> Key(piece), first |-> now + Frame, pieces |-> {}]
            /\ \A r \in live : r.key # Key(piece)
            /\ \/ rest = live
               \/ \E o \in live : /\ rest = live \ {o} /\ Cardinality(live) = Keep
                                  /\ \A r \in live : o.first <= r.first
  <2>1. story'[s].begun = mine.begun + 1 /\ mine.begun + 1 < Keep
    BY <1>5, <1>6, <1>17
  <2>2. p \in rest
    <3>1. SUFFICES ASSUME NEW o \in live, rest = live \ {o}, Cardinality(live) = Keep,
                          \A r \in live : o.first <= r.first, o = p
                   PROVE  FALSE
      BY <1>12, <1>17
    <3> DEFINE T == {r.first : r \in rest}
    <3>2. IsFiniteSet(rest) /\ Cardinality(rest) = Keep - 1
      BY <3>1, <1>7, FS_RemoveElement
    <3>3. \A q, r \in waiting : q.first = r.first => q = r
      BY <1>1 DEF WaitingInv
    <3>4. Cardinality(T) = Keep - 1
      <4>1. \A q, r \in rest : q.first = r.first => q = r
        BY <3>3, <1>7, <1>8
      <4> HIDE DEF T
      <4> QED
        BY <3>2, <4>1, FirstsFacts DEF T
    <3>5. T \subseteq Later(waiting, p.first)
      <4>1. ASSUME NEW r \in rest
            PROVE  r \in waiting /\ r.first > p.first
        <5>1. r \in live /\ r # p /\ p.first <= r.first
          BY <3>1, <4>1
        <5>2. r.first # p.first /\ r.first \in Nat /\ p.first \in Nat
          <6>1. r \in waiting /\ p \in waiting
            BY <5>1, <1>7
          <6>2. r.first # p.first
            BY <3>3, <5>1, <6>1
          <6> QED
            BY <5>1, <6>2, <1>7, <1>12
        <5> QED
          BY <5>1, <5>2, <1>7
      <4> QED
        BY <4>1 DEF Later
    <3> HIDE DEF T
    <3>6. Cardinality(T) <= Cardinality(Later(waiting, p.first))
      BY <3>5, <1>14, FS_Subset
    <3> QED
      BY <3>4, <3>6, <2>1, <1>6, <1>11, <1>14
  <2>3. old.first = now + Frame
    BY <1>17
  <2>4. Later(waiting', p.first) \subseteq Later(waiting, p.first) \cup {now + Frame}
    <3>1. ASSUME NEW q \in waiting'
          PROVE  q \in waiting \/ q.first = now + Frame
      BY <2>3, <1>7, <1>8, <1>9
    <3> QED
      BY <3>1 DEF Later
  <2>5. /\ IsFiniteSet(Later(waiting, p.first) \cup {now + Frame})
        /\ Cardinality(Later(waiting, p.first) \cup {now + Frame})
             = IF now + Frame \in Later(waiting, p.first)
               THEN Cardinality(Later(waiting, p.first))
               ELSE Cardinality(Later(waiting, p.first)) + 1
    BY <1>14, FS_AddElement
  <2>6. /\ IsFiniteSet(Later(waiting', p.first))
        /\ Cardinality(Later(waiting', p.first))
             <= Cardinality(Later(waiting, p.first) \cup {now + Frame})
    BY <2>4, <2>5, FS_Subset
  <2>7. Cardinality(Later(waiting', p.first)) \in Nat
    BY <2>6, FS_CardinalityType
  <2>8. Cardinality(Later(waiting', p.first)) <= mine.begun + 1
    <3>1. CASE now + Frame \in Later(waiting, p.first)
      BY <3>1, <2>5, <2>6, <2>7, <1>6, <1>11, <1>14
    <3>2. CASE now + Frame \notin Later(waiting, p.first)
      BY <3>2, <2>5, <2>6, <2>7, <1>6, <1>11, <1>14
    <3> QED
      BY <3>1, <3>2
  <2> QED
    BY <2>1, <2>2, <2>8
<1> QED
  BY <1>8, <1>16, <1>17
LEMMA HearStory ==
  ASSUME Base, StoryInv, NEW sender \in Senders, Transmits(sender),
         NEW piece, piece = Head(sending[sender]), NEW rest, NEW old, NEW pieces,
         Joins(piece, now + Frame, Expired(waiting, now + Frame), rest, old, pieces),
         story' = Told(piece, now + Frame)
  PROVE  StoryInv'
<1> DEFINE live == Expired(waiting, now + Frame)
           new == [old EXCEPT !.pieces = pieces]
           mine == story[sender]
<1>1. Typed /\ SendingInv /\ WaitingInv
  BY DEF Base
<1>2. /\ sending[sender] # <<>> /\ now' = now + Frame /\ now \in Nat /\ now' \in Nat /\ now' > now
      /\ now + Frame \in Nat /\ now + Frame >= now /\ made' = made
  BY <1>1, TransmitsFacts
<1>3. /\ piece \in Pieces /\ piece.of = <<sender, made[sender]>> /\ piece.of[1] = sender
      /\ piece.index \in Nat /\ piece.last \in Nat
  <2>1. /\ piece \in Pieces /\ piece.of = <<sender, made[sender]>> /\ piece.index \in Nat
        /\ piece.last \in Nat
    BY <1>1, <1>2, HeadFacts
  <2> QED
    BY <2>1
<1>4. story \in [Senders -> Heard] /\ \A s \in Senders : StoryOf(s)
  BY DEF StoryInv
<1>5. /\ story' \in [Senders -> Heard]
      /\ story'[sender].heard = mine.heard \cup {piece.index}
      /\ story'[sender].first = IF mine.heard = {} THEN now + Frame ELSE mine.first
      /\ \A s \in Senders \ {sender} :
           story'[s].heard = story[s].heard /\ story'[s].first = story[s].first
  BY <1>2, <1>3, <1>4, ToldFacts
<1>6. live \subseteq waiting
  BY DEF Expired
<1>7. /\ rest \subseteq live /\ old \in Partials
      /\ old \in live \/ old.pieces = {}
      /\ pieces = old.pieces \/ pieces = old.pieces \cup {piece}
      /\ \/ Cardinality(pieces) = piece.last + 1 /\ waiting' = rest
         \/ Cardinality(pieces) # piece.last + 1 /\ waiting' = rest \cup {new}
  BY DEF Joins
<1>8. new.pieces = pieces /\ new.first = old.first /\ new.key = old.key
  BY <1>7 DEF Partials
<1>9. old.key = Key(piece) /\ IsFiniteSet(pieces) /\ Alone(pieces) /\ pieces \subseteq Pieces
      /\ \A q \in pieces : Key(q) = old.key /\ PieceInv(q, old.first)'
  BY <1>1, JoinedPieces, ZenonT(40) DEF Joins
<1> HIDE DEF live, new
<1>10. ASSUME NEW p \in waiting', NEW q \in p.pieces
       PROVE  q = piece \/ \E r \in waiting : q \in r.pieces
  <2>1. CASE p \in rest
    BY <2>1, <1>6, <1>7
  <2>2. CASE p = new
    <3>1. q = piece \/ q \in old.pieces
      BY <2>2, <1>7, <1>8
    <3> QED
      BY <3>1, <1>6, <1>7
  <2> QED
    BY <2>1, <2>2, <1>7
<1>11. ASSUME NEW s \in Senders
       PROVE  /\ mine.heard \subseteq Int /\ mine.first \in Nat
              /\ story[s].heard \subseteq Int /\ story[s].first \in Nat
  BY StoryTypes
<1>12. ASSUME NEW s \in Senders \ {sender}
       PROVE  StoryOf(s)'
  <2>1. StoryOf(s) /\ story'[s].heard = story[s].heard /\ story'[s].first = story[s].first
    BY <1>4, <1>5
  <2>2. sending'[s] = sending[s]
    BY <1>1, TransmitsFacts
  <2>3. story'[s].heard # {} => story'[s].first <= now'
    BY <2>1, <1>2, <1>11 DEF StoryOf
  <2>4. \A p \in waiting' : \A q \in p.pieces :
          q.of = <<s, made'[s]>> => q.index \in story'[s].heard
    BY <2>1, <1>2, <1>3, <1>10 DEF StoryOf
  <2>5. sending'[s] # <<>> => \A i \in story'[s].heard : i < Head(sending'[s]).index
    BY <2>1, <2>2 DEF StoryOf
  <2>6. sending'[s] # <<>> =>
          (story'[s].heard # {} /\ now' - story'[s].first <= Timeout
           /\ ~story'[s].met /\ story'[s].begun < Keep => Followed(s)')
    BY <2>2, OthersFollowed
  <2> QED
    BY <2>3, <2>4, <2>5, <2>6 DEF StoryOf
<1>13. StoryOf(sender)'
  <2>1. StoryOf(sender)
    BY <1>4
  <2>2. \A i \in mine.heard : i < piece.index
    BY <2>1, <1>2 DEF StoryOf
  <2>3. story'[sender].first <= now'
    <3>1. CASE mine.heard = {}
      BY <3>1, <1>2, <1>5
    <3>2. CASE mine.heard # {}
      <4>1. mine.first <= now /\ story'[sender].first = mine.first
        BY <3>2, <2>1, <1>5 DEF StoryOf
      <4> QED
        BY <4>1, <1>2, <1>11
    <3> QED
      BY <3>1, <3>2
  <2>4. \A p \in waiting' : \A q \in p.pieces :
          q.of = <<sender, made'[sender]>> => q.index \in story'[sender].heard
    BY <2>1, <1>2, <1>5, <1>10 DEF StoryOf
  <2>5. ASSUME sending'[sender] # <<>>
        PROVE  /\ Key(Head(sending'[sender])) = Key(piece) /\ piece.index < piece.last
               /\ Head(sending'[sender]).index = piece.index + 1
    BY <2>5, <1>1, HeadAfter
  <2>6. ASSUME sending'[sender] # <<>>, NEW i \in story'[sender].heard
        PROVE  i < Head(sending'[sender]).index
    <3>1. CASE i = piece.index
      BY <3>1, <2>5, <2>6, <1>3
    <3>2. CASE i \in mine.heard
      <4>1. i \in Int /\ i < piece.index
        BY <3>2, <2>2, <1>11
      <4> QED
        BY <4>1, <2>5, <2>6, <1>3
    <3> QED
      BY <3>1, <3>2, <2>6, <1>5
  <2>7. ASSUME sending'[sender] # <<>>, now' - story'[sender].first <= Timeout,
               ~story'[sender].met, story'[sender].begun < Keep
        PROVE  Followed(sender)'
    <3>1. /\ \A q \in pieces : q.of = <<sender, made[sender]>>
          /\ {q.index : q \in pieces} = story'[sender].heard
          /\ old.first = story'[sender].first
          /\ Cardinality(Later(waiting', old.first)) <= story'[sender].begun
      BY <2>7, HeardTogether
    <3>2. Cardinality(pieces) # piece.last + 1
      <4>1. SUFFICES ASSUME Cardinality(pieces) = piece.last + 1 PROVE FALSE
        OBVIOUS
      <4>2. \A q \in pieces : q.last = piece.last /\ q.index <= piece.last
        BY <1>9 DEF Key, PieceInv
      <4>3. {q.index : q \in pieces} = 0 .. piece.last
        BY <4>1, <4>2, <1>3, <1>9, WholeFacts
      <4>4. piece.last \in story'[sender].heard
        BY <4>3, <3>1, <1>3
      <4>5. piece.last < Head(sending'[sender]).index
        BY <4>4, <2>6, <2>7
      <4> QED
        BY <4>5, <2>5, <2>7, <1>3
    <3>3. new \in waiting'
      BY <3>2, <1>7
    <3>4. new.key = Key(Head(sending'[sender])) /\ new.first = story'[sender].first
      BY <3>1, <2>5, <2>7, <1>8, <1>9
    <3>5. /\ \A q \in new.pieces : q.of = <<sender, made'[sender]>>
          /\ {q.index : q \in new.pieces} = story'[sender].heard
          /\ Cardinality(Later(waiting', new.first)) <= story'[sender].begun
      BY <3>1, <1>2, <1>8
    <3> QED
      BY <3>3, <3>4, <3>5 DEF Followed
  <2> QED
    BY <2>3, <2>4, <2>6, <2>7 DEF StoryOf
<1> QED
  BY <1>5, <1>12, <1>13 DEF StoryInv
LEMMA StoryInit ==
  ASSUME Init
  PROVE  StoryInv
<1>1. Untold \in Heard /\ Untold.heard = {}
  BY DEF Untold, Heard
<1>2. story \in [Senders -> Heard] /\ \A s \in Senders : story[s].heard = {}
  BY <1>1 DEF Init
<1>3. \A s \in Senders : sending[s] = <<>> /\ waiting = {}
  BY DEF Init
<1> QED
  BY <1>2, <1>3 DEF StoryInv, StoryOf

LEMMA HearJoins ==
  ASSUME Base, NEW sender \in Senders, Hear(sender)
  PROVE  \E piece, rest, old, pieces :
           /\ piece = Head(sending[sender]) /\ story' = Told(piece, now + Frame)
           /\ Joins(piece, now + Frame, Expired(waiting, now + Frame), rest, old, pieces)
<1>1. PICK piece : piece = Head(sending[sender])
  OBVIOUS
<1>2. /\ Transmits(sender) /\ Add(piece, now + Frame) /\ story' = Told(piece, now + Frame)
  BY <1>1 DEF Hear
<1>3. Typed /\ SendingInv /\ WaitingInv
  BY DEF Base
<1>4. now + Frame \in Nat /\ now + Frame >= now /\ piece \in Pieces
  BY <1>1, <1>2, <1>3, TransmitsFacts, HeadFacts
<1>5. \E rest, old, pieces :
        Joins(piece, now + Frame, Expired(waiting, now + Frame), rest, old, pieces)
  BY <1>2, <1>3, <1>4, AddFacts
<1> QED
  BY <1>1, <1>2, <1>5

LEMMA StoryNext ==
  ASSUME Base, StoryInv, [Next]_vars
  PROVE  StoryInv'
<1>1. ASSUME NEW sender \in Senders, Hear(sender)
      PROVE  StoryInv'
  <2>1. PICK piece, rest, old, pieces :
          /\ piece = Head(sending[sender]) /\ story' = Told(piece, now + Frame)
          /\ Joins(piece, now + Frame, Expired(waiting, now + Frame), rest, old, pieces)
    BY <1>1, HearJoins
  <2>2. Transmits(sender)
    BY <1>1 DEF Hear
  <2> QED
    BY <2>1, <2>2, HearStory
<1>2. CASE UNCHANGED vars
  BY <1>2 DEF vars, StoryInv, StoryOf, Followed
<1> QED
  BY <1>1, <1>2, MakeStory, LoseStory, QuietStory DEF Next

LEMMA StoryInvariant == Spec => []StoryInv
<1>1. Init => StoryInv
  BY StoryInit
<1>2. Base /\ StoryInv /\ [Next]_vars => StoryInv'
  BY StoryNext
<1> QED
  BY <1>1, <1>2, BaseInvariant, PTL DEF Spec

\* With the last piece of a datagram that was followed, every piece is there.
LEMMA LastJoins ==
  ASSUME Base, StoryInv, NEW sender \in Senders, Transmits(sender),
         NEW piece, piece = Head(sending[sender]), NEW rest, NEW old, NEW pieces,
         Joins(piece, now + Frame, Expired(waiting, now + Frame), rest, old, pieces),
         story' = Told(piece, now + Frame),
         ~story'[sender].met, story'[sender].begun < Keep, ~story'[sender].late,
         story'[sender].heard = 0 .. piece.last
  PROVE  joined' # {} /\ \A q \in joined' : q.of = piece.of
<1>1. Typed /\ SendingInv /\ WaitingInv
  BY DEF Base
<1>2. /\ sending[sender] # <<>> /\ now' = now + Frame /\ now + Frame \in Nat
  BY <1>1, TransmitsFacts
<1>3. /\ piece \in Pieces /\ piece.of = <<sender, made[sender]>> /\ piece.of[1] = sender
      /\ piece.last \in Nat
  <2>1. piece \in Pieces /\ piece.of = <<sender, made[sender]>> /\ piece.last \in Nat
    BY <1>1, <1>2, HeadFacts
  <2> QED
    BY <2>1
<1>4. now' - story'[sender].first <= Timeout
  BY <1>2, <1>3, ToldFacts DEF StoryInv
<1>5. /\ \A q \in pieces : q.of = piece.of
      /\ {q.index : q \in pieces} = 0 .. piece.last
  <2>1. /\ \A q \in pieces : q.of = <<sender, made[sender]>>
        /\ {q.index : q \in pieces} = story'[sender].heard
        /\ old.first = story'[sender].first
        /\ Cardinality(Later(waiting', old.first)) <= story'[sender].begun
    BY <1>4, HeardTogether
  <2> QED
    BY <2>1, <1>3
<1>6. pieces # {} /\ IsFiniteSet(pieces) /\ Alone(pieces)
  BY <1>1, JoinedPieces
<1>7. Cardinality(pieces) = piece.last + 1
  <2> DEFINE T == 0 .. piece.last
             f == [q \in pieces |-> q.index]
  <2>1. f \in [pieces -> T] /\ T = {f[x] : x \in pieces}
    BY <1>5
  <2>2. \A x, y \in pieces : f[x] = f[y] => x = y
    BY <1>6 DEF Alone
  <2>3. Cardinality(0 .. piece.last) = piece.last + 1
    BY <1>3, FS_Interval
  <2> HIDE DEF f, T
  <2>4. Cardinality(T) = Cardinality(pieces)
    BY <2>1, <2>2, <1>6, ImageSize
  <2> QED
    BY <2>3, <2>4 DEF T
<1>8. joined' = pieces
  BY <1>7 DEF Joins
<1> QED
  BY <1>5, <1>6, <1>8

(* A datagram of which every piece was heard in time is handed on with the *)
(* last of them, unless another sender's met it under its number or as     *)
(* many as may wait were begun meanwhile: what is lost of a datagram is    *)
(* lost on the air, or to those two limits, and to nothing else.           *)
THEOREM HeardIsJoinedHolds == Spec => HeardIsJoined
<1> DEFINE Whole == \A s \in {x \in Senders : sending[x] # <<>>} :
              LET told == story'[s]
                  piece == Head(sending[s])
              IN  /\ told # story[s] /\ told.heard = 0 .. piece.last
                  /\ ~told.late /\ ~told.met /\ told.begun < Keep
                  => joined' = {p \in joined' : p.of = piece.of} /\ joined' # {}
<1>1. Base /\ StoryInv /\ [Next]_vars => [Whole]_vars
  <2> SUFFICES ASSUME Base, StoryInv, Next, NEW s \in Senders, sending[s] # <<>>,
                      story'[s] # story[s], story'[s].heard = 0 .. Head(sending[s]).last,
                      ~story'[s].late, ~story'[s].met, story'[s].begun < Keep
               PROVE  joined' # {} /\ \A q \in joined' : q.of = Head(sending[s]).of
    OBVIOUS
  <2>1. story \in [Senders -> Heard] /\ StoryOf(s)
    BY DEF StoryInv
  <2>2. PICK sender \in Senders : Hear(sender)
    <3>1. ~Quiet /\ \A x \in Senders : ~Lose(x)
      BY DEF Quiet, Lose
    <3>2. ASSUME NEW x \in Senders, Make(x)
          PROVE  FALSE
      <4>1. x # s
        BY <3>2 DEF Make
      <4>2. story' = [story EXCEPT ![x] = Untold]
        BY <3>2 DEF Make
      <4> QED
        BY <2>1, <4>1, <4>2
    <3> QED
      BY <3>1, <3>2 DEF Next
  <2>3. Transmits(sender)
    BY <2>2 DEF Hear
  <2>4. PICK piece, rest, old, pieces :
          /\ piece = Head(sending[sender]) /\ story' = Told(piece, now + Frame)
          /\ Joins(piece, now + Frame, Expired(waiting, now + Frame), rest, old, pieces)
    BY <2>2, HearJoins
  <2>5. CASE s = sender
    BY <2>3, <2>4, <2>5, LastJoins
  <2>6. CASE s # sender
    <3>1. Typed /\ SendingInv
      BY DEF Base
    <3>2. now + Frame \in Nat /\ sending[sender] # <<>>
      BY <2>3, <3>1, TransmitsFacts
    <3>3. piece \in Pieces /\ piece.of = <<sender, made[sender]>>
      BY <2>4, <3>1, <3>2, HeadFacts
    <3>4. piece.of[1] = sender
      BY <3>3
    <3>5. story'[s].heard = story[s].heard
      BY <2>1, <2>4, <2>6, <3>2, <3>3, <3>4, ToldFacts
    <3>6. \A i \in story[s].heard : i < Head(sending[s]).index
      BY <2>1 DEF StoryOf
    <3>7. /\ Head(sending[s]).index \in Nat /\ Head(sending[s]).last \in Nat
          /\ Head(sending[s]).index <= Head(sending[s]).last
      <4>1. /\ Head(sending[s]).index \in Nat /\ Head(sending[s]).last \in Nat
            /\ Len(sending[s]) \in Nat /\ Len(sending[s]) >= 1
            /\ Head(sending[s]).last = Head(sending[s]).index + Len(sending[s]) - 1
        BY <3>1, HeadFacts
      <4> QED
        BY <4>1
    <3>8. Head(sending[s]).last \in story[s].heard
      BY <3>5, <3>7
    <3> QED
      BY <3>6, <3>7, <3>8
  <2> QED
    BY <2>5, <2>6
<1> QED
  BY <1>1, BaseInvariant, StoryInvariant, PTL DEF Spec, HeardIsJoined
=============================================================================
