-------------------------- MODULE DataTransferProofs --------------------------
(***************************************************************************)
(* Proofs about DataTransfer.  The sequence numbers are the numbers of the *)
(* blocks modulo SeqMod; the proofs speak of the blocks' own numbers,      *)
(* which the module keeps nowhere.                                         *)
(***************************************************************************)
EXTENDS DataTransfer, InductionFacts, FiniteSetTheorems, SequenceTheorems

-----------------------------------------------------------------------------
\* Remainders.

LEMMA ModInt ==
  ASSUME NEW M \in Nat \ {0}, NEW x \in Int
  PROVE  x \div M \in Int
OBVIOUS

LEMMA ModRange ==
  ASSUME NEW M \in Nat \ {0}, NEW x \in Int
  PROVE  x % M \in 0 .. (M - 1)
OBVIOUS

LEMMA ModParts ==
  ASSUME NEW M \in Nat \ {0}, NEW x \in Int
  PROVE  x = ((x \div M) * M) + (x % M)
OBVIOUS

\* A number is divided with remainder in one way.
LEMMA ModOneWay ==
  ASSUME NEW M \in Nat \ {0}, NEW j \in Int, NEW k \in Int,
         NEW a \in 0 .. (M - 1), NEW b \in 0 .. (M - 1),
         (j * M) + a = (k * M) + b
  PROVE  a = b /\ j = k
OBVIOUS

LEMMA ModBy ==
  ASSUME NEW M \in Nat \ {0}, NEW x \in Int, NEW k \in Int,
         NEW a \in 0 .. (M - 1), x = (k * M) + a
  PROVE  x % M = a
<1> DEFINE j == x \div M
           b == x % M
<1>1. j \in Int
  BY ModInt
<1>2. b \in 0 .. (M - 1)
  BY ModRange
<1>3. x = (j * M) + b
  BY ModParts
<1> HIDE DEF j, b
<1>4. (j * M) + b = (k * M) + a
  BY <1>3
<1>5. b = a
  BY ModOneWay, <1>1, <1>2, <1>4
<1> QED
  BY <1>5 DEF b

\* Numbers less than M apart have the same remainder only when they are equal.
LEMMA ModApart ==
  ASSUME NEW M \in Nat \ {0}, NEW x \in Int, NEW y \in Int,
         x - y < M, y - x < M, x % M = y % M
  PROVE  x = y
<1> DEFINE j == x \div M
           k == y \div M
           b == x % M
<1>1. j \in Int /\ k \in Int
  BY ModInt
<1>2. b \in 0 .. (M - 1)
  BY ModRange
<1>3. x = (j * M) + b /\ y = (k * M) + b
  BY ModParts
<1> HIDE DEF j, k, b
<1>4. j = k
  <2>1. CASE j >= k + 1
    <3>1. j * M >= (k + 1) * M
      BY <1>1, <2>1
    <3>2. (k + 1) * M = (k * M) + M
      BY <1>1
    <3>3. j * M \in Int /\ k * M \in Int
      BY <1>1
    <3> QED
      BY <1>2, <1>3, <3>1, <3>2, <3>3
  <2>2. CASE k >= j + 1
    <3>1. k * M >= (j + 1) * M
      BY <1>1, <2>2
    <3>2. (j + 1) * M = (j * M) + M
      BY <1>1
    <3>3. j * M \in Int /\ k * M \in Int
      BY <1>1
    <3> QED
      BY <1>2, <1>3, <3>1, <3>2, <3>3
  <2> QED
    BY <1>1, <2>1, <2>2
<1> QED
  BY <1>3, <1>4

LEMMA ModPlus ==
  ASSUME NEW M \in Nat \ {0}, NEW x \in Int, NEW n \in Int
  PROVE  ((x % M) + n) % M = (x + n) % M
<1> DEFINE j == x \div M
           b == x % M
           k == (x + n) \div M
           a == (x + n) % M
<1>1. j \in Int /\ k \in Int
  BY ModInt
<1>2. b \in 0 .. (M - 1) /\ a \in 0 .. (M - 1)
  BY ModRange
<1>3. x = (j * M) + b /\ x + n = (k * M) + a
  BY ModParts
<1> HIDE DEF j, k, a, b
<1>4. (k - j) * M = (k * M) - (j * M)
  BY <1>1
<1>5. b + n = ((k - j) * M) + a
  <2>1. j * M \in Int /\ k * M \in Int
    BY <1>1
  <2> QED
    BY <1>2, <1>3, <1>4, <2>1
<1>6. b + n \in Int /\ k - j \in Int
  BY <1>1, <1>2
<1>7. (b + n) % M = a
  BY ModBy, <1>2, <1>5, <1>6
<1> QED
  BY <1>7 DEF a, b

LEMMA ModMinus ==
  ASSUME NEW M \in Nat \ {0}, NEW x \in Int, NEW y \in Int, NEW a \in 0 .. (M - 1),
         a = x - y \/ a = x - y + M
  PROVE  ((x % M) - (y % M)) % M = a
<1> DEFINE j == x \div M
           b == x % M
           k == y \div M
           c == y % M
<1>1. j \in Int /\ k \in Int
  BY ModInt
<1>2. b \in 0 .. (M - 1) /\ c \in 0 .. (M - 1)
  BY ModRange
<1>3. x = (j * M) + b /\ y = (k * M) + c
  BY ModParts
<1> HIDE DEF j, k, b, c
<1>4. /\ (k - j) * M = (k * M) - (j * M)
      /\ (k - j - 1) * M = (k * M) - (j * M) - M
  BY <1>1
<1>5. j * M \in Int /\ k * M \in Int
  BY <1>1
<1>6. CASE a = x - y
  <2>1. b - c = ((k - j) * M) + a
    BY <1>2, <1>3, <1>4, <1>5, <1>6
  <2>2. b - c \in Int /\ k - j \in Int
    BY <1>1, <1>2
  <2>3. (b - c) % M = a
    BY ModBy, <2>1, <2>2
  <2> QED
    BY <2>3 DEF b, c
<1>7. CASE a = x - y + M
  <2>1. b - c = ((k - j - 1) * M) + a
    BY <1>2, <1>3, <1>4, <1>5, <1>7
  <2>2. b - c \in Int /\ k - j - 1 \in Int
    BY <1>1, <1>2
  <2>3. (b - c) % M = a
    BY ModBy, <2>1, <2>2
  <2> QED
    BY <2>3 DEF b, c
<1> QED
  BY <1>6, <1>7

\* A multiple grows with its factor.
LEMMA MultGrows ==
  ASSUME NEW a \in Int, NEW b \in Int, NEW c \in Nat, a <= b
  PROVE  a * c <= b * c
OBVIOUS

\* What is rounded up to whole rooms: each room but the last is full.
LEMMA RoundUp ==
  ASSUME NEW len \in Nat, NEW room \in Nat \ {0}
  PROVE  LET count == (len + room - 1) \div room
         IN  /\ count \in Nat
             /\ count * room >= len
             /\ \A k \in 1 .. count : (k - 1) * room \in Nat /\ (k - 1) * room < len
             /\ \A k \in 1 .. count : k * room = ((k - 1) * room) + room
<1> DEFINE x == len + room - 1
           count == x \div room
           b == x % room
<1>1. x \in Nat
  OBVIOUS
<1>2. count \in Int
  BY ModInt
<1>3. b \in 0 .. (room - 1)
  BY ModRange
<1>4. x = (count * room) + b
  BY ModParts
<1>5. x = len + room - 1
  OBVIOUS
<1>6. (len + room - 1) \div room = count
  OBVIOUS
<1> HIDE DEF x, count, b
<1>7. count * room \in Int
  BY <1>2
<1>8. count \in Nat
  <2>1. CASE count <= -1
    <3>1. count * room <= (-1) * room
      BY <1>2, <2>1, MultGrows
    <3> QED
      BY <1>1, <1>3, <1>4, <1>7, <3>1
  <2> QED
    BY <1>2, <2>1
<1>9. count * room >= len
  BY <1>3, <1>4, <1>5, <1>7
<1>10. ASSUME NEW k \in 1 .. count
       PROVE  (k - 1) * room \in Nat /\ (k - 1) * room < len /\ k * room = ((k - 1) * room) + room
  <2>1. k * room <= count * room
    BY <1>2, MultGrows
  <2>2. k * room = ((k - 1) * room) + room
    OBVIOUS
  <2>3. (k - 1) * room \in Nat
    BY <1>8
  <2> QED
    BY <1>3, <1>4, <1>5, <1>7, <2>1, <2>2, <2>3
<1> QED
  BY <1>6, <1>8, <1>9, <1>10
-----------------------------------------------------------------------------
\* Sequence numbers: the number of a block modulo SeqMod.

LEMMA SizesAre ==
  SeqMod \in Nat \ {0} /\ Window \in Nat \ {0} /\ 2 * Window <= SeqMod
BY SequenceAssumption

LEMMA NumIsSeq ==
  ASSUME NEW x \in Int
  PROVE  x % SeqMod \in Seqs
<1> DEFINE M == SeqMod
<1>1. M \in Nat \ {0}
  BY SizesAre
<1> HIDE DEF M
<1>2. x % M \in 0 .. (M - 1)
  BY <1>1, ModRange
<1> QED
  BY <1>2 DEF M, Seqs

LEMMA DistAhead ==
  ASSUME NEW x \in Int, NEW y \in Int, y <= x, x - y < SeqMod
  PROVE  SeqDistance(x % SeqMod, y % SeqMod) = x - y
<1> DEFINE a == x - y
<1>1. a \in 0 .. (SeqMod - 1) /\ SeqMod \in Nat \ {0}
  BY SizesAre
<1>2. ((x % SeqMod) - (y % SeqMod)) % SeqMod = a
  BY <1>1, ModMinus
<1> QED
  BY <1>2 DEF SeqDistance

LEMMA DistBehind ==
  ASSUME NEW x \in Int, NEW y \in Int, x < y, y - x <= SeqMod
  PROVE  SeqDistance(x % SeqMod, y % SeqMod) = x - y + SeqMod
<1> DEFINE a == x - y + SeqMod
<1>1. a \in 0 .. (SeqMod - 1) /\ SeqMod \in Nat \ {0}
  BY SizesAre
<1>2. ((x % SeqMod) - (y % SeqMod)) % SeqMod = a
  BY <1>1, ModMinus
<1> QED
  BY <1>2 DEF SeqDistance

LEMMA AfterNum ==
  ASSUME NEW x \in Int, NEW n \in Int
  PROVE  SeqAfter(x % SeqMod, n) = (x + n) % SeqMod
BY SizesAre, ModPlus DEF SeqAfter

\* Blocks of one window have numbers of their own.
LEMMA NumApart ==
  ASSUME NEW x \in Int, NEW y \in Int, x - y < SeqMod, y - x < SeqMod,
         x % SeqMod = y % SeqMod
  PROVE  x = y
BY SizesAre, ModApart

\* A number in the receiver's window is ahead of its base, when it is less than
\* a window either side of it.
LEMMA WindowAhead ==
  ASSUME NEW x \in Int, NEW y \in Int, x - y < Window, y - x <= Window
  PROVE  InWindow(x % SeqMod, y % SeqMod) <=> y <= x
<1>1. CASE y <= x
  <2>0. x - y < SeqMod
    BY SizesAre
  <2>1. SeqDistance(x % SeqMod, y % SeqMod) = x - y
    BY <1>1, <2>0, DistAhead
  <2> QED
    BY <1>1, <2>1 DEF InWindow
<1>2. CASE x < y
  <2>0. y - x <= SeqMod
    BY SizesAre
  <2>1. SeqDistance(x % SeqMod, y % SeqMod) = x - y + SeqMod
    BY <1>2, <2>0, DistBehind
  <2>2. ~ (x - y + SeqMod < Window)
    BY SizesAre
  <2> QED
    BY <1>2, <2>1, <2>2 DEF InWindow
<1> QED
  BY <1>1, <1>2

\* What an acknowledgement says of a block: it has all before its base, and of
\* the others those of its bits.
LEMMA ReceivedMeans ==
  ASSUME NEW ack, NEW x \in Int, NEW y \in Int, ack.base = y % SeqMod,
         x - y < Window, y - x <= Window
  PROVE  Received(ack, x % SeqMod) <=> (x < y \/ x - y \in ack.bits)
<1> DEFINE d == SeqDistance(x % SeqMod, ack.base)
<1>1. CASE y <= x
  <2>0. x - y < SeqMod
    BY SizesAre
  <2>1. d = x - y
    BY <1>1, <2>0, DistAhead
  <2>2. ~ (d >= Window)
    BY <2>1, SizesAre
  <2> QED
    BY <1>1, <2>1, <2>2 DEF Received
<1>2. CASE x < y
  <2>0. y - x <= SeqMod
    BY SizesAre
  <2>1. d = x - y + SeqMod
    BY <1>2, <2>0, DistBehind
  <2>2. d >= Window /\ d >= SeqMod \div 2
    BY <2>1, SizesAre
  <2> QED
    BY <1>2, <2>2 DEF Received
<1> QED
  BY <1>1, <1>2

LEMMA Smaller ==
  ASSUME NEW a \in Int, NEW b \in Int
  PROVE  /\ SmallerOf(a, b) \in {a, b}
         /\ SmallerOf(a, b) <= a /\ SmallerOf(a, b) <= b
BY DEF SmallerOf

-----------------------------------------------------------------------------
\* Sets in order.

\* A finite set has an enumeration by rising rank.
LEMMA OrderExists ==
  ASSUME NEW U, NEW rank \in [U -> Nat],
         \A p, q \in U : rank[p] = rank[q] => p = q
  PROVE  \A n \in Nat : \A S \in SUBSET U :
           IsFiniteSet(S) /\ Cardinality(S) = n =>
             \E seq \in [1 .. n -> S] :
               \A i, j \in DOMAIN seq : i < j => rank[seq[i]] < rank[seq[j]]
<1> DEFINE Ordered(n) ==
             \A S \in SUBSET U :
               IsFiniteSet(S) /\ Cardinality(S) = n =>
                 \E seq \in [1 .. n -> S] :
                   \A i, j \in DOMAIN seq : i < j => rank[seq[i]] < rank[seq[j]]
           T == {n \in Nat : Ordered(n)}
<1>1. 0 \in T
  <2>1. ASSUME NEW S \in SUBSET U, IsFiniteSet(S), Cardinality(S) = 0
        PROVE  \E seq \in [1 .. 0 -> S] :
                 \A i, j \in DOMAIN seq : i < j => rank[seq[i]] < rank[seq[j]]
    <3> DEFINE none == [i \in 1 .. 0 |-> 0]
    <3>1. none \in [1 .. 0 -> S]
      OBVIOUS
    <3>2. \A i, j \in DOMAIN none : i < j => rank[none[i]] < rank[none[j]]
      OBVIOUS
    <3> HIDE DEF none
    <3> QED
      BY <3>1, <3>2
  <2>2. Ordered(0)
    BY <2>1
  <2> QED
    BY <2>2
<1>2. ASSUME NEW n \in Nat, n \in T
      PROVE  n + 1 \in T
  <2>1. ASSUME NEW S \in SUBSET U, IsFiniteSet(S), Cardinality(S) = n + 1
        PROVE  \E seq \in [1 .. n + 1 -> S] :
                 \A i, j \in DOMAIN seq : i < j => rank[seq[i]] < rank[seq[j]]
    <3>1. S # {}
      BY <2>1, FS_EmptySet
    <3>2. {rank[q] : q \in S} \subseteq Nat /\ {rank[q] : q \in S} # {}
      BY <3>1
    <3>3. PICK least \in {rank[q] : q \in S} : \A y \in {rank[q] : q \in S} : least <= y
      BY <3>2, LeastNatural
    <3>4. PICK first \in S : rank[first] = least
      BY <3>3
    <3>5. \A q \in S : q # first => rank[first] < rank[q]
      BY <3>2, <3>3, <3>4
    <3>6. IsFiniteSet(S \ {first}) /\ Cardinality(S \ {first}) = n
      BY <2>1, <3>4, FS_RemoveElement, SMTT(30)
    <3>7. Ordered(n)
      BY <1>2
    <3>8. PICK rest \in [1 .. n -> S \ {first}] :
            \A i, j \in DOMAIN rest : i < j => rank[rest[i]] < rank[rest[j]]
      BY <3>6, <3>7
    <3> DEFINE seq == [i \in 1 .. n + 1 |-> IF i = 1 THEN first ELSE rest[i - 1]]
    <3>9. seq \in [1 .. n + 1 -> S]
      BY <3>4, <3>8
    <3>10. ASSUME NEW i \in 1 .. n + 1, NEW j \in 1 .. n + 1, i < j
           PROVE  rank[seq[i]] < rank[seq[j]]
      <4>1. j - 1 \in 1 .. n /\ seq[j] = rest[j - 1] /\ rest[j - 1] \in S \ {first}
        BY <3>8, <3>10
      <4>2. CASE i = 1
        BY <3>5, <4>1, <4>2
      <4>3. CASE i # 1
        <5>1. i - 1 \in 1 .. n /\ seq[i] = rest[i - 1] /\ i - 1 < j - 1
          BY <3>10, <4>3
        <5> QED
          BY <3>8, <4>1, <5>1
      <4> QED
        BY <4>2, <4>3
    <3>11. DOMAIN seq = 1 .. n + 1
      OBVIOUS
    <3> HIDE DEF seq
    <3> QED
      BY <3>9, <3>10, <3>11
  <2>2. Ordered(n + 1)
    BY <2>1
  <2> QED
    BY <2>2
<1> HIDE DEF T
<1>3. Nat \subseteq T
  BY <1>1, <1>2, SetInduction
<1> QED
  BY <1>3 DEF T

LEMMA InOrderType ==
  ASSUME NEW S, IsFiniteSet(S), NEW rank \in [S -> Nat],
         \A p, q \in S : rank[p] = rank[q] => p = q
  PROVE  /\ InOrder(S, rank) \in [1 .. Cardinality(S) -> S]
         /\ InOrder(S, rank) \in Seq(S)
         /\ Len(InOrder(S, rank)) = Cardinality(S)
<1>1. Cardinality(S) \in Nat
  BY FS_CardinalityType
<1>2. \E seq \in [1 .. Cardinality(S) -> S] :
        \A i, j \in DOMAIN seq : i < j => rank[seq[i]] < rank[seq[j]]
  BY <1>1, OrderExists
<1>3. InOrder(S, rank) \in [1 .. Cardinality(S) -> S]
  BY <1>2 DEF InOrder
<1> QED
  BY <1>1, <1>3
-----------------------------------------------------------------------------
(***************************************************************************)
(* The inductive invariant, for numbers and sets the module does not keep: *)
(*   tb, tn    the numbers of the sender's oldest block and of its next    *)
(*   rb        the number of the block the receiver waits for              *)
(*   start     the first unit of each block                                *)
(*   buf, held the blocks the receiver has whole, and in pieces            *)
(*   fb        the block of each frame on the air                          *)
(*   ab, ag    the base of each acknowledgement on its way, and the blocks *)
(*             past it that it says arrived                                *)
(***************************************************************************)

\* The blocks are cut one after another, none of them empty.
Cuts(tn, start) ==
  /\ start[0] = 1
  /\ \A x, y \in 0 .. tn : x < y => start[x] < start[y]

LenOf(start, x) == start[x + 1] - start[x]

\* The units from a up to b.
UnitsFrom(a, b) == [i \in 1 .. (b - a) |-> a + i - 1]

BodyOf(start, x) == UnitsFrom(start[x], start[x + 1])

\* The sequence numbers of blocks.
NumbersOf(X) == {x % SeqMod : x \in X}

\* The pieces a block of len units may be split in.
PiecesIn(len) ==
  {p \in [offset : Nat, len : Nat \ {0}, last : BOOLEAN] :
     /\ p.offset + p.len <= len
     /\ p.last => p.offset + p.len = len}

RecordOf(rec, at, len) ==
  /\ rec = [at |-> rec.at, len |-> rec.len, mode |-> rec.mode, acked |-> rec.acked,
            unknown |-> rec.unknown, parts |-> rec.parts, gone |-> rec.gone]
  /\ rec.at = at /\ rec.len = len /\ rec.mode \in Modes
  /\ rec.parts \in Seq(PiecesIn(len))
  /\ rec.gone \in SUBSET (1 .. Len(rec.parts))
  /\ rec.parts = <<>> => len <= Capacity[rec.mode]

SenderInv(s, h, tb, tn, start) ==
  /\ s = [master |-> s.master, queue |-> s.queue, txBase |-> s.txBase, txNext |-> s.txNext,
          records |-> s.records, silent |-> s.silent, slot |-> s.slot, up |-> s.up]
  /\ tb <= tn /\ tn <= tb + Window
  /\ s.txBase = tb % SeqMod /\ s.txNext = tn % SeqMod
  /\ DOMAIN s.records = NumbersOf(tb .. (tn - 1))
  /\ \A x \in tb .. (tn - 1) : RecordOf(s.records[x % SeqMod], start[x], LenOf(start, x))
  /\ Cuts(tn, start)
  /\ s.queue \in Nat /\ start[tn] + s.queue = h + 1

PiecesOf(piece, at, len) ==
  /\ DOMAIN piece.have \subseteq 0 .. (len - 1)
  /\ \A o \in DOMAIN piece.have : piece.have[o] = at + o
  /\ piece.total \in {None, len}

ReceiverInv(r, tn, rb, start, buf, held) ==
  /\ r = [rxBase |-> r.rxBase, rxBuf |-> r.rxBuf, pieces |-> r.pieces,
          maxSeen |-> r.maxSeen, owed |-> r.owed, delivered |-> r.delivered]
  /\ rb <= tn
  /\ r.rxBase = rb % SeqMod /\ r.maxSeen \in Seqs \cup {None}
  /\ r.delivered = UnitsFrom(1, start[rb])
  /\ buf \subseteq rb .. (tn - 1) /\ held \subseteq rb .. (tn - 1) /\ buf \cap held = {}
  /\ DOMAIN r.rxBuf = NumbersOf(buf)
  /\ \A x \in buf : r.rxBuf[x % SeqMod] = BodyOf(start, x)
  /\ DOMAIN r.pieces = NumbersOf(held)
  /\ \A x \in held : PiecesOf(r.pieces[x % SeqMod], start[x], LenOf(start, x))

Frames == [seq : Seqs, at : Nat, len : Nat, offset : Nat, piece : BOOLEAN, last : BOOLEAN]

FrameOf(f, x, start) ==
  /\ f.seq = x % SeqMod
  /\ f.len > 0
  /\ f.at = start[x] + f.offset
  /\ f.offset + f.len <= LenOf(start, x)
  /\ f.last => f.offset + f.len = LenOf(start, x)
  /\ ~f.piece => f.offset = 0 /\ f.last

\* A frame is heard while its block may still be in the window, or when the
\* window has moved on by no more than its length.
AirInv(frames, fb, tn, rb, start, buf) ==
  /\ frames \in Seq(Frames)
  /\ \A i \in 1 .. Len(frames) :
       /\ fb[i] < tn
       /\ FrameOf(frames[i], fb[i], start)
       /\ rb <= fb[i] + Window
       /\ \A x \in buf : x < fb[i] + Window
       /\ \A j \in 1 .. Len(frames) : i < j => fb[i] < fb[j] + Window

BitsOf(got, base) == {x - base : x \in got}

AckInv(ack, base, got, rb, buf) ==
  /\ base <= rb /\ ack.base = base % SeqMod
  /\ got \subseteq (base + 1) .. (base + Window - 1)
  /\ ack.bits = BitsOf(got, base)
  /\ \A x \in got : x < rb \/ x \in buf

AcksInv(sent, ab, ag, tb, rb, buf) ==
  /\ sent \in Seq([base : Seqs, bits : SUBSET (1 .. (Window - 1))])
  /\ \A k \in 1 .. Len(sent) :
       /\ tb <= ab[k]
       /\ AckInv(sent[k], ab[k], ag[k], rb, buf)
       /\ \A j \in 1 .. Len(sent) : k < j =>
            ab[k] <= ab[j] /\ \A x \in ag[k] : x < ab[j] \/ x \in ag[j]

\* What is recorded as acknowledged is with the receiver, and every answer to
\* come says so.
AckedInv(s, n, ab, ag, tb, tn, rb, buf) ==
  \A x \in tb .. (tn - 1) :
    s.records[x % SeqMod].acked =>
      /\ x < rb \/ x \in buf
      /\ \A k \in 1 .. n : x < ab[k] \/ x \in ag[k]

Inv(h, s, r, frames, sent, tb, tn, rb, start, buf, held, fb, ab, ag) ==
  /\ h \in 0 .. MaxUnits
  /\ tb <= rb /\ rb \notin buf
  /\ SenderInv(s, h, tb, tn, start)
  /\ ReceiverInv(r, tn, rb, start, buf, held)
  /\ AirInv(frames, fb, tn, rb, start, buf)
  /\ AcksInv(sent, ab, ag, tb, rb, buf)
  /\ AckedInv(s, Len(sent), ab, ag, tb, tn, rb, buf)

IInv ==
  \E tb, tn, rb \in Nat, start, fb, ab \in [Nat -> Nat], ag \in [Nat -> SUBSET Nat],
     buf, held \in SUBSET Nat :
    Inv(host, sender, receiver, air, acks, tb, tn, rb, start, buf, held, fb, ab, ag)
-----------------------------------------------------------------------------
\* The blocks.

LEMMA CutsGrow ==
  ASSUME NEW tn \in Nat, NEW start \in [Nat -> Nat], Cuts(tn, start)
  PROVE  /\ \A x \in 0 .. tn : start[x] >= 1
         /\ \A x, y \in 0 .. tn : x <= y => start[x] <= start[y]
         /\ \A x \in 0 .. (tn - 1) : start[x] < start[x + 1]
<1>1. ASSUME NEW x \in 0 .. tn, NEW y \in 0 .. tn, x <= y
      PROVE  start[x] <= start[y]
  <2>1. CASE x = y
    BY <2>1
  <2>2. CASE x < y
    BY <2>2 DEF Cuts
  <2> QED
    BY <1>1, <2>1, <2>2
<1>2. \A x \in 0 .. tn : start[x] >= 1
  <2>1. start[0] = 1 /\ 0 \in 0 .. tn
    BY DEF Cuts
  <2> QED
    BY <1>1, <2>1
<1>3. ASSUME NEW x \in 0 .. (tn - 1)
      PROVE  start[x] < start[x + 1]
  <2>1. x \in 0 .. tn /\ x + 1 \in 0 .. tn /\ x < x + 1
    OBVIOUS
  <2> QED
    BY <2>1 DEF Cuts
<1> QED
  BY <1>1, <1>2, <1>3

LEMMA LenIsPositive ==
  ASSUME NEW tn \in Nat, NEW start \in [Nat -> Nat], Cuts(tn, start), NEW x \in 0 .. (tn - 1)
  PROVE  /\ LenOf(start, x) \in Nat \ {0}
         /\ start[x] \in Nat \ {0} /\ start[x + 1] \in Nat
         /\ start[x] + LenOf(start, x) = start[x + 1]
<1>1. start[x] < start[x + 1] /\ start[x] >= 1
  BY CutsGrow
<1>2. start[x] \in Nat /\ start[x + 1] \in Nat
  OBVIOUS
<1> QED
  BY <1>1, <1>2 DEF LenOf

\* Blocks less than a window apart have numbers of their own.
LEMMA InOneWindow ==
  ASSUME NEW low \in Nat, NEW high \in Nat, high <= low + Window,
         NEW x \in low .. (high - 1), NEW y \in low .. (high - 1),
         x % SeqMod = y % SeqMod
  PROVE  x = y
<1>1. x - y < SeqMod /\ y - x < SeqMod
  BY SizesAre
<1> QED
  BY <1>1, NumApart

-----------------------------------------------------------------------------
\* The receiver hands over.

\* The recursive function of bytes of HandOver.
BytesUpTo(buffer, base, n, bytes) ==
  bytes = [k \in 0 .. n |->
             IF k = 0 THEN <<>> ELSE bytes[k - 1] \o buffer[SeqAfter(base, k - 1)]]

LEMMA BytesExist ==
  ASSUME NEW buffer, NEW base
  PROVE  \A n \in Nat : \E bytes : BytesUpTo(buffer, base, n, bytes)
<1> DEFINE T == {n \in Nat : \E bytes : BytesUpTo(buffer, base, n, bytes)}
<1>1. 0 \in T
  <2> DEFINE f == [k \in 0 .. 0 |-> <<>>]
  <2>1. f = [k \in 0 .. 0 |->
               IF k = 0 THEN <<>> ELSE f[k - 1] \o buffer[SeqAfter(base, k - 1)]]
    OBVIOUS
  <2> HIDE DEF f
  <2> QED
    BY <2>1 DEF BytesUpTo
<1>2. ASSUME NEW n \in Nat, n \in T
      PROVE  n + 1 \in T
  <2>1. PICK f : BytesUpTo(buffer, base, n, f)
    BY <1>2
  <2> DEFINE g == [k \in 0 .. n + 1 |->
                     IF k = 0 THEN <<>> ELSE f[k - 1] \o buffer[SeqAfter(base, k - 1)]]
  <2>2. \A k \in 0 .. n : g[k] = f[k]
    <3>1. ASSUME NEW k \in 0 .. n
          PROVE  g[k] = f[k]
      <4>1. f[k] = IF k = 0 THEN <<>> ELSE f[k - 1] \o buffer[SeqAfter(base, k - 1)]
        BY <2>1 DEF BytesUpTo
      <4> QED
        BY <4>1
    <3> QED
      BY <3>1
  <2>3. g = [k \in 0 .. n + 1 |->
               IF k = 0 THEN <<>> ELSE g[k - 1] \o buffer[SeqAfter(base, k - 1)]]
    <3>1. ASSUME NEW k \in 0 .. n + 1, k # 0
          PROVE  g[k - 1] = f[k - 1]
      <4>1. k - 1 \in 0 .. n
        BY <3>1
      <4> HIDE DEF g
      <4> QED
        BY <2>2, <4>1
    <3> QED
      BY <3>1
  <2> HIDE DEF g
  <2>4. BytesUpTo(buffer, base, n + 1, g)
    BY <2>3 DEF BytesUpTo
  <2> QED
    BY <2>4
<1> HIDE DEF T
<1>3. Nat \subseteq T
  BY <1>1, <1>2, SetInduction
<1> QED
  BY <1>3 DEF T

Joined(p, q) == p \o q

LEMMA BytesAt ==
  ASSUME NEW buffer, NEW base, NEW n \in Nat, NEW bytes, BytesUpTo(buffer, base, n, bytes),
         NEW k \in Nat, k < n
  PROVE  bytes[k + 1] = Joined(bytes[k], buffer[SeqAfter(base, k)])
<1> DEFINE g == [i \in 0 .. n |->
                   IF i = 0 THEN <<>> ELSE bytes[i - 1] \o buffer[SeqAfter(base, i - 1)]]
<1>1. bytes = g
  BY DEF BytesUpTo
<1>2. g[k + 1] = Joined(bytes[k], buffer[SeqAfter(base, k)])
  <2>1. k + 1 \in 0 .. n /\ k + 1 # 0 /\ (k + 1) - 1 = k
    OBVIOUS
  <2> QED
    BY <2>1 DEF Joined
<1> HIDE DEF g
<1>3. bytes[k + 1] = g[k + 1]
  BY <1>1
<1> QED
  BY <1>2, <1>3

LEMMA UnitsJoin ==
  ASSUME NEW a \in Nat, NEW b \in Nat, NEW c \in Nat, a <= b, b <= c
  PROVE  Joined(UnitsFrom(a, b), UnitsFrom(b, c)) = UnitsFrom(a, c)
<1> DEFINE p == [i \in 1 .. (b - a) |-> a + i - 1]
           q == [i \in 1 .. (c - b) |-> b + i - 1]
           w == [i \in 1 .. (c - a) |-> a + i - 1]
<1>1. p \in Seq(Int) /\ q \in Seq(Int) /\ w \in Seq(Int)
  OBVIOUS
<1>2. Len(p) = b - a /\ Len(q) = c - b /\ Len(w) = c - a
  OBVIOUS
<1>3. p \o q \in Seq(Int) /\ Len(p \o q) = c - a
  BY <1>1, <1>2
<1>4. ASSUME NEW i \in 1 .. (c - a)
      PROVE  (p \o q)[i] = w[i]
  <2>1. CASE i <= b - a
    <3>1. (p \o q)[i] = p[i] /\ i \in 1 .. (b - a)
      BY <1>1, <1>2, <2>1
    <3> QED
      BY <3>1
  <2>2. CASE ~ (i <= b - a)
    <3>1. (p \o q)[i] = q[i - (b - a)] /\ i - (b - a) \in 1 .. (c - b)
      BY <1>1, <1>2, <2>2
    <3> QED
      BY <3>1
  <2> QED
    BY <2>1, <2>2
<1>5. p = UnitsFrom(a, b) /\ q = UnitsFrom(b, c) /\ w = UnitsFrom(a, c)
  BY DEF UnitsFrom
<1> HIDE DEF p, q, w
<1>6. p \o q = w
  BY <1>1, <1>2, <1>3, <1>4, SeqEqual
<1> QED
  BY <1>5, <1>6 DEF Joined

\* A buffer has the bodies of n blocks from one on.
BodiesFrom(buffer, rb, n, start) ==
  \A i \in 0 .. (n - 1) : buffer[(rb + i) % SeqMod] = BodyOf(start, rb + i)

\* The bodies of blocks that follow one another, put together, are the units
\* of those blocks.
LEMMA BytesAre ==
  ASSUME NEW buffer, NEW rb \in Nat, NEW n \in Nat, NEW tn \in Nat,
         NEW start \in [Nat -> Nat], Cuts(tn, start), rb + n <= tn,
         BodiesFrom(buffer, rb, n, start),
         NEW bytes, BytesUpTo(buffer, rb % SeqMod, n, bytes)
  PROVE  bytes[n] = UnitsFrom(start[rb], start[rb + n])
<1> DEFINE Is(k) == bytes[k] = UnitsFrom(start[rb], start[rb + k])
           T == {k \in Nat : k <= n => Is(k)}
<1>1. 0 \in T
  <2>1. bytes[0] = <<>>
    BY DEF BytesUpTo
  <2>2. UnitsFrom(start[rb], start[rb]) = <<>>
    <3> DEFINE a == start[rb]
    <3>1. a \in Nat /\ a - a = 0
      OBVIOUS
    <3> HIDE DEF a
    <3>2. [i \in 1 .. (a - a) |-> a + i - 1] = <<>>
      BY <3>1
    <3>3. UnitsFrom(a, a) = <<>>
      BY <3>2 DEF UnitsFrom
    <3> QED
      BY <3>3 DEF a
  <2>3. Is(0)
    BY <2>1, <2>2
  <2> HIDE DEF Is
  <2> QED
    BY <2>3
<1>2. ASSUME NEW k \in Nat, k \in T, k + 1 <= n
      PROVE  Is(k + 1)
  <2> DEFINE a == start[rb]
             b == start[rb + k]
             c == start[rb + k + 1]
  <2>1. Is(k) /\ k <= n
    BY <1>2
  <2>2. bytes[k + 1] = Joined(bytes[k], buffer[SeqAfter(rb % SeqMod, k)])
    <3> DEFINE base == rb % SeqMod
    <3>1. BytesUpTo(buffer, base, n, bytes)
      OBVIOUS
    <3>2. k < n
      BY <1>2
    <3> HIDE DEF base
    <3>3. bytes[k + 1] = Joined(bytes[k], buffer[SeqAfter(base, k)])
      BY <3>1, <3>2, BytesAt
    <3> QED
      BY <3>3 DEF base
  <2>3. SeqAfter(rb % SeqMod, k) = (rb + k) % SeqMod
    BY AfterNum
  <2>4. buffer[(rb + k) % SeqMod] = BodyOf(start, rb + k)
    <3>1. k \in 0 .. (n - 1)
      BY <1>2
    <3> QED
      BY <3>1 DEF BodiesFrom
  <2>5. a \in Nat /\ b \in Nat /\ c \in Nat /\ a <= b /\ b <= c
    <3>1. rb \in 0 .. tn /\ rb + k \in 0 .. tn /\ rb <= rb + k /\ rb + k \in 0 .. (tn - 1)
      BY <1>2
    <3>2. /\ \A x \in 0 .. tn : start[x] >= 1
          /\ \A x, y \in 0 .. tn : x <= y => start[x] <= start[y]
          /\ \A x \in 0 .. (tn - 1) : start[x] < start[x + 1]
      BY CutsGrow
    <3>3. a \in Nat /\ b \in Nat /\ c \in Nat
      OBVIOUS
    <3> QED
      BY <3>1, <3>2, <3>3
  <2>6. BodyOf(start, rb + k) = UnitsFrom(b, c)
    BY DEF BodyOf
  <2>7. bytes[k] = UnitsFrom(a, b)
    BY <2>1
  <2> HIDE DEF a, b, c
  <2>8. Joined(UnitsFrom(a, b), UnitsFrom(b, c)) = UnitsFrom(a, c)
    BY <2>5, UnitsJoin
  <2>9. bytes[k + 1] = UnitsFrom(a, c)
    BY <2>2, <2>3, <2>4, <2>6, <2>7, <2>8
  <2>10. rb + (k + 1) = rb + k + 1
    OBVIOUS
  <2> QED
    BY <2>9, <2>10 DEF a, c
<1> HIDE DEF Is
<1>3. \A k \in Nat : k \in T => k + 1 \in T
  <2>1. ASSUME NEW k \in Nat, k \in T
        PROVE  k + 1 <= n => Is(k + 1)
    BY <1>2, <2>1
  <2> QED
    BY <2>1
<1> HIDE DEF T
<1>4. Nat \subseteq T
  BY <1>1, <1>3, SetInduction
<1>5. Is(n)
  BY <1>4 DEF T
<1> QED
  BY <1>5 DEF Is

\* Of some blocks those from one on.
Past(X, m) == {x \in X : x >= m}

\* The numbers of some blocks of a window without those of its first n.
LEMMA NumbersWithout ==
  ASSUME NEW rb \in Nat, NEW tn \in Nat, tn <= rb + Window, NEW n \in Nat, rb + n <= tn,
         NEW X, X \subseteq rb .. (tn - 1)
  PROVE  \A q : q \in NumbersOf(X) /\ q \notin NumbersOf(rb .. (rb + n - 1))
                 <=> q \in NumbersOf(Past(X, rb + n))
<1>1. ASSUME NEW x \in X, x >= rb + n
      PROVE  x % SeqMod \notin NumbersOf(rb .. (rb + n - 1))
  <2>1. SUFFICES ASSUME NEW y \in rb .. (rb + n - 1), x % SeqMod = y % SeqMod
                 PROVE  FALSE
    BY DEF NumbersOf
  <2>2. x \in rb .. (tn - 1) /\ y \in rb .. (tn - 1)
    OBVIOUS
  <2>3. x = y
    BY <2>1, <2>2, InOneWindow
  <2> QED
    BY <1>1, <2>3
<1>2. ASSUME NEW x \in X, x % SeqMod \notin NumbersOf(rb .. (rb + n - 1))
      PROVE  x >= rb + n
  <2>1. x \in Nat /\ x >= rb
    OBVIOUS
  <2>2. x \notin rb .. (rb + n - 1)
    BY <1>2 DEF NumbersOf
  <2> QED
    BY <2>1, <2>2
<1> QED
  BY <1>1, <1>2 DEF NumbersOf, Past

\* The run of blocks from the base that HandOver hands over.
LEMMA RunExists ==
  ASSUME NEW base, NEW S
  PROVE  \E n \in 0 .. Window :
           /\ \A i \in 0 .. (n - 1) : SeqAfter(base, i) \in S
           /\ n < Window => SeqAfter(base, n) \notin S
<1> DEFINE T == {m \in Nat : m >= Window \/ SeqAfter(base, m) \notin S}
<1>1. Window \in T
  BY SizesAre
<1>2. T \subseteq Nat /\ T # {}
  BY <1>1
<1>3. PICK n \in T : \A m \in T : n <= m
  BY <1>2, LeastNatural
<1>4. n \in 0 .. Window
  BY <1>1, <1>2, <1>3, SizesAre
<1>5. ASSUME NEW i \in 0 .. (n - 1)
      PROVE  SeqAfter(base, i) \in S
  <2>1. i \in Nat /\ ~ (n <= i)
    BY <1>4
  <2>2. i \notin T
    BY <1>3, <2>1
  <2> QED
    BY <2>1, <2>2
<1>6. n < Window => SeqAfter(base, n) \notin S
  BY <1>3, SizesAre
<1> QED
  BY <1>4, <1>5, <1>6

LEMMA HandOverKeeps ==
  ASSUME NEW tn \in Nat, NEW rb \in Nat, NEW start \in [Nat -> Nat], Cuts(tn, start),
         NEW buf, NEW held, NEW r, tn <= rb + Window,
         ReceiverInv(r, tn, rb, start, buf, held)
  PROVE  \E n \in 0 .. Window :
           /\ \A x \in rb .. (rb + n - 1) : x \in buf
           /\ rb + n \notin buf
           /\ rb + n <= tn
           /\ ReceiverInv(HandOver(r), tn, rb + n, start,
                          Past(buf, rb + n), Past(held, rb + n))
<1> DEFINE n == CHOOSE m \in 0 .. Window :
                  /\ \A i \in 0 .. (m - 1) : SeqAfter(r.rxBase, i) \in DOMAIN r.rxBuf
                  /\ m < Window => SeqAfter(r.rxBase, m) \notin DOMAIN r.rxBuf
           bytes[k \in 0 .. n] ==
             IF k = 0 THEN <<>> ELSE bytes[k - 1] \o r.rxBuf[SeqAfter(r.rxBase, k - 1)]
           done == {SeqAfter(r.rxBase, i) : i \in 0 .. (n - 1)}
           base == SeqAfter(r.rxBase, n)
           new == HandOver(r)
           left == Past(buf, rb + n)
           stay == Past(held, rb + n)
<1>1. new = [r EXCEPT !.rxBase = base,
                      !.rxBuf = Without(r.rxBuf, done),
                      !.pieces = Without(r.pieces, done),
                      !.delivered = r.delivered \o bytes[n],
                      !.maxSeen = IF @ # None /\ SeqDistance(@, base) >= Window THEN None ELSE @]
  BY DEF HandOver
<1>2. /\ n \in 0 .. Window
      /\ \A i \in 0 .. (n - 1) : SeqAfter(r.rxBase, i) \in DOMAIN r.rxBuf
      /\ n < Window => SeqAfter(r.rxBase, n) \notin DOMAIN r.rxBuf
  BY RunExists
<1>3. BytesUpTo(r.rxBuf, r.rxBase, n, bytes)
  <2>1. \E f : BytesUpTo(r.rxBuf, r.rxBase, n, f)
    <3>1. n \in Nat
      <4> HIDE DEF n, bytes
      <4> QED
        BY <1>2, SizesAre
    <3> HIDE DEF n, bytes
    <3> QED
      BY <3>1, BytesExist
  <2>2. \E f : f = [k \in 0 .. n |->
                      IF k = 0 THEN <<>> ELSE f[k - 1] \o r.rxBuf[SeqAfter(r.rxBase, k - 1)]]
    BY <2>1 DEF BytesUpTo
  <2>3. bytes = [k \in 0 .. n |->
                   IF k = 0 THEN <<>> ELSE bytes[k - 1] \o r.rxBuf[SeqAfter(r.rxBase, k - 1)]]
    BY <2>2
  <2> HIDE DEF bytes
  <2> QED
    BY <2>3 DEF BytesUpTo
<1> HIDE DEF n, bytes, new
<1>4. /\ r = [rxBase |-> r.rxBase, rxBuf |-> r.rxBuf, pieces |-> r.pieces,
              maxSeen |-> r.maxSeen, owed |-> r.owed, delivered |-> r.delivered]
      /\ rb <= tn
      /\ r.rxBase = rb % SeqMod /\ r.maxSeen \in Seqs \cup {None}
      /\ r.delivered = UnitsFrom(1, start[rb])
      /\ buf \subseteq rb .. (tn - 1) /\ held \subseteq rb .. (tn - 1) /\ buf \cap held = {}
      /\ DOMAIN r.rxBuf = NumbersOf(buf)
      /\ \A x \in buf : r.rxBuf[x % SeqMod] = BodyOf(start, x)
      /\ DOMAIN r.pieces = NumbersOf(held)
      /\ \A x \in held : PiecesOf(r.pieces[x % SeqMod], start[x], LenOf(start, x))
  BY DEF ReceiverInv
<1>23. rb <= tn /\ buf \subseteq rb .. (tn - 1) /\ held \subseteq rb .. (tn - 1)
         /\ buf \cap held = {}
  BY <1>4
<1>5. n \in Nat /\ n <= Window /\ Window \in Nat
  BY <1>2, SizesAre
<1>6. \A i \in 0 .. n : SeqAfter(r.rxBase, i) = (rb + i) % SeqMod
  BY <1>4, <1>5, AfterNum
<1>7. ASSUME NEW i \in 0 .. (n - 1)
      PROVE  rb + i \in buf
  <2>1. (rb + i) % SeqMod \in NumbersOf(buf)
    <3>1. i \in 0 .. n
      BY <1>5
    <3> QED
      BY <1>2, <1>4, <1>6, <3>1
  <2>2. PICK x \in buf : (rb + i) % SeqMod = x % SeqMod
    BY <2>1 DEF NumbersOf
  <2> DEFINE high == rb + Window
  <2>3. x \in rb .. (high - 1) /\ rb + i \in rb .. (high - 1) /\ high \in Nat /\ high <= rb + Window
    BY <1>5, <1>23
  <2> HIDE DEF high
  <2>4. x = rb + i
    BY <2>2, <2>3, InOneWindow
  <2> QED
    BY <2>4
<1>8. \A x \in rb .. (rb + n - 1) : x \in buf
  <2>1. ASSUME NEW x \in rb .. (rb + n - 1)
        PROVE  x \in buf
    <3>1. x - rb \in 0 .. (n - 1) /\ rb + (x - rb) = x
      BY <1>5
    <3> QED
      BY <1>7, <3>1
  <2> QED
    BY <2>1
<1>9. rb + n <= tn
  <2>1. CASE n = 0
    BY <1>4, <2>1
  <2>2. CASE n # 0
    <3>1. rb + n - 1 \in rb .. (rb + n - 1)
      BY <1>5, <2>2
    <3>2. rb + n - 1 \in rb .. (tn - 1)
      BY <1>4, <1>8, <3>1
    <3> QED
      BY <1>5, <3>2
  <2> QED
    BY <2>1, <2>2
<1>10. rb + n \notin buf
  <2>1. CASE n < Window
    <3>1. (rb + n) % SeqMod \notin NumbersOf(buf)
      BY <1>2, <1>4, <1>5, <1>6, <2>1
    <3> QED
      BY <3>1 DEF NumbersOf
  <2>2. CASE n = Window
    BY <1>4, <1>5, <2>2
  <2> QED
    BY <1>5, <2>1, <2>2
<1>11. done = NumbersOf(rb .. (rb + n - 1))
  <2>1. ASSUME NEW i \in 0 .. (n - 1)
        PROVE  SeqAfter(r.rxBase, i) \in NumbersOf(rb .. (rb + n - 1))
    <3>1. rb + i \in rb .. (rb + n - 1) /\ i \in 0 .. n
      BY <1>5
    <3> QED
      BY <1>6, <3>1 DEF NumbersOf
  <2>2. ASSUME NEW x \in rb .. (rb + n - 1)
        PROVE  x % SeqMod \in done
    <3>1. x - rb \in 0 .. (n - 1) /\ x - rb \in 0 .. n /\ rb + (x - rb) = x
      BY <1>5
    <3>2. SeqAfter(r.rxBase, x - rb) = x % SeqMod
      BY <1>6, <3>1
    <3> QED
      BY <3>1, <3>2
  <2> QED
    BY <2>1, <2>2 DEF NumbersOf
<1>12. base = (rb + n) % SeqMod
  BY <1>5, <1>6
<1> HIDE DEF done, base
<1>13. bytes[n] = UnitsFrom(start[rb], start[rb + n])
  <2>1. BodiesFrom(r.rxBuf, rb, n, start)
    BY <1>4, <1>7 DEF BodiesFrom
  <2>2. BytesUpTo(r.rxBuf, rb % SeqMod, n, bytes)
    BY <1>3, <1>4
  <2> QED
    BY <1>5, <1>9, <2>1, <2>2, BytesAre
<1>14. new.delivered = UnitsFrom(1, start[rb + n])
  <2> DEFINE a == start[rb]
             b == start[rb + n]
  <2>1. a \in Nat /\ b \in Nat /\ 1 <= a /\ a <= b
    <3>1. rb \in 0 .. tn /\ rb + n \in 0 .. tn /\ rb <= rb + n
      BY <1>5, <1>9, <1>23
    <3>2. /\ \A x \in 0 .. tn : start[x] >= 1
          /\ \A x, y \in 0 .. tn : x <= y => start[x] <= start[y]
          /\ \A x \in 0 .. (tn - 1) : start[x] < start[x + 1]
      BY CutsGrow
    <3> QED
      BY <1>5, <3>1, <3>2
  <2>2. new.delivered = Joined(UnitsFrom(1, a), UnitsFrom(a, b))
    BY <1>1, <1>4, <1>13 DEF Joined
  <2> HIDE DEF a, b
  <2>3. Joined(UnitsFrom(1, a), UnitsFrom(a, b)) = UnitsFrom(1, b)
    BY <2>1, UnitsJoin
  <2> QED
    BY <2>2, <2>3 DEF b
<1>15. DOMAIN new.rxBuf = NumbersOf(left)
  <2>1. DOMAIN new.rxBuf = DOMAIN r.rxBuf \ done
    BY <1>1, <1>4 DEF Without
  <2>2. \A q : q \in NumbersOf(buf) /\ q \notin NumbersOf(rb .. (rb + n - 1))
                <=> q \in NumbersOf(Past(buf, rb + n))
    BY <1>5, <1>9, <1>23, NumbersWithout
  <2> QED
    BY <1>4, <1>11, <2>1, <2>2
<1>16. DOMAIN new.pieces = NumbersOf(stay)
  <2>1. DOMAIN new.pieces = DOMAIN r.pieces \ done
    BY <1>1, <1>4 DEF Without
  <2>2. \A q : q \in NumbersOf(held) /\ q \notin NumbersOf(rb .. (rb + n - 1))
                <=> q \in NumbersOf(Past(held, rb + n))
    BY <1>5, <1>9, <1>23, NumbersWithout
  <2> QED
    BY <1>4, <1>11, <2>1, <2>2
<1>17. \A x \in left : new.rxBuf[x % SeqMod] = BodyOf(start, x)
  <2>1. \A q \in DOMAIN new.rxBuf : new.rxBuf[q] = r.rxBuf[q]
    BY <1>1, <1>4 DEF Without
  <2> QED
    BY <1>4, <1>15, <2>1 DEF NumbersOf, Past
<1>18. \A x \in stay : PiecesOf(new.pieces[x % SeqMod], start[x], LenOf(start, x))
  <2>1. \A q \in DOMAIN new.pieces : new.pieces[q] = r.pieces[q]
    BY <1>1, <1>4 DEF Without
  <2> QED
    BY <1>4, <1>16, <2>1 DEF NumbersOf, Past
<1>19. new.rxBase = (rb + n) % SeqMod /\ new.maxSeen \in Seqs \cup {None}
  BY <1>1, <1>4, <1>12
<1>20. left \subseteq (rb + n) .. (tn - 1) /\ stay \subseteq (rb + n) .. (tn - 1)
         /\ left \cap stay = {}
  <2>1. ASSUME NEW x, x \in buf \/ x \in held, x >= rb + n
        PROVE  x \in (rb + n) .. (tn - 1)
    <3>1. x \in rb .. (tn - 1)
      BY <1>23, <2>1
    <3> QED
      BY <1>5, <2>1, <3>1
  <2> QED
    BY <1>23, <2>1 DEF Past
<1>21. new = [rxBase |-> new.rxBase, rxBuf |-> new.rxBuf, pieces |-> new.pieces,
              maxSeen |-> new.maxSeen, owed |-> new.owed, delivered |-> new.delivered]
  BY <1>1, <1>4
<1> HIDE DEF left, stay
<1>22. ReceiverInv(new, tn, rb + n, start, left, stay)
  BY <1>9, <1>14, <1>15, <1>16, <1>17, <1>18, <1>19, <1>20, <1>21 DEF ReceiverInv
<1> QED
  BY <1>2, <1>8, <1>9, <1>10, <1>22 DEF new, left, stay
-----------------------------------------------------------------------------
\* The receiver takes a frame.

LEMMA NothingHeld ==
  ASSUME NEW at, NEW len
  PROVE  PiecesOf(NoPieces, at, len)
<1>1. NoPieces.have = [q \in {} |-> 0] /\ NoPieces.total = None
  BY DEF NoPieces, Empty
<1>2. DOMAIN NoPieces.have = {}
  BY <1>1
<1> QED
  BY <1>1, <1>2 DEF PiecesOf

\* What is placed is of the block.
LEMMA PlaceKeeps ==
  ASSUME NEW held, NEW f \in Frames, NEW x \in Nat, NEW start \in [Nat -> Nat],
         FrameOf(f, x, start), PiecesOf(held, start[x], LenOf(start, x))
  PROVE  PiecesOf(Place(held, f), start[x], LenOf(start, x))
<1> DEFINE placed == Place(held, f)
           at == start[x]
           len == LenOf(start, x)
           have == [o \in DOMAIN held.have \cup DOMAIN Units(f) |->
                      IF o \in DOMAIN Units(f) THEN Units(f)[o] ELSE held.have[o]]
<1>1. placed = [have |-> have, total |-> IF f.last THEN f.offset + f.len ELSE held.total]
  BY DEF Place
<1>2. placed.have = have /\ placed.total = IF f.last THEN f.offset + f.len ELSE held.total
  BY <1>1
<1>3. /\ f.len \in Nat /\ f.len > 0 /\ f.offset \in Nat /\ f.at = at + f.offset
      /\ f.offset + f.len <= len /\ (f.last => f.offset + f.len = len)
  BY DEF FrameOf, Frames
<1>4. at \in Nat /\ len \in Int
  BY DEF LenOf
<1> HIDE DEF placed, at, len
<1>5. Units(f) = [o \in f.offset .. (f.offset + f.len - 1) |-> f.at + (o - f.offset)]
  BY DEF Units
<1>6. DOMAIN Units(f) = f.offset .. (f.offset + f.len - 1)
  BY <1>5
<1>7. \A o \in DOMAIN Units(f) : o \in 0 .. (len - 1) /\ Units(f)[o] = at + o
  <2>1. ASSUME NEW o \in DOMAIN Units(f)
        PROVE  o \in 0 .. (len - 1) /\ Units(f)[o] = at + o
    <3>1. o \in f.offset .. (f.offset + f.len - 1)
      BY <1>6
    <3>2. Units(f)[o] = f.at + (o - f.offset)
      BY <1>5, <3>1
    <3> QED
      BY <1>3, <1>4, <3>1, <3>2
  <2> QED
    BY <2>1
<1>8. /\ DOMAIN held.have \subseteq 0 .. (len - 1)
      /\ \A o \in DOMAIN held.have : held.have[o] = at + o
      /\ held.total \in {None, len}
  BY DEF PiecesOf, at, len
<1>9. DOMAIN have \subseteq 0 .. (len - 1) /\ \A o \in DOMAIN have : have[o] = at + o
  BY <1>7, <1>8
<1> HIDE DEF have
<1>10. placed.total \in {None, len}
  BY <1>2, <1>3, <1>8
<1>11. PiecesOf(placed, at, len)
  BY <1>2, <1>9, <1>10 DEF PiecesOf
<1> QED
  BY <1>11 DEF placed, at, len

\* Pieces that make a block whole are its body.
LEMMA WholeIsBody ==
  ASSUME NEW held, NEW x \in Nat, NEW start \in [Nat -> Nat],
         PiecesOf(held, start[x], LenOf(start, x)), WholeOf(held), LenOf(start, x) \in Nat
  PROVE  Body(held) = BodyOf(start, x)
<1> DEFINE at == start[x]
           len == LenOf(start, x)
<1>1. /\ \A o \in DOMAIN held.have : held.have[o] = at + o
      /\ held.total = len
      /\ \A o \in 0 .. (len - 1) : o \in DOMAIN held.have
  BY DEF PiecesOf, WholeOf
<1>2. at \in Nat /\ len \in Nat /\ len = start[x + 1] - at
  BY DEF LenOf
<1> HIDE DEF at, len
<1>3. Body(held) = [i \in 1 .. len |-> IF i - 1 \in DOMAIN held.have THEN held.have[i - 1] ELSE 0]
  BY <1>1 DEF Body
<1>4. ASSUME NEW i \in 1 .. len
      PROVE  (IF i - 1 \in DOMAIN held.have THEN held.have[i - 1] ELSE 0) = at + i - 1
  <2>1. i - 1 \in 0 .. (len - 1)
    BY <1>2
  <2>2. held.have[i - 1] = at + (i - 1)
    BY <1>1, <2>1
  <2> QED
    BY <1>1, <1>2, <2>1, <2>2
<1>5. Body(held) = [i \in 1 .. len |-> at + i - 1]
  BY <1>3, <1>4
<1>6. BodyOf(start, x) = [i \in 1 .. (start[x + 1] - at) |-> at + i - 1]
  BY DEF BodyOf, UnitsFrom, at
<1> QED
  BY <1>2, <1>5, <1>6

\* A block without pieces is its body.
LEMMA FrameIsBody ==
  ASSUME NEW f \in Frames, NEW x \in Nat, NEW start \in [Nat -> Nat],
         FrameOf(f, x, start), ~f.piece
  PROVE  [i \in 1 .. f.len |-> f.at + i - 1] = BodyOf(start, x)
<1>1. /\ f.len \in Nat /\ f.offset = 0 /\ f.at = start[x] + f.offset
      /\ f.offset + f.len = LenOf(start, x)
  BY DEF FrameOf, Frames
<1>2. LenOf(start, x) = start[x + 1] - start[x] /\ start[x] \in Nat
  BY DEF LenOf
<1>3. f.at = start[x] /\ f.len = start[x + 1] - start[x]
  BY <1>1, <1>2
<1> QED
  BY <1>3 DEF BodyOf, UnitsFrom

LEMMA MiddleKeeps ==
  ASSUME NEW tn \in Nat, NEW rb \in Nat, NEW x \in Nat, NEW start \in [Nat -> Nat],
         Cuts(tn, start), NEW buf \in SUBSET Nat, NEW held \in SUBSET Nat, NEW r,
         NEW f \in Frames, tn <= rb + Window, rb <= x, x < tn,
         FrameOf(f, x, start), ReceiverInv(r, tn, rb, start, buf, held),
         NEW seen \in Seqs \cup {None}, NEW piece,
         PiecesOf(piece, start[x], LenOf(start, x)), NEW body,
         NEW whole \in BOOLEAN, whole /\ x \notin buf => body = BodyOf(start, x),
         ~whole => x \notin buf
  PROVE  LET next == [r EXCEPT !.maxSeen = seen]
             mid == IF whole
                    THEN [next EXCEPT !.rxBuf = IF f.seq \in DOMAIN r.rxBuf THEN @
                                                ELSE With(@, f.seq, body),
                                      !.pieces = Without(@, {f.seq})]
                    ELSE [next EXCEPT !.pieces = With(@, f.seq, piece)]
         IN  IF whole THEN ReceiverInv(mid, tn, rb, start, buf \cup {x}, held \ {x})
             ELSE ReceiverInv(mid, tn, rb, start, buf, held \cup {x})
<1> DEFINE next == [r EXCEPT !.maxSeen = seen]
           q == f.seq
<1>1. /\ r = [rxBase |-> r.rxBase, rxBuf |-> r.rxBuf, pieces |-> r.pieces,
              maxSeen |-> r.maxSeen, owed |-> r.owed, delivered |-> r.delivered]
      /\ rb <= tn
      /\ r.rxBase = rb % SeqMod
      /\ r.delivered = UnitsFrom(1, start[rb])
      /\ buf \subseteq rb .. (tn - 1) /\ held \subseteq rb .. (tn - 1) /\ buf \cap held = {}
      /\ DOMAIN r.rxBuf = NumbersOf(buf)
      /\ \A y \in buf : r.rxBuf[y % SeqMod] = BodyOf(start, y)
      /\ DOMAIN r.pieces = NumbersOf(held)
      /\ \A y \in held : PiecesOf(r.pieces[y % SeqMod], start[y], LenOf(start, y))
  BY DEF ReceiverInv
<1>2. q = x % SeqMod
  BY DEF FrameOf
<1>3. next = [rxBase |-> r.rxBase, rxBuf |-> r.rxBuf, pieces |-> r.pieces,
              maxSeen |-> seen, owed |-> r.owed, delivered |-> r.delivered]
  BY <1>1
<1>4. \A y \in rb .. (tn - 1) : y % SeqMod = q => y = x
  <2>1. x \in rb .. (tn - 1)
    OBVIOUS
  <2>2. ASSUME NEW y \in rb .. (tn - 1), y % SeqMod = q
        PROVE  y = x
    BY <1>2, <2>1, <2>2, InOneWindow
  <2> QED
    BY <2>2
<1>5. x \in rb .. (tn - 1)
  OBVIOUS
<1>6. q \in DOMAIN r.rxBuf <=> x \in buf
  BY <1>1, <1>2, <1>4 DEF NumbersOf
<1> HIDE DEF q
<1>7. CASE whole
  <2> DEFINE buffer == IF q \in DOMAIN r.rxBuf THEN r.rxBuf ELSE With(r.rxBuf, q, body)
             mid == [next EXCEPT !.rxBuf = IF q \in DOMAIN r.rxBuf THEN @
                                           ELSE With(@, q, body),
                                 !.pieces = Without(@, {q})]
  <2>1. mid = [rxBase |-> r.rxBase, rxBuf |-> buffer, pieces |-> Without(r.pieces, {q}),
               maxSeen |-> seen, owed |-> r.owed, delivered |-> r.delivered]
    <3> DEFINE more == IF q \in DOMAIN r.rxBuf THEN next.rxBuf ELSE With(next.rxBuf, q, body)
               less == Without(next.pieces, {q})
               rest == Without(r.pieces, {q})
    <3>1. mid = [next EXCEPT !.rxBuf = more, !.pieces = less]
      OBVIOUS
    <3>2. next.rxBuf = r.rxBuf /\ next.pieces = r.pieces
      BY <1>3
    <3>3. more = buffer /\ less = rest
      BY <3>2
    <3> HIDE DEF mid, next, more, less, buffer, rest
    <3>4. mid = [rxBase |-> r.rxBase, rxBuf |-> buffer, pieces |-> rest,
                 maxSeen |-> seen, owed |-> r.owed, delivered |-> r.delivered]
      BY <1>3, <3>1, <3>3
    <3> QED
      BY <3>4 DEF rest
  <2>2. DOMAIN buffer = NumbersOf(buf \cup {x})
    <3>1. CASE x \in buf
      BY <1>1, <1>6, <3>1
    <3>2. CASE x \notin buf
      <4>1. DOMAIN buffer = NumbersOf(buf) \cup {q}
        BY <1>1, <1>6, <3>2 DEF With
      <4> QED
        BY <1>2, <4>1 DEF NumbersOf
    <3> QED
      BY <3>1, <3>2
  <2>3. \A y \in buf \cup {x} : buffer[y % SeqMod] = BodyOf(start, y)
    <3>1. CASE x \in buf
      BY <1>1, <1>6, <3>1
    <3>2. CASE x \notin buf
      <4>1. \A y \in buf : y % SeqMod # q
        BY <1>1, <1>4, <3>2
      <4>2. buffer = With(r.rxBuf, q, body)
        BY <1>6, <3>2
      <4>3. \A y \in buf : buffer[y % SeqMod] = r.rxBuf[y % SeqMod]
        BY <1>1, <4>1, <4>2 DEF With, NumbersOf
      <4>4. buffer[q] = body
        BY <4>2 DEF With
      <4> QED
        BY <1>1, <1>2, <1>7, <3>2, <4>3, <4>4
    <3> QED
      BY <3>1, <3>2
  <2>4. DOMAIN Without(r.pieces, {q}) = NumbersOf(held \ {x})
    <3>1. DOMAIN Without(r.pieces, {q}) = NumbersOf(held) \ {q}
      BY <1>1 DEF Without
    <3>2. \A y \in held : y % SeqMod = q <=> y = x
      BY <1>1, <1>2, <1>4
    <3> QED
      BY <3>1, <3>2 DEF NumbersOf
  <2>5. \A y \in held \ {x} :
          PiecesOf(Without(r.pieces, {q})[y % SeqMod], start[y], LenOf(start, y))
    <3>1. \A p \in DOMAIN Without(r.pieces, {q}) : Without(r.pieces, {q})[p] = r.pieces[p]
      BY DEF Without
    <3>2. \A y \in held \ {x} : y % SeqMod \in DOMAIN Without(r.pieces, {q})
      BY <2>4 DEF NumbersOf
    <3> QED
      BY <1>1, <3>1, <3>2
  <2>6. /\ buf \cup {x} \subseteq rb .. (tn - 1) /\ held \ {x} \subseteq rb .. (tn - 1)
        /\ (buf \cup {x}) \cap (held \ {x}) = {}
    BY <1>1, <1>5
  <2> HIDE DEF buffer
  <2>7. ReceiverInv(mid, tn, rb, start, buf \cup {x}, held \ {x})
    <3> HIDE DEF mid
    <3>1. /\ mid.rxBase = r.rxBase /\ mid.rxBuf = buffer /\ mid.pieces = Without(r.pieces, {q})
          /\ mid.maxSeen = seen /\ mid.owed = r.owed /\ mid.delivered = r.delivered
      BY <2>1
    <3>2. mid = [rxBase |-> mid.rxBase, rxBuf |-> mid.rxBuf, pieces |-> mid.pieces,
                 maxSeen |-> mid.maxSeen, owed |-> mid.owed, delivered |-> mid.delivered]
      BY <2>1, <3>1
    <3> QED
      BY <1>1, <2>2, <2>3, <2>4, <2>5, <2>6, <3>1, <3>2 DEF ReceiverInv
  <2> QED
    BY <1>7, <2>7 DEF q
<1>8. CASE ~whole
  <2> DEFINE pieces == With(r.pieces, q, piece)
             mid == [next EXCEPT !.pieces = With(@, q, piece)]
  <2>1. mid = [rxBase |-> r.rxBase, rxBuf |-> r.rxBuf, pieces |-> pieces,
               maxSeen |-> seen, owed |-> r.owed, delivered |-> r.delivered]
    <3> DEFINE more == With(next.pieces, q, piece)
    <3>1. mid = [next EXCEPT !.pieces = more]
      OBVIOUS
    <3>2. next.pieces = r.pieces
      BY <1>3
    <3>3. more = pieces
      BY <3>2
    <3> HIDE DEF mid, next, more, pieces
    <3> QED
      BY <1>3, <3>1, <3>3
  <2>2. DOMAIN pieces = NumbersOf(held \cup {x})
    <3>1. DOMAIN pieces = NumbersOf(held) \cup {q}
      BY <1>1 DEF With
    <3> QED
      BY <1>2, <3>1 DEF NumbersOf
  <2>3. \A y \in held \cup {x} :
          PiecesOf(pieces[y % SeqMod], start[y], LenOf(start, y))
    <3>1. pieces[q] = piece
      BY DEF With
    <3>2. ASSUME NEW y \in held, y # x
          PROVE  pieces[y % SeqMod] = r.pieces[y % SeqMod]
      <4>1. y % SeqMod # q /\ y % SeqMod \in DOMAIN r.pieces
        BY <1>1, <1>4, <3>2 DEF NumbersOf
      <4> QED
        BY <4>1 DEF With
    <3> HIDE DEF pieces
    <3> QED
      BY <1>1, <1>2, <3>1, <3>2
  <2>4. /\ held \cup {x} \subseteq rb .. (tn - 1)
        /\ buf \cap (held \cup {x}) = {}
    BY <1>1, <1>5, <1>8
  <2> HIDE DEF pieces
  <2>5. ReceiverInv(mid, tn, rb, start, buf, held \cup {x})
    <3> HIDE DEF mid
    <3>1. /\ mid.rxBase = r.rxBase /\ mid.rxBuf = r.rxBuf /\ mid.pieces = pieces
          /\ mid.maxSeen = seen /\ mid.owed = r.owed /\ mid.delivered = r.delivered
      BY <2>1
    <3>2. mid = [rxBase |-> mid.rxBase, rxBuf |-> mid.rxBuf, pieces |-> mid.pieces,
                 maxSeen |-> mid.maxSeen, owed |-> mid.owed, delivered |-> mid.delivered]
      BY <2>1, <3>1
    <3> QED
      BY <1>1, <2>2, <2>3, <2>4, <3>1, <3>2 DEF ReceiverInv
  <2> QED
    BY <1>8, <2>5 DEF q
<1> QED
  BY <1>7, <1>8

\* What the receiver has after a frame, in terms of what it had.
Moved(rb, buf, x, rb1, buf1) ==
  /\ rb <= rb1 /\ rb1 \notin buf1
  /\ buf1 \subseteq buf \cup {x}
  /\ \A y \in Nat : y < rb \/ y \in buf => y < rb1 \/ y \in buf1
  /\ rb < rb1 => rb1 - 1 \in buf \cup {x}

LEMMA AcceptKeeps ==
  ASSUME NEW tn \in Nat, NEW rb \in Nat, NEW x \in Nat, NEW start \in [Nat -> Nat],
         Cuts(tn, start), NEW buf \in SUBSET Nat, NEW held \in SUBSET Nat, NEW r,
         NEW f \in Frames, tn <= rb + Window, rb <= x + Window, x < tn, rb \notin buf,
         FrameOf(f, x, start), ReceiverInv(r, tn, rb, start, buf, held)
  PROVE  \E rb1 \in Nat, buf1, held1 \in SUBSET Nat :
           /\ Moved(rb, buf, x, rb1, buf1)
           /\ ReceiverInv(Accept(r, f), tn, rb1, start, buf1, held1)
<1> DEFINE seen == IF r.maxSeen = None
                      \/ SeqDistance(f.seq, r.rxBase) > SeqDistance(r.maxSeen, r.rxBase)
                   THEN f.seq ELSE r.maxSeen
           had == IF f.seq \in DOMAIN r.pieces THEN r.pieces[f.seq] ELSE NoPieces
           piece == Place(had, f)
           known == f.seq \in DOMAIN r.rxBuf
           whole == ~f.piece \/ known \/ WholeOf(piece)
           body == IF f.piece THEN Body(piece) ELSE [i \in 1 .. f.len |-> f.at + i - 1]
           next == [r EXCEPT !.maxSeen = seen]
           mid == IF whole
                  THEN [next EXCEPT !.rxBuf = IF known THEN @ ELSE With(@, f.seq, body),
                                    !.pieces = Without(@, {f.seq})]
                  ELSE [next EXCEPT !.pieces = With(@, f.seq, piece)]
<1>1. Accept(r, f) = IF ~InWindow(f.seq, r.rxBase) THEN r ELSE HandOver(mid)
  BY DEF Accept
<1>2. /\ rb <= tn /\ r.rxBase = rb % SeqMod /\ r.maxSeen \in Seqs \cup {None}
      /\ buf \subseteq rb .. (tn - 1) /\ held \subseteq rb .. (tn - 1) /\ buf \cap held = {}
      /\ DOMAIN r.rxBuf = NumbersOf(buf)
      /\ DOMAIN r.pieces = NumbersOf(held)
      /\ \A y \in held : PiecesOf(r.pieces[y % SeqMod], start[y], LenOf(start, y))
  BY DEF ReceiverInv
<1>3. f.seq = x % SeqMod /\ f.seq \in Seqs /\ f.piece \in BOOLEAN
  BY DEF FrameOf, Frames
<1>4. InWindow(f.seq, r.rxBase) <=> rb <= x
  <2>1. x - rb < Window /\ rb - x <= Window
    BY SizesAre
  <2>2. InWindow(x % SeqMod, rb % SeqMod) <=> rb <= x
    BY <2>1, WindowAhead
  <2> QED
    BY <1>2, <1>3, <2>2
<1>5. CASE ~ (rb <= x)
  <2>1. Accept(r, f) = r
    BY <1>1, <1>4, <1>5
  <2>2. Moved(rb, buf, x, rb, buf)
    BY DEF Moved
  <2> QED
    BY <2>1, <2>2
<1>6. CASE rb <= x
  <2>1. Accept(r, f) = HandOver(mid)
    BY <1>1, <1>4, <1>6
  <2>2. \A y \in rb .. (tn - 1) : y % SeqMod = f.seq => y = x
    <3>1. x \in rb .. (tn - 1)
      BY <1>6
    <3>2. ASSUME NEW y \in rb .. (tn - 1), y % SeqMod = f.seq
          PROVE  y = x
      BY <1>3, <3>1, <3>2, InOneWindow
    <3> QED
      BY <3>2
  <2>3. known <=> x \in buf
    BY <1>2, <1>3, <2>2 DEF NumbersOf
  <2>4. PiecesOf(had, start[x], LenOf(start, x))
    <3>1. CASE f.seq \in DOMAIN r.pieces
      <4>1. x \in held
        BY <1>2, <2>2, <3>1 DEF NumbersOf
      <4> QED
        BY <1>2, <1>3, <3>1, <4>1
    <3>2. CASE f.seq \notin DOMAIN r.pieces
      BY <3>2, NothingHeld
    <3> QED
      BY <3>1, <3>2
  <2>5. PiecesOf(piece, start[x], LenOf(start, x))
    <3> HIDE DEF had
    <3> QED
      BY <2>4, PlaceKeeps
  <2>6. seen \in Seqs \cup {None}
    BY <1>2, <1>3
  <2>7. whole \in BOOLEAN
    OBVIOUS
  <2>8. whole /\ x \notin buf => body = BodyOf(start, x)
    <3>1. CASE f.piece
      <4>1. LenOf(start, x) \in Nat
        <5>1. x \in 0 .. (tn - 1)
          OBVIOUS
        <5>2. LenOf(start, x) \in Nat \ {0}
          BY <5>1, LenIsPositive
        <5> QED
          BY <5>2
      <4>2. body = Body(piece)
        BY <3>1
      <4>3. whole /\ x \notin buf => WholeOf(piece)
        BY <2>3, <3>1
      <4> HIDE DEF piece, body, whole
      <4>4. WholeOf(piece) => Body(piece) = BodyOf(start, x)
        BY <2>5, <4>1, WholeIsBody
      <4> QED
        BY <4>2, <4>3, <4>4
    <3>2. CASE ~f.piece
      <4>1. body = [i \in 1 .. f.len |-> f.at + i - 1]
        BY <3>2
      <4>2. [i \in 1 .. f.len |-> f.at + i - 1] = BodyOf(start, x)
        BY <3>2, FrameIsBody
      <4> HIDE DEF body
      <4>3. body = BodyOf(start, x)
        BY <4>1, <4>2
      <4> QED
        BY <4>3
    <3> QED
      BY <3>1, <3>2
  <2>9. ~whole => x \notin buf
    BY <2>3
  <2>10. IF whole THEN ReceiverInv(mid, tn, rb, start, buf \cup {x}, held \ {x})
         ELSE ReceiverInv(mid, tn, rb, start, buf, held \cup {x})
    <3> HIDE DEF seen, piece, body, whole
    <3> QED
      BY <1>6, <2>5, <2>6, <2>7, <2>8, <2>9, MiddleKeeps
  <2> HIDE DEF mid, whole
  <2>11. PICK buf2 \in SUBSET Nat, held2 \in SUBSET Nat :
           /\ ReceiverInv(mid, tn, rb, start, buf2, held2)
           /\ buf \subseteq buf2 /\ buf2 \subseteq buf \cup {x}
    <3>1. CASE whole
      <4>1. buf \cup {x} \in SUBSET Nat /\ held \ {x} \in SUBSET Nat
        OBVIOUS
      <4> QED
        BY <2>10, <3>1, <4>1
    <3>2. CASE ~whole
      <4>1. held \cup {x} \in SUBSET Nat
        OBVIOUS
      <4> QED
        BY <2>10, <3>2, <4>1
    <3> QED
      BY <3>1, <3>2
  <2>12. PICK n \in 0 .. Window :
           /\ \A y \in rb .. (rb + n - 1) : y \in buf2
           /\ rb + n \notin buf2
           /\ rb + n <= tn
           /\ ReceiverInv(HandOver(mid), tn, rb + n, start, Past(buf2, rb + n), Past(held2, rb + n))
    BY <2>11, HandOverKeeps
  <2>13. n \in Nat
    BY <2>12, SizesAre
  <2>14. Moved(rb, buf, x, rb + n, Past(buf2, rb + n))
    <3>1. rb <= rb + n /\ rb + n \notin Past(buf2, rb + n)
      BY <2>12, <2>13 DEF Past
    <3>2. Past(buf2, rb + n) \subseteq buf \cup {x}
      BY <2>11 DEF Past
    <3>3. ASSUME NEW y \in Nat, y < rb \/ y \in buf
          PROVE  y < rb + n \/ y \in Past(buf2, rb + n)
      <4>1. CASE y < rb + n
        BY <4>1
      <4>2. CASE y >= rb + n
        <5>1. y \in buf2
          BY <2>11, <2>13, <3>3, <4>2
        <5> QED
          BY <4>2, <5>1 DEF Past
      <4> QED
        BY <2>13, <4>1, <4>2
    <3>4. rb < rb + n => rb + n - 1 \in buf \cup {x}
      <4>1. rb < rb + n => rb + n - 1 \in rb .. (rb + n - 1)
        BY <2>13
      <4> QED
        BY <2>11, <2>12, <4>1
    <3> QED
      BY <3>1, <3>2, <3>3, <3>4 DEF Moved
  <2>15. rb + n \in Nat /\ Past(buf2, rb + n) \in SUBSET Nat /\ Past(held2, rb + n) \in SUBSET Nat
    <3>1. Past(buf2, rb + n) \subseteq buf2 /\ Past(held2, rb + n) \subseteq held2
      BY DEF Past
    <3>2. rb + n \in Nat
      BY <2>13
    <3>3. buf2 \subseteq Nat /\ held2 \subseteq Nat
      OBVIOUS
    <3>4. Past(buf2, rb + n) \in SUBSET Nat /\ Past(held2, rb + n) \in SUBSET Nat
      BY <3>1, <3>3
    <3> QED
      BY <3>2, <3>4
  <2> QED
    BY <2>1, <2>12, <2>14, <2>15
<1> QED
  BY <1>5, <1>6
-----------------------------------------------------------------------------
\* The sender reads an answer.

\* How far a set runs without a gap.
LEMMA FirstGap ==
  ASSUME NEW F \in Nat, NEW A
  PROVE  \E n \in 0 .. F :
           /\ \A i \in 0 .. (n - 1) : i \in A
           /\ n < F => n \notin A
<1> DEFINE T == {m \in Nat : m >= F \/ m \notin A}
<1>1. F \in T
  OBVIOUS
<1>2. T \subseteq Nat /\ T # {}
  BY <1>1
<1>3. PICK n \in T : \A m \in T : n <= m
  BY <1>2, LeastNatural
<1>4. n \in 0 .. F
  BY <1>1, <1>2, <1>3
<1>5. ASSUME NEW i \in 0 .. (n - 1)
      PROVE  i \in A
  <2>1. i \in Nat /\ ~ (n <= i)
    BY <1>4
  <2>2. i \notin T
    BY <1>3, <2>1
  <2> QED
    BY <2>1, <2>2
<1>6. n < F => n \notin A
  BY <1>3
<1> QED
  BY <1>4, <1>5, <1>6

LEMMA FlightIs ==
  ASSUME NEW s, NEW h, NEW tb \in Nat, NEW tn \in Nat, NEW start,
         SenderInv(s, h, tb, tn, start)
  PROVE  /\ SeqDistance(s.txNext, s.txBase) = tn - tb
         /\ tb <= tn /\ tn - tb <= Window /\ tn - tb \in Nat
         /\ \A i \in Int : SeqAfter(s.txBase, i) = (tb + i) % SeqMod
<1>1. tb <= tn /\ tn <= tb + Window /\ s.txBase = tb % SeqMod /\ s.txNext = tn % SeqMod
  BY DEF SenderInv
<1>2. tn - tb < SeqMod /\ tn - tb <= Window /\ tn - tb \in Nat
  BY <1>1, SizesAre
<1>3. SeqDistance(tn % SeqMod, tb % SeqMod) = tn - tb
  BY <1>1, <1>2, DistAhead
<1>4. \A i \in Int : SeqAfter(tb % SeqMod, i) = (tb + i) % SeqMod
  BY AfterNum
<1> QED
  BY <1>1, <1>2, <1>3, <1>4

LEMMA AnsweredKeeps ==
  ASSUME NEW rec, NEW at, NEW len, NEW got, RecordOf(rec, at, len)
  PROVE  RecordOf(Answered(rec, got), at, len)
<1> DEFINE new == Answered(rec, got)
           acked == rec.acked \/ got
<1>1. rec = [at |-> rec.at, len |-> rec.len, mode |-> rec.mode, acked |-> rec.acked,
             unknown |-> rec.unknown, parts |-> rec.parts, gone |-> rec.gone]
  BY DEF RecordOf
<1>2. new = [rec EXCEPT !.unknown = FALSE, !.acked = acked]
  BY DEF Answered
<1> HIDE DEF acked
<1>3. new = [at |-> rec.at, len |-> rec.len, mode |-> rec.mode, acked |-> acked,
             unknown |-> FALSE, parts |-> rec.parts, gone |-> rec.gone]
  <2> HIDE DEF new
  <2> QED
    BY <1>1, <1>2
<1> HIDE DEF new
<1>4. /\ new.at = rec.at /\ new.len = rec.len /\ new.mode = rec.mode /\ new.parts = rec.parts
      /\ new.gone = rec.gone /\ new.acked = acked
  BY <1>3
<1>5. new = [at |-> new.at, len |-> new.len, mode |-> new.mode, acked |-> new.acked,
             unknown |-> new.unknown, parts |-> new.parts, gone |-> new.gone]
  BY <1>3
<1>6. RecordOf(new, at, len)
  BY <1>4, <1>5 DEF RecordOf
<1> QED
  BY <1>6 DEF new

LEMMA AnsweredMeans ==
  ASSUME NEW rec, NEW at, NEW len, NEW got, RecordOf(rec, at, len)
  PROVE  Answered(rec, got).acked = (rec.acked \/ got)
<1> DEFINE acked == rec.acked \/ got
<1>1. rec = [at |-> rec.at, len |-> rec.len, mode |-> rec.mode, acked |-> rec.acked,
             unknown |-> rec.unknown, parts |-> rec.parts, gone |-> rec.gone]
  BY DEF RecordOf
<1>2. Answered(rec, got) = [rec EXCEPT !.unknown = FALSE, !.acked = acked]
  BY DEF Answered
<1> HIDE DEF acked
<1>3. Answered(rec, got).acked = acked
  BY <1>1, <1>2
<1> QED
  BY <1>3 DEF acked

LEMMA TakeAckKeeps ==
  ASSUME NEW s, NEW h, NEW tb \in Nat, NEW tn \in Nat, NEW rb \in Nat,
         NEW start \in [Nat -> Nat], SenderInv(s, h, tb, tn, start),
         NEW buf \in SUBSET Nat, rb \notin buf, tb <= rb, rb <= tn,
         NEW sent, NEW ab \in [Nat -> Nat], NEW ag \in [Nat -> SUBSET Nat],
         NEW k0 \in Nat, k0 = Len(sent), k0 >= 1,
         AcksInv(sent, ab, ag, tb, rb, buf),
         AckedInv(s, k0, ab, ag, tb, tn, rb, buf)
  PROVE  \E tb1 \in Nat :
           /\ tb <= tb1 /\ tb1 <= rb
           /\ \A k \in 1 .. k0 : tb1 <= ab[k]
           /\ SenderInv(TakeAck(s, sent[1]), h, tb1, tn, start)
           /\ AckedInv(TakeAck(s, sent[1]), k0, ab, ag, tb1, tn, rb, buf)
<1> DEFINE ack == sent[1]
           records == [q \in DOMAIN s.records |-> Answered(s.records[q], Received(ack, q))]
           flight == SeqDistance(s.txNext, s.txBase)
           n == CHOOSE m \in 0 .. flight :
                  /\ \A i \in 0 .. (m - 1) : records[SeqAfter(s.txBase, i)].acked
                  /\ m < flight => ~records[SeqAfter(s.txBase, m)].acked
           done == {SeqAfter(s.txBase, i) : i \in 0 .. (n - 1)}
           new == TakeAck(s, ack)
           rcv(k, x) == x < ab[k] \/ x \in ag[k]
           got(x) == x < rb \/ x \in buf
<1>1. new = [s EXCEPT !.txBase = SeqAfter(s.txBase, n), !.records = Without(records, done)]
  BY DEF TakeAck
<1>2. /\ flight = tn - tb
      /\ tb <= tn /\ tn - tb <= Window /\ tn - tb \in Nat
      /\ \A i \in Int : SeqAfter(s.txBase, i) = (tb + i) % SeqMod
  BY FlightIs
<1>3. /\ n \in 0 .. flight
      /\ \A i \in 0 .. (n - 1) : records[SeqAfter(s.txBase, i)].acked
      /\ n < flight => ~records[SeqAfter(s.txBase, n)].acked
  <2> DEFINE A == {i \in Nat : records[SeqAfter(s.txBase, i)].acked}
  <2> HIDE DEF flight, records
  <2>1. flight \in Nat
    BY <1>2
  <2>2. \E m \in 0 .. flight :
          /\ \A i \in 0 .. (m - 1) : i \in A
          /\ m < flight => m \notin A
    BY <2>1, FirstGap, ZenonT(40)
  <2>3. \A i \in Nat : i \in A <=> records[SeqAfter(s.txBase, i)].acked
    OBVIOUS
  <2> HIDE DEF A
  <2>4. \E m \in 0 .. flight :
          /\ \A i \in 0 .. (m - 1) : records[SeqAfter(s.txBase, i)].acked
          /\ m < flight => ~records[SeqAfter(s.txBase, m)].acked
    <3>1. PICK m \in 0 .. flight :
            /\ \A i \in 0 .. (m - 1) : i \in A
            /\ m < flight => m \notin A
      BY <2>2
    <3>2. m \in Nat /\ \A i \in 0 .. (m - 1) : i \in Nat
      BY <2>1
    <3>3. \A i \in 0 .. (m - 1) : records[SeqAfter(s.txBase, i)].acked
      BY <2>3, <3>1, <3>2
    <3>4. m < flight => ~records[SeqAfter(s.txBase, m)].acked
      BY <2>3, <3>1, <3>2
    <3> QED
      BY <3>3, <3>4
  <2> QED
    BY <2>4
<1>4. /\ s = [master |-> s.master, queue |-> s.queue, txBase |-> s.txBase,
              txNext |-> s.txNext, records |-> s.records, silent |-> s.silent,
              slot |-> s.slot, up |-> s.up]
      /\ tn <= tb + Window
      /\ s.txBase = tb % SeqMod /\ s.txNext = tn % SeqMod
      /\ DOMAIN s.records = NumbersOf(tb .. (tn - 1))
      /\ \A x \in tb .. (tn - 1) : RecordOf(s.records[x % SeqMod], start[x], LenOf(start, x))
      /\ Cuts(tn, start)
      /\ s.queue \in Nat /\ start[tn] + s.queue = h + 1
  BY DEF SenderInv
<1>5. \A x \in tb .. (tn - 1) : x % SeqMod \in DOMAIN s.records
  BY <1>4 DEF NumbersOf
<1>6. 1 \in 1 .. Len(sent) /\ 1 \in 1 .. k0
  OBVIOUS
<1>7. /\ tb <= ab[1] /\ ab[1] <= rb /\ ab[1] \in Nat
      /\ ack.base = ab[1] % SeqMod
      /\ ag[1] \subseteq (ab[1] + 1) .. (ab[1] + Window - 1)
      /\ ack.bits = {x - ab[1] : x \in ag[1]}
      /\ \A x \in ag[1] : x < rb \/ x \in buf
  BY <1>6 DEF AcksInv, AckInv, BitsOf
<1>8. ASSUME NEW x \in tb .. (tn - 1), Received(ack, x % SeqMod)
      PROVE  rcv(1, x)
  <2> DEFINE b == ab[1]
  <2>1. x - b < Window /\ b - x <= Window /\ b \in Int /\ x \in Int
    <3>1. tb <= b /\ b <= rb /\ b \in Nat
      BY <1>7
    <3>2. tn - tb <= Window /\ Window \in Nat /\ rb <= tn
      BY <1>2, SizesAre
    <3>3. x \in Int /\ tb <= x /\ x < tn
      OBVIOUS
    <3> DEFINE W == Window
    <3> HIDE DEF b, W
    <3> USE <3>1, <3>2, <3>3 DEF W
    <3>4. x - b < Window
      OBVIOUS
    <3>5. b - x <= Window
      OBVIOUS
    <3> QED
      BY <3>4, <3>5
  <2>2. ack.base = b % SeqMod
    BY <1>7
  <2> HIDE DEF b, ack
  <2>3. x < b \/ x - b \in ack.bits
    BY <1>8, <2>1, <2>2, ReceivedMeans
  <2>4. CASE x - b \in ack.bits
    <3>1. PICK y \in ag[1] : x - b = y - b
      BY <1>7, <2>4 DEF b
    <3>2. y \in Int
      BY <1>7
    <3>3. y = x
      BY <2>1, <3>1, <3>2
    <3> QED
      BY <3>1, <3>3
  <2> QED
    BY <2>3, <2>4 DEF b
<1>9. ASSUME NEW x \in tb .. (tn - 1), rcv(1, x)
      PROVE  got(x) /\ \A k \in 1 .. k0 : rcv(k, x)
  <2>1. got(x)
    BY <1>7, <1>9
  <2>2. ASSUME NEW k \in 1 .. k0
        PROVE  rcv(k, x)
    <3>1. CASE k = 1
      BY <1>9, <3>1
    <3>2. CASE k # 1
      <4>1. 1 < k /\ k \in 1 .. Len(sent)
        BY <3>2
      <4>2. ab[1] <= ab[k] /\ \A y \in ag[1] : y < ab[k] \/ y \in ag[k]
        BY <1>6, <4>1 DEF AcksInv
      <4>3. ab[k] \in Nat
        BY <4>1
      <4> QED
        BY <1>7, <1>9, <4>2, <4>3, SMTT(30)
    <3> QED
      BY <3>1, <3>2
  <2> QED
    BY <2>1, <2>2
<1>10. ASSUME NEW x \in tb .. (tn - 1), records[x % SeqMod].acked
       PROVE  got(x) /\ \A k \in 1 .. k0 : rcv(k, x)
  <2>1. records[x % SeqMod] = Answered(s.records[x % SeqMod], Received(ack, x % SeqMod))
    BY <1>5
  <2>2. RecordOf(s.records[x % SeqMod], start[x], LenOf(start, x))
    BY <1>4
  <2>3. Answered(s.records[x % SeqMod], Received(ack, x % SeqMod)).acked
          => (s.records[x % SeqMod].acked \/ Received(ack, x % SeqMod))
    <3> DEFINE rec == s.records[x % SeqMod]
               heard == Received(ack, x % SeqMod)
               at == start[x]
               len == LenOf(start, x)
    <3>1. RecordOf(rec, at, len)
      BY <2>2
    <3> HIDE DEF rec, heard, at, len
    <3>2. Answered(rec, heard).acked = (rec.acked \/ heard)
      BY <3>1, AnsweredMeans
    <3> QED
      BY <3>2 DEF rec, heard
  <2>4. CASE s.records[x % SeqMod].acked
    BY <2>4 DEF AckedInv
  <2>5. CASE Received(ack, x % SeqMod)
    BY <1>8, <1>9, <2>5
  <2> QED
    BY <1>10, <2>1, <2>3, <2>4, <2>5
<1>11. ASSUME NEW x \in tb .. (tn - 1)
       PROVE  RecordOf(records[x % SeqMod], start[x], LenOf(start, x))
  <2>1. records[x % SeqMod] = Answered(s.records[x % SeqMod], Received(ack, x % SeqMod))
    BY <1>5
  <2>2. RecordOf(s.records[x % SeqMod], start[x], LenOf(start, x))
    BY <1>4
  <2>3. RecordOf(Answered(s.records[x % SeqMod], Received(ack, x % SeqMod)),
                 start[x], LenOf(start, x))
    BY <2>2, AnsweredKeeps
  <2> QED
    BY <2>1, <2>3
<1>12. DOMAIN records = NumbersOf(tb .. (tn - 1))
  BY <1>4
<1> HIDE DEF records, flight, n, new, ack
<1>13. n \in Nat /\ tb + n <= tn
  BY <1>2, <1>3
<1>14. ASSUME NEW x \in tb .. (tb + n - 1)
       PROVE  got(x) /\ \A k \in 1 .. k0 : rcv(k, x)
  <2>1. x - tb \in 0 .. (n - 1) /\ x - tb \in Int /\ tb + (x - tb) = x /\ x \in tb .. (tn - 1)
    BY <1>13
  <2>2. SeqAfter(s.txBase, x - tb) = x % SeqMod
    BY <1>2, <2>1
  <2>3. records[x % SeqMod].acked
    BY <1>3, <2>1, <2>2
  <2> QED
    BY <1>10, <2>1, <2>3
<1>15. tb + n <= rb
  <2>1. CASE rb < tb + n
    <3>1. rb \in tb .. (tb + n - 1)
      BY <1>13, <2>1
    <3>2. got(rb)
      BY <1>14, <3>1
    <3> QED
      BY <3>2
  <2> QED
    BY <1>13, <2>1
<1>16. ASSUME NEW k \in 1 .. k0
       PROVE  tb + n <= ab[k]
  <2>1. tb <= ab[k] /\ ag[k] \subseteq (ab[k] + 1) .. (ab[k] + Window - 1) /\ ab[k] \in Nat
    <3>1. k \in 1 .. Len(sent)
      OBVIOUS
    <3> QED
      BY <3>1 DEF AcksInv, AckInv
  <2>2. CASE ab[k] < tb + n
    <3>1. ab[k] \in tb .. (tb + n - 1)
      BY <1>13, <2>1, <2>2, SMTT(30)
    <3>2. rcv(k, ab[k])
      BY <1>14, <3>1
    <3> DEFINE c == ab[k]
               g == ag[k]
    <3>3. g \subseteq (c + 1) .. (c + Window - 1) /\ c \in Nat
      BY <2>1
    <3>4. c < c \/ c \in g
      BY <3>2
    <3> HIDE DEF c, g
    <3>5. c \notin (c + 1) .. (c + Window - 1) /\ ~ (c < c)
      BY <3>3
    <3> QED
      BY <3>3, <3>4, <3>5
  <2> QED
    BY <1>13, <2>1, <2>2, SMTT(30)
<1>17. \A q : q \in done <=> q \in NumbersOf(tb .. (tb + n - 1))
  <2>1. ASSUME NEW i \in 0 .. (n - 1)
        PROVE  SeqAfter(s.txBase, i) \in NumbersOf(tb .. (tb + n - 1))
    <3>1. tb + i \in tb .. (tb + n - 1) /\ i \in Int
      BY <1>13
    <3> QED
      BY <1>2, <3>1 DEF NumbersOf
  <2>2. ASSUME NEW x \in tb .. (tb + n - 1)
        PROVE  x % SeqMod \in done
    <3>1. x - tb \in 0 .. (n - 1) /\ x - tb \in Int /\ tb + (x - tb) = x
      BY <1>13
    <3>2. SeqAfter(s.txBase, x - tb) = x % SeqMod
      BY <1>2, <3>1
    <3> QED
      BY <3>1, <3>2
  <2> QED
    BY <2>1, <2>2 DEF NumbersOf
<1>18. \A q : q \in NumbersOf(tb .. (tn - 1)) /\ q \notin NumbersOf(tb .. (tb + n - 1))
              <=> q \in NumbersOf((tb + n) .. (tn - 1))
  <2> DEFINE X == tb .. (tn - 1)
  <2>1. X \subseteq tb .. (tn - 1)
    OBVIOUS
  <2> HIDE DEF X
  <2>2. \A q : q \in NumbersOf(X) /\ q \notin NumbersOf(tb .. (tb + n - 1))
               <=> q \in NumbersOf(Past(X, tb + n))
    BY <1>4, <1>13, <2>1, NumbersWithout
  <2>3. Past(X, tb + n) = (tb + n) .. (tn - 1)
    <3> DEFINE m == tb + n
    <3>1. m \in Nat /\ tb <= m
      BY <1>13
    <3> HIDE DEF m
    <3>2. ASSUME NEW x \in Past(X, m)
          PROVE  x \in m .. (tn - 1)
      BY <3>1 DEF Past, X
    <3>3. ASSUME NEW x \in m .. (tn - 1)
          PROVE  x \in Past(X, m)
      BY <3>1 DEF Past, X
    <3> QED
      BY <3>2, <3>3 DEF m
  <2> QED
    BY <2>2, <2>3 DEF X
<1> HIDE DEF done
<1>19. new = [master |-> s.master, queue |-> s.queue, txBase |-> (tb + n) % SeqMod,
              txNext |-> s.txNext, records |-> Without(records, done),
              silent |-> s.silent, slot |-> s.slot, up |-> s.up]
  <2> DEFINE rest == Without(records, done)
             base == SeqAfter(s.txBase, n)
  <2>1. base = (tb + n) % SeqMod
    BY <1>2, <1>13
  <2>2. new = [s EXCEPT !.txBase = base, !.records = rest]
    BY <1>1
  <2> HIDE DEF rest, base
  <2>3. new = [master |-> s.master, queue |-> s.queue, txBase |-> base,
               txNext |-> s.txNext, records |-> rest,
               silent |-> s.silent, slot |-> s.slot, up |-> s.up]
    BY <1>4, <2>2
  <2> QED
    BY <2>1, <2>3 DEF rest
<1>20. DOMAIN new.records = NumbersOf((tb + n) .. (tn - 1))
  <2>1. DOMAIN new.records = DOMAIN records \ done
    BY <1>19 DEF Without
  <2> QED
    BY <1>12, <1>17, <1>18, <2>1
<1>21. \A x \in (tb + n) .. (tn - 1) : new.records[x % SeqMod] = records[x % SeqMod]
  <2>1. \A q \in DOMAIN new.records : new.records[q] = records[q]
    BY <1>19 DEF Without
  <2> QED
    BY <1>20, <2>1 DEF NumbersOf
<1>22. \A x \in (tb + n) .. (tn - 1) : x \in tb .. (tn - 1)
  BY <1>13
<1>23. SenderInv(new, h, tb + n, tn, start)
  <2>1. new = [master |-> new.master, queue |-> new.queue, txBase |-> new.txBase,
               txNext |-> new.txNext, records |-> new.records,
               silent |-> new.silent, slot |-> new.slot, up |-> new.up]
    BY <1>19
  <2>2. /\ new.txBase = (tb + n) % SeqMod /\ new.txNext = tn % SeqMod
        /\ new.queue = s.queue
    BY <1>4, <1>19
  <2>3. \A x \in (tb + n) .. (tn - 1) :
          RecordOf(new.records[x % SeqMod], start[x], LenOf(start, x))
    BY <1>11, <1>21, <1>22
  <2>4. tb + n <= tn /\ tn <= tb + n + Window
    <3>1. tn <= tb + Window
      BY <1>4
    <3> QED
      BY <1>13, <3>1, SizesAre
  <2> QED
    BY <1>4, <1>20, <2>1, <2>2, <2>3, <2>4 DEF SenderInv
<1>24. AckedInv(new, k0, ab, ag, tb + n, tn, rb, buf)
  <2>1. ASSUME NEW x \in (tb + n) .. (tn - 1), new.records[x % SeqMod].acked
        PROVE  got(x) /\ \A k \in 1 .. k0 : rcv(k, x)
    BY <1>10, <1>21, <1>22, <2>1
  <2> QED
    BY <2>1 DEF AckedInv
<1>25. tb + n \in Nat /\ tb <= tb + n
  BY <1>13
<1> QED
  BY <1>15, <1>16, <1>23, <1>24, <1>25 DEF new, ack
\* What the slot and the silence are is nothing to the blocks.
LEMMA SlotKeeps ==
  ASSUME NEW s, NEW new, NEW h, NEW tb, NEW tn, NEW start, SenderInv(s, h, tb, tn, start),
         new = [master |-> new.master, queue |-> new.queue, txBase |-> new.txBase,
                txNext |-> new.txNext, records |-> new.records,
                silent |-> new.silent, slot |-> new.slot, up |-> new.up],
         new.queue = s.queue, new.txBase = s.txBase, new.txNext = s.txNext,
         new.records = s.records
  PROVE  SenderInv(new, h, tb, tn, start)
BY DEF SenderInv

LEMMA HeardKeeps ==
  ASSUME NEW s, NEW h, NEW tb, NEW tn, NEW start, SenderInv(s, h, tb, tn, start)
  PROVE  /\ SenderInv([s EXCEPT !.slot.heard = TRUE], h, tb, tn, start)
         /\ [s EXCEPT !.slot.heard = TRUE].records = s.records
<1> DEFINE slot == [s.slot EXCEPT !.heard = TRUE]
           new == [s EXCEPT !.slot.heard = TRUE]
<1>1. s = [master |-> s.master, queue |-> s.queue, txBase |-> s.txBase,
           txNext |-> s.txNext, records |-> s.records, silent |-> s.silent,
           slot |-> s.slot, up |-> s.up]
  BY DEF SenderInv
<1>2. new = [s EXCEPT !.slot = slot]
  OBVIOUS
<1> HIDE DEF slot, new
<1>3. new = [master |-> s.master, queue |-> s.queue, txBase |-> s.txBase,
             txNext |-> s.txNext, records |-> s.records, silent |-> s.silent,
             slot |-> slot, up |-> s.up]
  BY <1>1, <1>2
<1>4. SenderInv(new, h, tb, tn, start) /\ new.records = s.records
  BY <1>3, SlotKeeps
<1> QED
  BY <1>4 DEF new

LEMMA UnknownKeeps ==
  ASSUME NEW rec, NEW at, NEW len, NEW u, RecordOf(rec, at, len)
  PROVE  /\ RecordOf([rec EXCEPT !.unknown = u], at, len)
         /\ [rec EXCEPT !.unknown = u].acked = rec.acked
<1> DEFINE new == [rec EXCEPT !.unknown = u]
<1>1. rec = [at |-> rec.at, len |-> rec.len, mode |-> rec.mode, acked |-> rec.acked,
             unknown |-> rec.unknown, parts |-> rec.parts, gone |-> rec.gone]
  BY DEF RecordOf
<1>2. new = [rec EXCEPT !.unknown = u]
  OBVIOUS
<1> HIDE DEF new
<1>3. new = [at |-> rec.at, len |-> rec.len, mode |-> rec.mode, acked |-> rec.acked,
             unknown |-> u, parts |-> rec.parts, gone |-> rec.gone]
  BY <1>1, <1>2
<1>4. /\ new.at = rec.at /\ new.len = rec.len /\ new.mode = rec.mode /\ new.parts = rec.parts
      /\ new.gone = rec.gone /\ new.acked = rec.acked
  BY <1>3
<1>5. new = [at |-> new.at, len |-> new.len, mode |-> new.mode, acked |-> new.acked,
             unknown |-> new.unknown, parts |-> new.parts, gone |-> new.gone]
  BY <1>3
<1>6. RecordOf(new, at, len)
  BY <1>4, <1>5 DEF RecordOf
<1> QED
  BY <1>4, <1>6 DEF new

\* The records changed one by one, each still of its block.
LEMMA RecordsKeep ==
  ASSUME NEW s, NEW new, NEW h, NEW tb \in Nat, NEW tn \in Nat, NEW start,
         SenderInv(s, h, tb, tn, start),
         new = [master |-> new.master, queue |-> new.queue, txBase |-> new.txBase,
                txNext |-> new.txNext, records |-> new.records,
                silent |-> new.silent, slot |-> new.slot, up |-> new.up],
         new.queue = s.queue, new.txBase = s.txBase, new.txNext = s.txNext,
         DOMAIN new.records = DOMAIN s.records,
         \A x \in tb .. (tn - 1) : RecordOf(new.records[x % SeqMod], start[x], LenOf(start, x))
  PROVE  SenderInv(new, h, tb, tn, start)
BY DEF SenderInv

LEMMA CloseSlotKeeps ==
  ASSUME NEW s, NEW h, NEW tb \in Nat, NEW tn \in Nat, NEW start,
         SenderInv(s, h, tb, tn, start)
  PROVE  /\ SenderInv(CloseSlot(s), h, tb, tn, start)
         /\ \A x \in tb .. (tn - 1) :
              CloseSlot(s).records[x % SeqMod].acked = s.records[x % SeqMod].acked
<1> DEFINE silent == IF s.slot.heard THEN 0 ELSE s.silent + 1
           hold == ~s.slot.heard /\ s.slot.data
           on == silent <= MaxRetries
           unknown(q) == s.records[q].unknown \/ (hold /\ ~s.records[q].acked)
           records == [q \in DOMAIN s.records |-> [s.records[q] EXCEPT !.unknown = unknown(q)]]
           new == CloseSlot(s)
<1>1. s = [master |-> s.master, queue |-> s.queue, txBase |-> s.txBase,
           txNext |-> s.txNext, records |-> s.records, silent |-> s.silent,
           slot |-> s.slot, up |-> s.up]
  BY DEF SenderInv
<1>2. new = [s EXCEPT !.silent = silent, !.slot = NoSlot, !.up = on, !.records = records]
  BY DEF CloseSlot
<1>3. DOMAIN records = DOMAIN s.records
  OBVIOUS
<1>4. ASSUME NEW x \in tb .. (tn - 1)
      PROVE  /\ RecordOf(records[x % SeqMod], start[x], LenOf(start, x))
             /\ records[x % SeqMod].acked = s.records[x % SeqMod].acked
  <2> DEFINE rec == s.records[x % SeqMod]
             at == start[x]
             len == LenOf(start, x)
             u == unknown(x % SeqMod)
  <2>1. RecordOf(rec, at, len)
    BY DEF SenderInv
  <2>2. x % SeqMod \in DOMAIN s.records
    BY DEF SenderInv, NumbersOf
  <2>3. records[x % SeqMod] = [rec EXCEPT !.unknown = u]
    BY <2>2
  <2> HIDE DEF rec, at, len, u, records
  <2>4. /\ RecordOf([rec EXCEPT !.unknown = u], at, len)
        /\ [rec EXCEPT !.unknown = u].acked = rec.acked
    BY <2>1, UnknownKeeps
  <2> QED
    BY <2>3, <2>4 DEF rec, at, len
<1> HIDE DEF silent, on, records, new
<1>5. new = [master |-> s.master, queue |-> s.queue, txBase |-> s.txBase,
             txNext |-> s.txNext, records |-> records, silent |-> silent,
             slot |-> NoSlot, up |-> on]
  BY <1>1, <1>2
<1>6. /\ new.queue = s.queue /\ new.txBase = s.txBase /\ new.txNext = s.txNext
      /\ new.records = records
      /\ new = [master |-> new.master, queue |-> new.queue, txBase |-> new.txBase,
                txNext |-> new.txNext, records |-> new.records,
                silent |-> new.silent, slot |-> new.slot, up |-> new.up]
  BY <1>5
<1>7. SenderInv(new, h, tb, tn, start)
  BY <1>3, <1>4, <1>6, RecordsKeep
<1> QED
  BY <1>4, <1>6, <1>7 DEF new
-----------------------------------------------------------------------------
\* What is on its way, as it is heard, lost, read and answered.

Later(f) == [k \in Nat |-> f[k + 1]]

LEMMA LaterIs ==
  ASSUME NEW S, NEW f \in [Nat -> S]
  PROVE  /\ Later(f) \in [Nat -> S]
         /\ \A k \in Nat : Later(f)[k] = f[k + 1]
BY DEF Later

LEMMA TailIs ==
  ASSUME NEW S, NEW seq \in Seq(S), seq # <<>>
  PROVE  /\ Tail(seq) \in Seq(S) /\ Len(Tail(seq)) = Len(seq) - 1 /\ Len(seq) >= 1
         /\ Len(Tail(seq)) \in Nat /\ Len(seq) \in Nat
         /\ Head(seq) = seq[1] /\ seq[1] \in S
         /\ \A k \in 1 .. Len(Tail(seq)) : Tail(seq)[k] = seq[k + 1] /\ k + 1 \in 1 .. Len(seq)
<1>1. /\ Tail(seq) \in Seq(S) /\ Len(Tail(seq)) = Len(seq) - 1 /\ Len(seq) >= 1
      /\ Len(Tail(seq)) \in Nat /\ Len(seq) \in Nat
  OBVIOUS
<1>2. Head(seq) = seq[1] /\ seq[1] \in S
  OBVIOUS
<1>3. \A k \in 1 .. Len(Tail(seq)) : Tail(seq)[k] = seq[k + 1] /\ k + 1 \in 1 .. Len(seq)
  OBVIOUS
<1> QED
  BY <1>1, <1>2, <1>3

LEMMA MovedNot ==
  ASSUME NEW rb \in Nat, NEW buf, NEW x, rb \notin buf
  PROVE  Moved(rb, buf, x, rb, buf)
BY DEF Moved

LEMMA OneMore ==
  ASSUME NEW S, NEW f \in [Nat -> S], NEW n \in Nat, NEW v \in S
  PROVE  /\ [f EXCEPT ![n + 1] = v] \in [Nat -> S]
         /\ [f EXCEPT ![n + 1] = v][n + 1] = v
         /\ \A k \in 1 .. n : [f EXCEPT ![n + 1] = v][k] = f[k]
OBVIOUS

\* The first frame on the air is heard or lost.
LEMMA AirAfter ==
  ASSUME NEW frames, NEW fb \in [Nat -> Nat], NEW tn \in Nat, NEW rb \in Nat,
         NEW start \in [Nat -> Nat], NEW buf \in SUBSET Nat, NEW rb1 \in Nat, NEW buf1,
         AirInv(frames, fb, tn, rb, start, buf), frames # <<>>,
         Moved(rb, buf, fb[1], rb1, buf1)
  PROVE  AirInv(Tail(frames), Later(fb), tn, rb1, start, buf1)
<1> DEFINE after == Tail(frames)
           next == Later(fb)
<1>1. frames \in Seq(Frames)
  BY DEF AirInv
<1>2. /\ after \in Seq(Frames) /\ Len(after) = Len(frames) - 1 /\ Len(frames) >= 1
      /\ Len(after) \in Nat /\ Len(frames) \in Nat
      /\ \A k \in 1 .. Len(after) : after[k] = frames[k + 1] /\ k + 1 \in 1 .. Len(frames)
  BY <1>1, TailIs
<1>3. \A k \in Nat : next[k] = fb[k + 1]
  BY LaterIs
<1> HIDE DEF after, next
<1>4. ASSUME NEW i \in 1 .. Len(after)
      PROVE  /\ next[i] < tn
             /\ FrameOf(after[i], next[i], start)
             /\ rb1 <= next[i] + Window
             /\ \A x \in buf1 : x < next[i] + Window
             /\ \A j \in 1 .. Len(after) : i < j => next[i] < next[j] + Window
  <2>1. /\ after[i] = frames[i + 1] /\ i + 1 \in 1 .. Len(frames) /\ next[i] = fb[i + 1]
        /\ 1 \in 1 .. Len(frames) /\ 1 < i + 1 /\ i \in Nat /\ fb[i + 1] \in Nat
    <3>1. i \in Nat /\ 1 <= i
      BY <1>2
    <3>2. after[i] = frames[i + 1] /\ i + 1 \in 1 .. Len(frames)
      BY <1>2
    <3>3. next[i] = fb[i + 1] /\ i + 1 \in Nat
      BY <1>3, <3>1
    <3>4. 1 \in 1 .. Len(frames) /\ 1 < i + 1
      BY <1>2, <3>1
    <3> QED
      BY <3>1, <3>2, <3>3, <3>4
  <2>2. /\ fb[i + 1] < tn
        /\ FrameOf(frames[i + 1], fb[i + 1], start)
        /\ rb <= fb[i + 1] + Window
        /\ \A x \in buf : x < fb[i + 1] + Window
        /\ fb[1] < fb[i + 1] + Window
    BY <2>1 DEF AirInv
  <2>3. \A x \in buf \cup {fb[1]} : x < fb[i + 1] + Window
    BY <2>2
  <2>4. rb1 <= fb[i + 1] + Window
    <3>1. CASE rb < rb1
      <4>1. rb1 - 1 < fb[i + 1] + Window
        BY <2>3, <3>1 DEF Moved
      <4>2. fb[i + 1] \in Nat
        BY <2>1
      <4> DEFINE y == fb[i + 1]
      <4> HIDE DEF y
      <4>3. rb1 - 1 < y + Window /\ y \in Nat
        BY <4>1, <4>2 DEF y
      <4>4. rb1 <= y + Window
        BY <4>3, SizesAre
      <4> QED
        BY <4>4 DEF y
    <3>2. CASE ~ (rb < rb1)
      <4>1. rb = rb1
        BY <3>2 DEF Moved
      <4> QED
        BY <2>2, <4>1
    <3> QED
      BY <3>1, <3>2
  <2>5. \A x \in buf1 : x < fb[i + 1] + Window
    BY <2>3 DEF Moved
  <2>6. ASSUME NEW j \in 1 .. Len(after), i < j
        PROVE  next[i] < next[j] + Window
    <3>1. /\ j + 1 \in 1 .. Len(frames) /\ next[j] = fb[j + 1]
          /\ i + 1 < j + 1 /\ j \in Nat
      BY <1>2, <1>3, <2>6
    <3> QED
      BY <2>1, <3>1 DEF AirInv
  <2> QED
    BY <2>1, <2>2, <2>4, <2>5, <2>6
<1>5. AirInv(after, next, tn, rb1, start, buf1)
  BY <1>2, <1>4 DEF AirInv
<1> QED
  BY <1>5 DEF after, next

\* The first answer is read or lost.
LEMMA AcksAfter ==
  ASSUME NEW sent, NEW ab \in [Nat -> Nat], NEW ag \in [Nat -> SUBSET Nat],
         NEW tb \in Nat, NEW rb \in Nat, NEW buf,
         AcksInv(sent, ab, ag, tb, rb, buf), sent # <<>>
  PROVE  AcksInv(Tail(sent), Later(ab), Later(ag), tb, rb, buf)
<1> DEFINE after == Tail(sent)
           base == Later(ab)
           got == Later(ag)
           Acks == [base : Seqs, bits : SUBSET (1 .. (Window - 1))]
<1>1. sent \in Seq(Acks)
  BY DEF AcksInv
<1> HIDE DEF Acks
<1>2. /\ after \in Seq(Acks) /\ Len(after) \in Nat /\ Len(sent) \in Nat
      /\ \A k \in 1 .. Len(after) : after[k] = sent[k + 1] /\ k + 1 \in 1 .. Len(sent)
  BY <1>1, TailIs
<1>3. \A k \in Nat : base[k] = ab[k + 1]
  BY LaterIs
<1>4. \A k \in Nat : got[k] = ag[k + 1]
  BY LaterIs
<1> HIDE DEF after, base, got
<1>5. ASSUME NEW k \in 1 .. Len(after)
      PROVE  /\ tb <= base[k]
             /\ AckInv(after[k], base[k], got[k], rb, buf)
             /\ \A j \in 1 .. Len(after) : k < j =>
                  base[k] <= base[j] /\ \A x \in got[k] : x < base[j] \/ x \in got[j]
  <2>1. /\ after[k] = sent[k + 1] /\ k + 1 \in 1 .. Len(sent)
        /\ base[k] = ab[k + 1] /\ got[k] = ag[k + 1] /\ k \in Nat
    <3>1. k \in Nat
      BY <1>2
    <3>2. after[k] = sent[k + 1] /\ k + 1 \in 1 .. Len(sent)
      BY <1>2
    <3> QED
      BY <1>3, <1>4, <3>1, <3>2
  <2>2. ASSUME NEW j \in 1 .. Len(after), k < j
        PROVE  base[k] <= base[j] /\ \A x \in got[k] : x < base[j] \/ x \in got[j]
    <3>1. /\ j + 1 \in 1 .. Len(sent) /\ k + 1 < j + 1
          /\ base[j] = ab[j + 1] /\ got[j] = ag[j + 1]
      <4>1. j \in Nat /\ j + 1 \in 1 .. Len(sent)
        BY <1>2
      <4>2. k + 1 < j + 1
        BY <2>1, <2>2, <4>1
      <4> QED
        BY <1>3, <1>4, <4>1, <4>2
    <3>2. /\ ab[k + 1] <= ab[j + 1]
          /\ \A x \in ag[k + 1] : x < ab[j + 1] \/ x \in ag[j + 1]
      BY <2>1, <3>1 DEF AcksInv
    <3> QED
      BY <2>1, <3>1, <3>2
  <2>3. tb <= ab[k + 1] /\ AckInv(sent[k + 1], ab[k + 1], ag[k + 1], rb, buf)
    BY <2>1 DEF AcksInv
  <2> QED
    BY <2>1, <2>2, <2>3
<1>6. AcksInv(after, base, got, tb, rb, buf)
  BY <1>2, <1>5 DEF AcksInv, Acks
<1> QED
  BY <1>6 DEF after, base, got

LEMMA AckedAfter ==
  ASSUME NEW s, NEW n \in Nat, n >= 1, NEW ab \in [Nat -> Nat], NEW ag \in [Nat -> SUBSET Nat],
         NEW tb \in Nat, NEW tn \in Nat, NEW rb, NEW buf,
         AckedInv(s, n, ab, ag, tb, tn, rb, buf)
  PROVE  AckedInv(s, n - 1, Later(ab), Later(ag), tb, tn, rb, buf)
<1> DEFINE base == Later(ab)
           got == Later(ag)
<1>1. \A k \in Nat : base[k] = ab[k + 1]
  BY LaterIs
<1>2. \A k \in Nat : got[k] = ag[k + 1]
  BY LaterIs
<1> HIDE DEF base, got
<1>3. ASSUME NEW x \in tb .. (tn - 1), s.records[x % SeqMod].acked
      PROVE  /\ x < rb \/ x \in buf
             /\ \A k \in 1 .. (n - 1) : x < base[k] \/ x \in got[k]
  <2>1. \A k \in 1 .. n : x < ab[k] \/ x \in ag[k]
    BY <1>3 DEF AckedInv
  <2>2. ASSUME NEW k \in 1 .. (n - 1)
        PROVE  x < base[k] \/ x \in got[k]
    <3>1. k + 1 \in 1 .. n /\ k \in Nat
      OBVIOUS
    <3>2. x < ab[k + 1] \/ x \in ag[k + 1]
      BY <2>1, <3>1
    <3> QED
      BY <1>1, <1>2, <3>1, <3>2
  <2> QED
    BY <1>3, <2>2 DEF AckedInv
<1>4. AckedInv(s, n - 1, base, got, tb, tn, rb, buf)
  BY <1>3 DEF AckedInv
<1> QED
  BY <1>4 DEF base, got

\* What the receiver had it has, after the frames it takes.
LEMMA AcksMoved ==
  ASSUME NEW sent, NEW ab \in [Nat -> Nat], NEW ag \in [Nat -> SUBSET Nat],
         NEW tb \in Nat, NEW rb \in Nat, NEW buf, NEW x, NEW rb1 \in Nat, NEW buf1,
         AcksInv(sent, ab, ag, tb, rb, buf), Moved(rb, buf, x, rb1, buf1)
  PROVE  AcksInv(sent, ab, ag, tb, rb1, buf1)
<1>1. ASSUME NEW k \in 1 .. Len(sent)
      PROVE  AckInv(sent[k], ab[k], ag[k], rb1, buf1)
  <2>1. sent \in Seq([base : Seqs, bits : SUBSET (1 .. (Window - 1))])
    BY DEF AcksInv
  <2>2. k \in Nat
    BY <2>1
  <2>3. ab[k] \in Nat /\ ag[k] \in SUBSET Nat
    BY <2>2
  <2>4. AckInv(sent[k], ab[k], ag[k], rb, buf)
    BY DEF AcksInv
  <2> DEFINE base == ab[k]
             got == ag[k]
             ack == sent[k]
  <2> HIDE DEF base, got, ack
  <2>5. AckInv(ack, base, got, rb, buf) /\ base \in Nat /\ got \in SUBSET Nat
    BY <2>3, <2>4 DEF base, got, ack
  <2>6. rb <= rb1 /\ \A y \in Nat : y < rb \/ y \in buf => y < rb1 \/ y \in buf1
    BY DEF Moved
  <2>7. AckInv(ack, base, got, rb1, buf1)
    <3>1. base <= rb1
      BY <2>5, <2>6 DEF AckInv
    <3>2. \A y \in got : y < rb1 \/ y \in buf1
      <4>1. \A y \in got : y \in Nat /\ (y < rb \/ y \in buf)
        BY <2>5 DEF AckInv
      <4> QED
        BY <2>6, <4>1
    <3> QED
      BY <2>5, <3>1, <3>2 DEF AckInv
  <2> QED
    BY <2>7 DEF base, got, ack
<1> QED
  BY <1>1 DEF AcksInv

LEMMA AckedMoved ==
  ASSUME NEW s, NEW n, NEW ab, NEW ag, NEW tb \in Nat, NEW tn \in Nat, NEW rb \in Nat,
         NEW buf, NEW x, NEW rb1 \in Nat, NEW buf1,
         AckedInv(s, n, ab, ag, tb, tn, rb, buf), Moved(rb, buf, x, rb1, buf1)
  PROVE  AckedInv(s, n, ab, ag, tb, tn, rb1, buf1)
BY DEF AckedInv, Moved

\* The receiver answers.
LEMMA AnswerIs ==
  ASSUME NEW r, NEW tn \in Nat, NEW rb \in Nat, NEW start, NEW buf \in SUBSET Nat,
         NEW held, tn <= rb + Window, rb \notin buf, ReceiverInv(r, tn, rb, start, buf, held)
  PROVE  /\ AckInv(AckFields(r), rb, buf, rb, buf)
         /\ AckFields(r) \in [base : Seqs, bits : SUBSET (1 .. (Window - 1))]
<1>1. /\ r.rxBase = rb % SeqMod /\ buf \subseteq rb .. (tn - 1) /\ rb <= tn
      /\ DOMAIN r.rxBuf = NumbersOf(buf)
  BY DEF ReceiverInv
<1> DEFINE bits == {i \in 0 .. (Window - 1) : SeqAfter(r.rxBase, i) \in DOMAIN r.rxBuf}
<1>2. ASSUME NEW i \in 0 .. (Window - 1), SeqAfter(r.rxBase, i) \in DOMAIN r.rxBuf
      PROVE  rb + i \in buf
  <2>1. SeqAfter(r.rxBase, i) = (rb + i) % SeqMod /\ i \in Int
    BY <1>1, AfterNum
  <2>2. PICK x \in buf : (rb + i) % SeqMod = x % SeqMod
    BY <1>1, <1>2, <2>1 DEF NumbersOf
  <2>3. x \in rb .. (rb + Window - 1) /\ rb + i \in rb .. (rb + Window - 1)
    <3>1. x \in Nat /\ rb <= x /\ x < tn
      BY <1>1
    <3> QED
      BY <3>1, SizesAre
  <2> DEFINE y == rb + i
             high == rb + Window
  <2>4. y \in rb .. (high - 1) /\ x \in rb .. (high - 1) /\ high \in Nat /\ high <= rb + Window
    BY <2>3, SizesAre
  <2>5. y % SeqMod = x % SeqMod
    BY <2>2
  <2> HIDE DEF y, high
  <2>6. y = x
    BY <2>4, <2>5, InOneWindow
  <2> QED
    BY <2>6 DEF y
<1>3. ASSUME NEW x \in buf
      PROVE  x - rb \in bits /\ x \in (rb + 1) .. (rb + Window - 1)
  <2>1. x \in Nat /\ rb <= x /\ x < tn /\ x # rb
    BY <1>1
  <2>2. x - rb \in 0 .. (Window - 1) /\ x - rb \in Int /\ rb + (x - rb) = x
        /\ x \in (rb + 1) .. (rb + Window - 1)
    BY <2>1, SizesAre
  <2>3. SeqAfter(r.rxBase, x - rb) = x % SeqMod
    BY <1>1, <2>2, AfterNum
  <2>4. x % SeqMod \in DOMAIN r.rxBuf
    BY <1>1 DEF NumbersOf
  <2> QED
    BY <2>2, <2>3, <2>4
<1>4. bits = BitsOf(buf, rb)
  <2>1. ASSUME NEW i \in bits
        PROVE  i \in BitsOf(buf, rb)
    <3>1. rb + i \in buf /\ (rb + i) - rb = i
      BY <1>2
    <3> QED
      BY <3>1 DEF BitsOf
  <2>2. ASSUME NEW x \in buf
        PROVE  x - rb \in bits
    BY <1>3
  <2> HIDE DEF bits
  <2> QED
    BY <2>1, <2>2 DEF BitsOf
<1>5. bits \subseteq 1 .. (Window - 1)
  <2>1. ASSUME NEW i \in bits
        PROVE  i \in 1 .. (Window - 1)
    <3>1. i \in 0 .. (Window - 1) /\ rb + i \in buf
      BY <1>2
    <3>2. i # 0
      BY <3>1
    <3> QED
      BY <3>1, <3>2, SizesAre
  <2> QED
    BY <2>1
<1> DEFINE ack == AckFields(r)
<1>6. ack = [base |-> rb % SeqMod, bits |-> bits]
  BY <1>1 DEF AckFields
<1> HIDE DEF ack, bits
<1>7. rb % SeqMod \in Seqs
  BY NumIsSeq
<1>8. buf \subseteq (rb + 1) .. (rb + Window - 1)
  BY <1>3
<1>9. AckInv(ack, rb, buf, rb, buf)
  BY <1>4, <1>6, <1>8 DEF AckInv
<1>10. ack \in [base : Seqs, bits : SUBSET (1 .. (Window - 1))]
  BY <1>5, <1>6, <1>7
<1> QED
  BY <1>9, <1>10 DEF ack

LEMMA AcksGrow ==
  ASSUME NEW sent, NEW ab \in [Nat -> Nat], NEW ag \in [Nat -> SUBSET Nat],
         NEW tb \in Nat, NEW rb \in Nat, NEW buf \in SUBSET Nat, tb <= rb, NEW ack,
         AcksInv(sent, ab, ag, tb, rb, buf), AckInv(ack, rb, buf, rb, buf),
         ack \in [base : Seqs, bits : SUBSET (1 .. (Window - 1))]
  PROVE  AcksInv(Append(sent, ack), [ab EXCEPT ![Len(sent) + 1] = rb],
                 [ag EXCEPT ![Len(sent) + 1] = buf], tb, rb, buf)
<1> DEFINE Acks == [base : Seqs, bits : SUBSET (1 .. (Window - 1))]
           new == Append(sent, ack)
           n == Len(sent)
           base == [ab EXCEPT ![n + 1] = rb]
           got == [ag EXCEPT ![n + 1] = buf]
<1>1. sent \in Seq(Acks) /\ ack \in Acks
  BY DEF AcksInv
<1>2. ASSUME NEW k \in 1 .. n
      PROVE  /\ tb <= ab[k] /\ ab[k] \in Nat
             /\ AckInv(sent[k], ab[k], ag[k], rb, buf)
             /\ \A j \in 1 .. n : k < j =>
                  ab[k] <= ab[j] /\ \A x \in ag[k] : x < ab[j] \/ x \in ag[j]
  <2>1. k \in Nat
    BY <1>1
  <2> QED
    BY <2>1 DEF AcksInv
<1> HIDE DEF Acks
<1>3. /\ new \in Seq(Acks) /\ Len(new) = n + 1 /\ n \in Nat
      /\ \A k \in 1 .. n : new[k] = sent[k]
      /\ new[n + 1] = ack
  <2>1. n \in Nat
    BY <1>1
  <2>2. new \in Seq(Acks) /\ Len(new) = n + 1
    BY <1>1
  <2>3. new[n + 1] = ack
    BY <1>1
  <2>4. ASSUME NEW k \in 1 .. n
        PROVE  new[k] = sent[k]
    BY <1>1
  <2> QED
    BY <2>1, <2>2, <2>3, <2>4
<1> HIDE DEF new, n
<1>4. /\ base[n + 1] = rb /\ got[n + 1] = buf
      /\ \A k \in 1 .. n : base[k] = ab[k] /\ got[k] = ag[k]
  <2>1. n \in Nat
    BY <1>3
  <2>2. base[n + 1] = rb /\ \A k \in 1 .. n : base[k] = ab[k]
    BY <2>1, OneMore
  <2>3. got[n + 1] = buf /\ \A k \in 1 .. n : got[k] = ag[k]
    BY <2>1
  <2> QED
    BY <2>2, <2>3
<1> HIDE DEF base, got
<1>5. ASSUME NEW k \in 1 .. Len(new)
      PROVE  /\ tb <= base[k]
             /\ AckInv(new[k], base[k], got[k], rb, buf)
             /\ \A j \in 1 .. Len(new) : k < j =>
                  base[k] <= base[j] /\ \A x \in got[k] : x < base[j] \/ x \in got[j]
  <2>1. CASE k = n + 1
    <3>1. new[k] = ack /\ base[k] = rb /\ got[k] = buf
      BY <1>3, <1>4, <2>1
    <3>2. \A j \in 1 .. Len(new) : ~ (k < j)
      BY <1>3, <2>1
    <3> QED
      BY <3>1, <3>2
  <2>2. CASE k # n + 1
    <3>1. k \in 1 .. n
      BY <1>3, <2>2
    <3>2. new[k] = sent[k] /\ base[k] = ab[k] /\ got[k] = ag[k]
      BY <1>3, <1>4, <3>1
    <3>3. tb <= ab[k] /\ AckInv(sent[k], ab[k], ag[k], rb, buf)
      BY <1>2, <3>1
    <3>4. ASSUME NEW j \in 1 .. Len(new), k < j
          PROVE  ab[k] <= base[j] /\ \A x \in ag[k] : x < base[j] \/ x \in got[j]
      <4>1. CASE j = n + 1
        <5>1. base[j] = rb /\ got[j] = buf
          BY <1>4, <4>1
        <5>2. ab[k] <= rb /\ \A x \in ag[k] : x < rb \/ x \in buf
          BY <3>3 DEF AckInv
        <5> QED
          BY <5>1, <5>2
      <4>2. CASE j # n + 1
        <5>1. j \in 1 .. n
          BY <1>3, <4>2
        <5>2. base[j] = ab[j] /\ got[j] = ag[j]
          BY <1>4, <5>1
        <5>3. ab[k] <= ab[j] /\ \A x \in ag[k] : x < ab[j] \/ x \in ag[j]
          BY <1>2, <3>1, <3>4, <5>1
        <5> QED
          BY <5>2, <5>3
      <4> QED
        BY <4>1, <4>2
    <3> QED
      BY <3>2, <3>3, <3>4
  <2> QED
    BY <2>1, <2>2
<1>6. AcksInv(new, base, got, tb, rb, buf)
  BY <1>3, <1>5 DEF AcksInv, Acks
<1> QED
  BY <1>6 DEF new, n, base, got

LEMMA AckedGrow ==
  ASSUME NEW s, NEW n \in Nat, NEW ab \in [Nat -> Nat], NEW ag \in [Nat -> SUBSET Nat],
         NEW tb \in Nat, NEW tn \in Nat, NEW rb \in Nat, NEW buf \in SUBSET Nat,
         AckedInv(s, n, ab, ag, tb, tn, rb, buf)
  PROVE  AckedInv(s, n + 1, [ab EXCEPT ![n + 1] = rb], [ag EXCEPT ![n + 1] = buf],
                  tb, tn, rb, buf)
<1> DEFINE base == [ab EXCEPT ![n + 1] = rb]
           got == [ag EXCEPT ![n + 1] = buf]
<1>1. /\ base[n + 1] = rb /\ got[n + 1] = buf
      /\ \A k \in 1 .. n : base[k] = ab[k] /\ got[k] = ag[k]
  OBVIOUS
<1> HIDE DEF base, got
<1>2. ASSUME NEW x \in tb .. (tn - 1), s.records[x % SeqMod].acked
      PROVE  /\ x < rb \/ x \in buf
             /\ \A k \in 1 .. (n + 1) : x < base[k] \/ x \in got[k]
  <2>1. /\ x < rb \/ x \in buf
        /\ \A k \in 1 .. n : x < ab[k] \/ x \in ag[k]
    BY <1>2 DEF AckedInv
  <2>2. ASSUME NEW k \in 1 .. (n + 1)
        PROVE  x < base[k] \/ x \in got[k]
    <3>1. CASE k = n + 1
      BY <1>1, <2>1, <3>1
    <3>2. CASE k # n + 1
      <4>1. k \in 1 .. n
        BY <3>2
      <4> QED
        BY <1>1, <2>1, <4>1
    <3> QED
      BY <3>1, <3>2
  <2> QED
    BY <2>1, <2>2
<1>3. AckedInv(s, n + 1, base, got, tb, tn, rb, buf)
  BY <1>2 DEF AckedInv
<1> QED
  BY <1>3 DEF base, got-----------------------------------------------------------------------------
\* A transmission.

LEMMA PiecesAre ==
  ASSUME NEW len \in Nat \ {0}, NEW mode \in Modes
  PROVE  Pieces(len, mode) \in Seq(PiecesIn(len)) /\ Pieces(len, mode) # <<>>
<1> DEFINE room == PieceRoom[mode]
           count == (len + room - 1) \div room
           piece(k) == [offset |-> (k - 1) * room,
                        len |-> SmallerOf(room, len - (k - 1) * room), last |-> k = count]
<1>1. room \in Nat \ {0}
  BY ModeAssumption
<1>2. Pieces(len, mode) = [k \in 1 .. count |-> piece(k)]
  BY DEF Pieces
<1> HIDE DEF room
<1>3. /\ count \in Nat /\ count * room >= len
      /\ \A k \in 1 .. count : (k - 1) * room \in Nat /\ (k - 1) * room < len
      /\ \A k \in 1 .. count : k * room = ((k - 1) * room) + room
  BY <1>1, RoundUp
<1> HIDE DEF count
<1>4. ASSUME NEW k \in 1 .. count
      PROVE  piece(k) \in PiecesIn(len)
  <2> DEFINE off == (k - 1) * room
             part == SmallerOf(room, len - off)
             last == k = count
  <2>1. off \in Nat /\ off < len
    BY <1>3
  <2>2. k * room = off + room
    BY <1>3
  <2>3. last => off + room >= len
    BY <1>3, <2>2
  <2>4. piece(k) = [offset |-> off, len |-> part, last |-> last]
    OBVIOUS
  <2> HIDE DEF off, last
  <2>5. part \in Nat \ {0} /\ off + part <= len /\ (off + room >= len => off + part = len)
    BY <1>1, <2>1 DEF SmallerOf
  <2>6. last \in BOOLEAN
    BY DEF last
  <2> HIDE DEF part, piece
  <2> QED
    BY <2>1, <2>3, <2>4, <2>5, <2>6 DEF PiecesIn
<1>5. count # 0
  <2>1. CASE count = 0
    <3>1. count * room = 0
      BY <1>1, <2>1
    <3> QED
      BY <1>3, <3>1
  <2> QED
    BY <2>1
<1> DEFINE P == PiecesIn(len)
           all == [k \in 1 .. count |-> piece(k)]
<1>6. \A k \in 1 .. count : piece(k) \in P
  BY <1>4
<1> HIDE DEF P, piece
<1>7. all \in Seq(P) /\ Len(all) = count
  BY <1>3, <1>6
<1>8. all # <<>>
  BY <1>5, <1>7
<1> QED
  BY <1>2, <1>7, <1>8 DEF P

LEMMA SlowerKeeps ==
  ASSUME NEW rec, NEW at, NEW len \in Nat \ {0}, NEW mode \in Modes, RecordOf(rec, at, len)
  PROVE  /\ RecordOf(Slower(rec, mode), at, len)
         /\ Slower(rec, mode).acked = rec.acked
<1> DEFINE fits == Capacity[mode] >= rec.len
           parts == IF fits THEN <<>> ELSE Pieces(len, mode)
           new == Slower(rec, mode)
<1>1. rec = [at |-> rec.at, len |-> rec.len, mode |-> rec.mode, acked |-> rec.acked,
             unknown |-> rec.unknown, parts |-> rec.parts, gone |-> rec.gone]
      /\ rec.at = at /\ rec.len = len
  BY DEF RecordOf
<1>2. new = [rec EXCEPT !.mode = mode, !.parts = parts, !.gone = {}]
  BY <1>1 DEF Slower
<1>3. parts \in Seq(PiecesIn(len)) /\ (parts = <<>> => len <= Capacity[mode])
  <2>1. CASE fits
    <3>1. parts = <<>> /\ len <= Capacity[mode]
      <4>1. Capacity[mode] \in Nat
        BY ModeAssumption
      <4> QED
        BY <1>1, <2>1, <4>1
    <3> DEFINE P == PiecesIn(len)
    <3> HIDE DEF P, parts
    <3>2. parts \in Seq(P)
      BY <3>1
    <3> QED
      BY <3>1, <3>2 DEF P
  <2>2. CASE ~fits
    BY <2>2, PiecesAre
  <2> QED
    BY <2>1, <2>2
<1> HIDE DEF parts, new, fits
<1>4. new = [at |-> rec.at, len |-> rec.len, mode |-> mode, acked |-> rec.acked,
             unknown |-> rec.unknown, parts |-> parts, gone |-> {}]
  BY <1>1, <1>2
<1>5. /\ new.at = at /\ new.len = len /\ new.mode = mode /\ new.parts = parts
      /\ new.gone = {} /\ new.acked = rec.acked
  BY <1>1, <1>4
<1>6. new = [at |-> new.at, len |-> new.len, mode |-> new.mode, acked |-> new.acked,
             unknown |-> new.unknown, parts |-> new.parts, gone |-> new.gone]
  BY <1>4
<1>7. RecordOf(new, at, len)
  BY <1>3, <1>5, <1>6 DEF RecordOf
<1> QED
  BY <1>5, <1>7 DEF new

\* Some of the blocks come down to a mode.
ComeDown(s, down, mode) ==
  [s EXCEPT !.records = [q \in DOMAIN s.records |->
                           IF q \in down THEN Slower(s.records[q], mode) ELSE s.records[q]]]

LEMMA ComeDownKeeps ==
  ASSUME NEW s, NEW h, NEW tb \in Nat, NEW tn \in Nat, NEW start \in [Nat -> Nat],
         NEW down, NEW mode \in Modes, SenderInv(s, h, tb, tn, start)
  PROVE  /\ SenderInv(ComeDown(s, down, mode), h, tb, tn, start)
         /\ \A x \in tb .. (tn - 1) :
              ComeDown(s, down, mode).records[x % SeqMod].acked = s.records[x % SeqMod].acked
<1> DEFINE records == [q \in DOMAIN s.records |->
                         IF q \in down THEN Slower(s.records[q], mode) ELSE s.records[q]]
           new == ComeDown(s, down, mode)
<1>1. s = [master |-> s.master, queue |-> s.queue, txBase |-> s.txBase,
           txNext |-> s.txNext, records |-> s.records, silent |-> s.silent,
           slot |-> s.slot, up |-> s.up]
      /\ Cuts(tn, start)
  BY DEF SenderInv
<1>2. new = [s EXCEPT !.records = records]
  BY DEF ComeDown
<1>3. DOMAIN records = DOMAIN s.records
  OBVIOUS
<1>4. ASSUME NEW x \in tb .. (tn - 1)
      PROVE  /\ RecordOf(records[x % SeqMod], start[x], LenOf(start, x))
             /\ records[x % SeqMod].acked = s.records[x % SeqMod].acked
  <2> DEFINE q == x % SeqMod
             rec == s.records[q]
             at == start[x]
             len == LenOf(start, x)
  <2>1. RecordOf(rec, at, len)
    BY DEF SenderInv
  <2>2. q \in DOMAIN s.records
    BY DEF SenderInv, NumbersOf
  <2>3. records[q] = IF q \in down THEN Slower(rec, mode) ELSE rec
    BY <2>2
  <2>4. len \in Nat \ {0}
    BY <1>1, LenIsPositive
  <2> HIDE DEF rec, at, len, records, q
  <2>5. /\ RecordOf(Slower(rec, mode), at, len)
        /\ Slower(rec, mode).acked = rec.acked
    BY <2>1, <2>4, SlowerKeeps
  <2>6. RecordOf(records[q], at, len) /\ records[q].acked = rec.acked
    BY <2>1, <2>3, <2>5
  <2> QED
    BY <2>6 DEF rec, at, len, q
<1> HIDE DEF records, new
<1>5. new = [master |-> s.master, queue |-> s.queue, txBase |-> s.txBase,
             txNext |-> s.txNext, records |-> records, silent |-> s.silent,
             slot |-> s.slot, up |-> s.up]
  BY <1>1, <1>2
<1>6. /\ new.queue = s.queue /\ new.txBase = s.txBase /\ new.txNext = s.txNext
      /\ new.records = records
      /\ new = [master |-> new.master, queue |-> new.queue, txBase |-> new.txBase,
                txNext |-> new.txNext, records |-> new.records,
                silent |-> new.silent, slot |-> new.slot, up |-> new.up]
  BY <1>5
<1>7. SenderInv(new, h, tb, tn, start)
  BY <1>3, <1>4, <1>6, RecordsKeep
<1> QED
  BY <1>4, <1>6, <1>7 DEF new

LEMMA BlocksAre ==
  ASSUME NEW s, NEW h, NEW tb \in Nat, NEW tn \in Nat, NEW start,
         SenderInv(s, h, tb, tn, start), NEW S \in SUBSET DOMAIN s.records
  PROVE  /\ Blocks(s, S) \in Seq(S)
         /\ Len(Blocks(s, S)) \in Nat
<1> DEFINE rank == [q \in S |-> SeqDistance(q, s.txBase)]
<1>1. /\ DOMAIN s.records = NumbersOf(tb .. (tn - 1)) /\ s.txBase = tb % SeqMod
      /\ tn <= tb + Window
  BY DEF SenderInv
<1>2. ASSUME NEW q \in S
      PROVE  \E x \in tb .. (tn - 1) : q = x % SeqMod /\ rank[q] = x - tb /\ x - tb \in Nat
  <2>1. PICK x \in tb .. (tn - 1) : q = x % SeqMod
    BY <1>1 DEF NumbersOf
  <2>2. x \in Int /\ tb <= x /\ x - tb < SeqMod /\ x - tb \in Nat
    BY <1>1, SizesAre
  <2>3. SeqDistance(x % SeqMod, tb % SeqMod) = x - tb
    BY <2>2, DistAhead
  <2>4. rank[q] = x - tb
    BY <1>1, <2>1, <2>3
  <2> QED
    BY <2>1, <2>2, <2>4
<1>3. rank \in [S -> Nat]
  <2>1. \A q \in S : rank[q] \in Nat
    BY <1>2
  <2>2. rank = [q \in S |-> rank[q]]
    OBVIOUS
  <2> QED
    BY <2>1, <2>2
<1>4. ASSUME NEW p \in S, NEW q \in S, rank[p] = rank[q]
      PROVE  p = q
  <2>1. PICK x \in tb .. (tn - 1) : p = x % SeqMod /\ rank[p] = x - tb
    BY <1>2
  <2>2. PICK y \in tb .. (tn - 1) : q = y % SeqMod /\ rank[q] = y - tb
    BY <1>2
  <2>3. x = y
    <3>1. x - tb = y - tb /\ x \in Int /\ y \in Int
      BY <1>4, <2>1, <2>2
    <3> QED
      BY <3>1
  <2> QED
    BY <2>1, <2>2, <2>3
<1>5. IsFiniteSet(S)
  <2>1. IsFiniteSet(Seqs)
    BY SizesAre, FS_Interval DEF Seqs
  <2>2. S \subseteq Seqs
    <3>1. \A x \in tb .. (tn - 1) : x % SeqMod \in Seqs
      BY NumIsSeq
    <3> QED
      BY <1>1, <3>1 DEF NumbersOf
  <2> QED
    BY <2>1, <2>2, FS_Subset
<1>6. Blocks(s, S) = InOrder(S, rank)
  BY DEF Blocks
<1> HIDE DEF rank
<1>7. InOrder(S, rank) \in Seq(S) /\ Len(InOrder(S, rank)) \in Nat
  <2>1. InOrder(S, rank) \in Seq(S)
    BY <1>3, <1>4, <1>5, InOrderType
  <2> QED
    BY <2>1
<1> QED
  BY <1>6, <1>7

\* As many as there is room for, of those in order.
LEMMA FirstOf ==
  ASSUME NEW S, NEW seq \in Seq(S), NEW room \in Nat
  PROVE  /\ SubSeq(seq, 1, SmallerOf(room, Len(seq))) \in Seq(S)
         /\ Len(SubSeq(seq, 1, SmallerOf(room, Len(seq)))) \in 0 .. room
<1> DEFINE n == SmallerOf(room, Len(seq))
<1>1. n \in Nat /\ n <= room /\ n <= Len(seq)
  BY DEF SmallerOf
<1> HIDE DEF n
<1>2. \A i \in 1 .. n : seq[i] \in S
  BY <1>1
<1>3. /\ SubSeq(seq, 1, n) \in Seq(S)
      /\ Len(SubSeq(seq, 1, n)) = IF 1 <= n THEN n - 1 + 1 ELSE 0
  BY <1>1, <1>2, SubSeqProperties
<1>4. Len(SubSeq(seq, 1, n)) \in 0 .. room
  BY <1>1, <1>3
<1> QED
  BY <1>3, <1>4 DEF n

LEMMA ElementOf ==
  ASSUME NEW S, NEW seq \in Seq(S), NEW i \in 1 .. Len(seq)
  PROVE  seq[i] \in S
OBVIOUS

LEMMA FunctionIsSeq ==
  ASSUME NEW n \in Nat, NEW S, NEW f \in [1 .. n -> S]
  PROVE  f \in Seq(S) /\ Len(f) = n
OBVIOUS

LEMMA NextPartsAre ==
  ASSUME NEW rec, NEW at, NEW len, RecordOf(rec, at, len), NEW room \in Nat
  PROVE  /\ NextParts(rec, room) \in Seq(1 .. Len(rec.parts))
         /\ Len(NextParts(rec, room)) \in 0 .. room
<1> DEFINE m == Len(rec.parts)
           S == (1 .. m) \ rec.gone
           rank == [k \in 1 .. m |-> k]
           due == InOrder(S, rank)
<1>1. m \in Nat
  <2>1. rec.parts \in Seq(PiecesIn(len))
    BY DEF RecordOf
  <2> QED
    BY <2>1
<1>2. NextParts(rec, room) = SubSeq(due, 1, SmallerOf(room, Len(due)))
  BY DEF NextParts
<1> HIDE DEF m
<1>3. S \subseteq 1 .. m
  OBVIOUS
<1>4. IsFiniteSet(S)
  <2> DEFINE U == 1 .. m
  <2>1. IsFiniteSet(U)
    BY <1>1, FS_Interval
  <2>2. S \in SUBSET U
    BY <1>3
  <2> HIDE DEF U, S
  <2> QED
    BY <2>1, <2>2, FS_Subset
<1>5. due \in [1 .. Cardinality(S) -> S] /\ Cardinality(S) \in Nat
  <2>1. Cardinality(S) \in Nat
    BY <1>4, FS_CardinalityType
  <2> DEFINE U == 1 .. m
  <2>2. rank \in [U -> Nat] /\ \A p, q \in U : rank[p] = rank[q] => p = q
    BY <1>1
  <2>3. S \in SUBSET U
    BY <1>3
  <2> HIDE DEF U, S, rank
  <2>4. \E seq \in [1 .. Cardinality(S) -> S] :
          \A i, j \in DOMAIN seq : i < j => rank[seq[i]] < rank[seq[j]]
    BY <1>4, <2>1, <2>2, <2>3, OrderExists
  <2>5. due \in [1 .. Cardinality(S) -> S]
    BY <2>4 DEF InOrder
  <2> QED
    BY <2>1, <2>5
<1> HIDE DEF S, due
<1>6. due \in Seq(1 .. m)
  <2> DEFINE U == 1 .. m
             c == Cardinality(S)
  <2>1. S \subseteq U
    BY <1>3
  <2>2. due \in [1 .. c -> S] /\ c \in Nat
    BY <1>5
  <2> HIDE DEF U, c
  <2>3. due \in [1 .. c -> U]
    BY <2>1, <2>2
  <2>4. due \in Seq(U)
    BY <2>2, <2>3, FunctionIsSeq
  <2> QED
    BY <2>4 DEF U
<1>7. /\ SubSeq(due, 1, SmallerOf(room, Len(due))) \in Seq(1 .. m)
      /\ Len(SubSeq(due, 1, SmallerOf(room, Len(due)))) \in 0 .. room
  BY <1>6, FirstOf
<1> QED
  BY <1>2, <1>7 DEF m

LEMMA SentPartsKeep ==
  ASSUME NEW rec, NEW at, NEW len, RecordOf(rec, at, len),
         NEW ks \in Seq(1 .. Len(rec.parts))
  PROVE  /\ RecordOf(SentParts(rec, ks), at, len)
         /\ SentParts(rec, ks).acked = rec.acked
<1> DEFINE all == rec.gone \cup {ks[i] : i \in 1 .. Len(ks)}
           gone == IF all = 1 .. Len(rec.parts) THEN {} ELSE all
           new == SentParts(rec, ks)
<1>1. rec = [at |-> rec.at, len |-> rec.len, mode |-> rec.mode, acked |-> rec.acked,
             unknown |-> rec.unknown, parts |-> rec.parts, gone |-> rec.gone]
  BY DEF RecordOf
<1>2. new = [rec EXCEPT !.gone = gone]
  BY DEF SentParts
<1>3. gone \in SUBSET (1 .. Len(rec.parts))
  <2>1. rec.gone \in SUBSET (1 .. Len(rec.parts))
    BY DEF RecordOf
  <2>2. \A i \in 1 .. Len(ks) : ks[i] \in 1 .. Len(rec.parts)
    OBVIOUS
  <2> QED
    BY <2>1, <2>2
<1> HIDE DEF gone, new
<1>4. new = [at |-> rec.at, len |-> rec.len, mode |-> rec.mode, acked |-> rec.acked,
             unknown |-> rec.unknown, parts |-> rec.parts, gone |-> gone]
  BY <1>1, <1>2
<1>5. /\ new.at = rec.at /\ new.len = rec.len /\ new.mode = rec.mode /\ new.parts = rec.parts
      /\ new.gone = gone /\ new.acked = rec.acked
  BY <1>4
<1>6. new = [at |-> new.at, len |-> new.len, mode |-> new.mode, acked |-> new.acked,
             unknown |-> new.unknown, parts |-> new.parts, gone |-> new.gone]
  BY <1>4
<1>7. RecordOf(new, at, len)
  BY <1>3, <1>5, <1>6 DEF RecordOf
<1> QED
  BY <1>5, <1>7 DEF new

LEMMA PieceFrameIs ==
  ASSUME NEW rec, NEW x \in Nat, NEW start \in [Nat -> Nat],
         RecordOf(rec, start[x], LenOf(start, x)), NEW part \in PiecesIn(LenOf(start, x))
  PROVE  /\ PieceFrame(rec, x % SeqMod, part) \in Frames
         /\ FrameOf(PieceFrame(rec, x % SeqMod, part), x, start)
<1> DEFINE f == PieceFrame(rec, x % SeqMod, part)
           q == x % SeqMod
           len == LenOf(start, x)
<1>1. rec.at = start[x] /\ start[x] \in Nat
  BY DEF RecordOf
<1>2. /\ part.offset \in Nat /\ part.len \in Nat /\ part.len > 0 /\ part.last \in BOOLEAN
      /\ part.offset + part.len <= len
      /\ part.last => part.offset + part.len = len
  BY DEF PiecesIn
<1>3. q \in Seqs
  BY NumIsSeq
<1> HIDE DEF q, len
<1>4. f = [seq |-> q, at |-> start[x] + part.offset, len |-> part.len,
           offset |-> part.offset, piece |-> TRUE, last |-> part.last]
  BY <1>1 DEF PieceFrame, q
<1> HIDE DEF f
<1>5. start[x] + part.offset \in Nat
  BY <1>1, <1>2
<1>6. f \in Frames
  BY <1>2, <1>3, <1>4, <1>5 DEF Frames
<1>7. /\ f.seq = q /\ f.at = start[x] + part.offset /\ f.len = part.len
      /\ f.offset = part.offset /\ f.piece = TRUE /\ f.last = part.last
  BY <1>4
<1>8. FrameOf(f, x, start)
  BY <1>2, <1>7 DEF FrameOf, q, len
<1> QED
  BY <1>6, <1>8 DEF f

LEMMA WholeFrameIs ==
  ASSUME NEW rec, NEW x \in Nat, NEW start \in [Nat -> Nat], LenOf(start, x) \in Nat \ {0},
         RecordOf(rec, start[x], LenOf(start, x))
  PROVE  /\ WholeFrame(rec, x % SeqMod) \in Frames
         /\ FrameOf(WholeFrame(rec, x % SeqMod), x, start)
<1> DEFINE f == WholeFrame(rec, x % SeqMod)
           q == x % SeqMod
           len == LenOf(start, x)
<1>1. rec.at = start[x] /\ start[x] \in Nat /\ rec.len = len /\ len \in Nat /\ len > 0
  BY DEF RecordOf
<1>2. q \in Seqs
  BY NumIsSeq
<1> HIDE DEF q, len
<1>3. f = [seq |-> q, at |-> start[x], len |-> len, offset |-> 0, piece |-> FALSE, last |-> TRUE]
  BY <1>1 DEF WholeFrame, q
<1> HIDE DEF f
<1>4. f \in Frames
  BY <1>1, <1>2, <1>3 DEF Frames
<1>5. /\ f.seq = q /\ f.at = start[x] /\ f.len = len
      /\ f.offset = 0 /\ f.piece = FALSE /\ f.last = TRUE
  BY <1>3
<1>6. FrameOf(f, x, start)
  BY <1>1, <1>5 DEF FrameOf, q, len
<1> QED
  BY <1>4, <1>6 DEF f

\* Records of the blocks, acknowledged where the old ones are.
RecordsOf(new, old, tb, tn, start) ==
  /\ DOMAIN new = NumbersOf(tb .. (tn - 1))
  /\ \A x \in tb .. (tn - 1) :
       /\ RecordOf(new[x % SeqMod], start[x], LenOf(start, x))
       /\ new[x % SeqMod].acked = old[x % SeqMod].acked

\* Frames of blocks in the window.
FramesOf(frames, tb, tn, start) ==
  /\ frames \in Seq(Frames)
  /\ \A i \in 1 .. Len(frames) : \E x \in tb .. (tn - 1) : FrameOf(frames[i], x, start)

LEMMA FramesJoin ==
  ASSUME NEW p, NEW r, NEW tb, NEW tn, NEW start,
         FramesOf(p, tb, tn, start), FramesOf(r, tb, tn, start)
  PROVE  FramesOf(Joined(p, r), tb, tn, start)
<1>1. p \in Seq(Frames) /\ r \in Seq(Frames)
  BY DEF FramesOf
<1> DEFINE F == Frames
           all == p \o r
<1> HIDE DEF F
<1>2. p \in Seq(F) /\ r \in Seq(F)
  BY <1>1 DEF F
<1>3. /\ all \in Seq(F) /\ Len(all) = Len(p) + Len(r) /\ Len(p) \in Nat /\ Len(r) \in Nat
      /\ \A i \in 1 .. Len(p) : all[i] = p[i]
      /\ \A i \in (Len(p) + 1) .. (Len(p) + Len(r)) : all[i] = r[i - Len(p)]
  BY <1>2
<1> HIDE DEF all
<1>4. ASSUME NEW i \in 1 .. Len(all)
      PROVE  \E x \in tb .. (tn - 1) : FrameOf(all[i], x, start)
  <2>1. CASE i <= Len(p)
    <3>1. i \in 1 .. Len(p) /\ all[i] = p[i]
      BY <1>3, <2>1
    <3> QED
      BY <3>1 DEF FramesOf
  <2>2. CASE ~ (i <= Len(p))
    <3>1. i - Len(p) \in 1 .. Len(r) /\ all[i] = r[i - Len(p)]
      BY <1>3, <2>2
    <3> QED
      BY <3>1 DEF FramesOf
  <2> QED
    BY <2>1, <2>2
<1>5. FramesOf(all, tb, tn, start)
  BY <1>3, <1>4 DEF FramesOf, F
<1> QED
  BY <1>5 DEF all, Joined

\* One block's pieces, of those the room is left for.
PiecesOut(records, q, was) ==
  LET rec == records[q]
      ks == NextParts(rec, was.left)
  IN  [left |-> was.left - Len(ks),
       records |-> [was.records EXCEPT ![q] = SentParts(rec, ks)],
       frames |-> was.frames \o
         [i \in 1 .. Len(ks) |-> PieceFrame(rec, q, rec.parts[ks[i]])]]

OutInv(now, records, tb, tn, start) ==
  /\ now.left \in Nat
  /\ RecordsOf(now.records, records, tb, tn, start)
  /\ FramesOf(now.frames, tb, tn, start)

LEMMA PiecesOutKeep ==
  ASSUME NEW records, NEW was, NEW tb \in Nat, NEW tn \in Nat, tn <= tb + Window,
         NEW start \in [Nat -> Nat], RecordsOf(records, records, tb, tn, start),
         OutInv(was, records, tb, tn, start), NEW q \in NumbersOf(tb .. (tn - 1))
  PROVE  OutInv(PiecesOut(records, q, was), records, tb, tn, start)
<1> DEFINE rec == records[q]
           ks == NextParts(rec, was.left)
           sent == SentParts(rec, ks)
           list == [was.records EXCEPT ![q] = sent]
           frames == [i \in 1 .. Len(ks) |-> PieceFrame(rec, q, rec.parts[ks[i]])]
           now == PiecesOut(records, q, was)
<1>1. PICK x \in tb .. (tn - 1) : q = x % SeqMod
  BY DEF NumbersOf
<1> DEFINE at == start[x]
           len == LenOf(start, x)
<1>2. RecordOf(rec, at, len)
  BY <1>1 DEF RecordsOf
<1>3. was.left \in Nat
  BY DEF OutInv
<1>4. now = [left |-> was.left - Len(ks), records |-> list,
             frames |-> Joined(was.frames, frames)]
  BY DEF PiecesOut, Joined
<1> HIDE DEF rec, at, len, now
<1>5. ks \in Seq(1 .. Len(rec.parts)) /\ Len(ks) \in 0 .. was.left
  BY <1>2, <1>3, NextPartsAre
<1> HIDE DEF ks
<1>6. RecordOf(sent, at, len) /\ sent.acked = rec.acked
  BY <1>2, <1>5, SentPartsKeep
<1> HIDE DEF sent
<1>7. RecordsOf(list, records, tb, tn, start)
  <2>1. DOMAIN was.records = NumbersOf(tb .. (tn - 1))
    BY DEF OutInv, RecordsOf
  <2>2. DOMAIN list = NumbersOf(tb .. (tn - 1))
    BY <2>1
  <2>3. ASSUME NEW y \in tb .. (tn - 1)
        PROVE  /\ RecordOf(list[y % SeqMod], start[y], LenOf(start, y))
               /\ list[y % SeqMod].acked = records[y % SeqMod].acked
    <3>1. CASE y = x
      <4>1. list[q] = sent
        BY <2>1
      <4> HIDE DEF list
      <4> QED
        BY <1>1, <1>6, <3>1, <4>1 DEF rec, at, len
    <3>2. CASE y # x
      <4> DEFINE p == y % SeqMod
      <4>1. p # q
        <5>1. CASE y % SeqMod = x % SeqMod
          <6>1. y = x
            BY <5>1, InOneWindow
          <6> QED
            BY <3>2, <6>1
        <5> QED
          BY <1>1, <5>1
      <4>2. p \in NumbersOf(tb .. (tn - 1))
        BY DEF NumbersOf
      <4> HIDE DEF p
      <4>3. list[p] = was.records[p]
        BY <2>1, <4>1, <4>2
      <4> HIDE DEF list
      <4>4. /\ RecordOf(was.records[p], start[y], LenOf(start, y))
            /\ was.records[p].acked = records[p].acked
        BY DEF OutInv, RecordsOf, p
      <4> QED
        BY <4>3, <4>4 DEF p
    <3> QED
      BY <3>1, <3>2
  <2> HIDE DEF list
  <2> QED
    BY <2>2, <2>3 DEF RecordsOf
<1>8. FramesOf(frames, tb, tn, start)
  <2>1. ASSUME NEW i \in 1 .. Len(ks)
        PROVE  /\ PieceFrame(rec, q, rec.parts[ks[i]]) \in Frames
               /\ FrameOf(PieceFrame(rec, q, rec.parts[ks[i]]), x, start)
    <3> DEFINE part == rec.parts[ks[i]]
    <3>1. rec.parts \in Seq(PiecesIn(len))
      BY <1>2 DEF RecordOf
    <3>2. part \in PiecesIn(len)
      <4> DEFINE K == 1 .. Len(rec.parts)
                 P == PiecesIn(len)
                 k == ks[i]
                 parts == rec.parts
      <4>1. parts \in Seq(P) /\ ks \in Seq(K)
        BY <1>5, <3>1
      <4> HIDE DEF P, K
      <4>2. k \in K
        BY <4>1, ElementOf
      <4>3. k \in 1 .. Len(parts)
        BY <4>2 DEF K
      <4> HIDE DEF k, parts
      <4>4. parts[k] \in P
        BY <4>1, <4>3, ElementOf
      <4> QED
        BY <4>4 DEF P, k, parts
    <3> HIDE DEF part
    <3>3. x \in Nat
      OBVIOUS
    <3>4. /\ PieceFrame(rec, x % SeqMod, part) \in Frames
          /\ FrameOf(PieceFrame(rec, x % SeqMod, part), x, start)
      BY <1>2, <3>2, <3>3, PieceFrameIs DEF at, len
    <3> QED
      BY <1>1, <3>4 DEF part
  <2> DEFINE F == Frames
             piece(i) == PieceFrame(rec, q, rec.parts[ks[i]])
  <2>2. \A i \in 1 .. Len(ks) : piece(i) \in F /\ FrameOf(piece(i), x, start)
    BY <2>1
  <2>3. Len(ks) \in Nat
    BY <1>5
  <2>4. frames = [i \in 1 .. Len(ks) |-> piece(i)]
    OBVIOUS
  <2> HIDE DEF F, piece, frames
  <2>5. frames \in Seq(F) /\ Len(frames) = Len(ks)
    <3> DEFINE n == Len(ks)
    <3> HIDE DEF n
    <3>1. n \in Nat /\ frames \in [1 .. n -> F]
      BY <2>2, <2>3, <2>4 DEF n
    <3>2. frames \in Seq(F) /\ Len(frames) = n
      BY <3>1, FunctionIsSeq
    <3> QED
      BY <3>2 DEF n
  <2>6. \A i \in 1 .. Len(frames) : frames[i] = piece(i) /\ i \in 1 .. Len(ks)
    BY <2>4, <2>5
  <2>7. \A i \in 1 .. Len(frames) : FrameOf(frames[i], x, start)
    BY <2>2, <2>6
  <2> QED
    BY <2>5, <2>7 DEF FramesOf, F
<1>9. FramesOf(Joined(was.frames, frames), tb, tn, start)
  <2>1. FramesOf(was.frames, tb, tn, start)
    BY DEF OutInv
  <2> HIDE DEF frames
  <2> QED
    BY <1>8, <2>1, FramesJoin
<1>10. was.left - Len(ks) \in Nat
  <2> DEFINE n == Len(ks)
             room == was.left
  <2>1. n \in 0 .. room /\ room \in Nat
    BY <1>3, <1>5
  <2> HIDE DEF n, room
  <2>2. room - n \in Nat
    BY <2>1
  <2> QED
    BY <2>2 DEF n, room
<1> HIDE DEF list, frames
<1>11. OutInv(now, records, tb, tn, start)
  BY <1>4, <1>7, <1>9, <1>10 DEF OutInv
<1> QED
  BY <1>11 DEF now
\* The recursive function of PieceFrames.
OutUpTo(records, seqs, room, n, out) ==
  out = [k \in 0 .. n |->
           IF k = 0 THEN [left |-> room, records |-> records, frames |-> <<>>]
           ELSE PiecesOut(records, seqs[k], out[k - 1])]

LEMMA OutExists ==
  ASSUME NEW records, NEW seqs, NEW room
  PROVE  \A n \in Nat : \E out : OutUpTo(records, seqs, room, n, out)
<1> DEFINE T == {n \in Nat : \E out : OutUpTo(records, seqs, room, n, out)}
           none == [left |-> room, records |-> records, frames |-> <<>>]
           more(k, was) == PiecesOut(records, seqs[k], was)
<1> HIDE DEF none, more
<1>1. 0 \in T
  <2> DEFINE f == [k \in 0 .. 0 |-> none]
  <2>1. f = [k \in 0 .. 0 |-> IF k = 0 THEN none ELSE more(k, f[k - 1])]
    OBVIOUS
  <2> HIDE DEF f
  <2> QED
    BY <2>1 DEF OutUpTo, none, more
<1>2. ASSUME NEW n \in Nat, n \in T
      PROVE  n + 1 \in T
  <2>1. PICK f : OutUpTo(records, seqs, room, n, f)
    BY <1>2
  <2>2. f = [k \in 0 .. n |-> IF k = 0 THEN none ELSE more(k, f[k - 1])]
    BY <2>1 DEF OutUpTo, none, more
  <2> DEFINE g == [k \in 0 .. n + 1 |-> IF k = 0 THEN none ELSE more(k, f[k - 1])]
  <2>3. \A k \in 0 .. n : g[k] = f[k]
    <3>1. ASSUME NEW k \in 0 .. n
          PROVE  g[k] = f[k]
      <4>1. f[k] = IF k = 0 THEN none ELSE more(k, f[k - 1])
        BY <2>2
      <4> QED
        BY <4>1
    <3> QED
      BY <3>1
  <2>4. g = [k \in 0 .. n + 1 |-> IF k = 0 THEN none ELSE more(k, g[k - 1])]
    <3>1. ASSUME NEW k \in 0 .. n + 1, k # 0
          PROVE  g[k - 1] = f[k - 1]
      <4>1. k - 1 \in 0 .. n
        BY <3>1
      <4> HIDE DEF g
      <4> QED
        BY <2>3, <4>1
    <3> QED
      BY <3>1
  <2> HIDE DEF g
  <2>5. OutUpTo(records, seqs, room, n + 1, g)
    BY <2>4 DEF OutUpTo, none, more
  <2> QED
    BY <2>5
<1> HIDE DEF T
<1>3. Nat \subseteq T
  BY <1>1, <1>2, SetInduction
<1> QED
  BY <1>3 DEF T

LEMMA PieceFramesKeep ==
  ASSUME NEW records, NEW tb \in Nat, NEW tn \in Nat, tn <= tb + Window,
         NEW start \in [Nat -> Nat], RecordsOf(records, records, tb, tn, start),
         NEW seqs \in Seq(NumbersOf(tb .. (tn - 1))), NEW room \in Nat
  PROVE  OutInv(PieceFrames(records, seqs, room), records, tb, tn, start)
<1> DEFINE n == Len(seqs)
           out[k \in 0 .. n] ==
             IF k = 0 THEN [left |-> room, records |-> records, frames |-> <<>>]
             ELSE PiecesOut(records, seqs[k], out[k - 1])
           Is(k) == OutInv(out[k], records, tb, tn, start)
           T == {k \in Nat : k <= n => Is(k)}
<1>1. PieceFrames(records, seqs, room) = out[n]
  BY DEF PieceFrames, PiecesOut
<1>2. n \in Nat
  OBVIOUS
<1>3. OutUpTo(records, seqs, room, n, out)
  <2>1. \E f : OutUpTo(records, seqs, room, n, f)
    <3> HIDE DEF n
    <3> QED
      BY <1>2, OutExists
  <2>2. \E f : f = [k \in 0 .. n |->
                      IF k = 0 THEN [left |-> room, records |-> records, frames |-> <<>>]
                      ELSE PiecesOut(records, seqs[k], f[k - 1])]
    BY <2>1 DEF OutUpTo
  <2>3. out = [k \in 0 .. n |->
                 IF k = 0 THEN [left |-> room, records |-> records, frames |-> <<>>]
                 ELSE PiecesOut(records, seqs[k], out[k - 1])]
    BY <2>2
  <2> HIDE DEF out
  <2> QED
    BY <2>3 DEF OutUpTo
<1> HIDE DEF out
<1>4. 0 \in T
  <2>1. out[0] = [left |-> room, records |-> records, frames |-> <<>>]
    BY <1>2, <1>3 DEF OutUpTo
  <2>2. <<>> \in Seq(Frames) /\ Len(<<>>) = 0
    <3> DEFINE F == Frames
    <3> HIDE DEF F
    <3>1. <<>> \in Seq(F) /\ Len(<<>>) = 0
      OBVIOUS
    <3> QED
      BY <3>1 DEF F
  <2>3. FramesOf(<<>>, tb, tn, start)
    BY <2>2 DEF FramesOf
  <2>4. Is(0)
    BY <2>1, <2>3 DEF OutInv
  <2> HIDE DEF Is
  <2> QED
    BY <2>4
<1>5. ASSUME NEW k \in Nat, k \in T, k + 1 <= n
      PROVE  Is(k + 1)
  <2>1. OutInv(out[k], records, tb, tn, start)
    BY <1>2, <1>5
  <2>2. out[k + 1] = PiecesOut(records, seqs[k + 1], out[k])
    <3>1. k + 1 \in 0 .. n /\ k + 1 # 0 /\ (k + 1) - 1 = k
      BY <1>2, <1>5
    <3>2. out[k + 1] = IF k + 1 = 0 THEN [left |-> room, records |-> records, frames |-> <<>>]
                       ELSE PiecesOut(records, seqs[k + 1], out[(k + 1) - 1])
      BY <1>3, <3>1 DEF OutUpTo
    <3> QED
      BY <3>1, <3>2
  <2>3. seqs[k + 1] \in NumbersOf(tb .. (tn - 1))
    <3> DEFINE S == NumbersOf(tb .. (tn - 1))
    <3>1. seqs \in Seq(S)
      OBVIOUS
    <3> HIDE DEF S
    <3>2. k + 1 \in 1 .. Len(seqs)
      BY <1>5
    <3>3. seqs[k + 1] \in S
      BY <3>1, <3>2, ElementOf
    <3> QED
      BY <3>3 DEF S
  <2>4. OutInv(PiecesOut(records, seqs[k + 1], out[k]), records, tb, tn, start)
    BY <2>1, <2>3, PiecesOutKeep
  <2> QED
    BY <2>2, <2>4
<1>6. ASSUME NEW k \in Nat, k \in T
      PROVE  k + 1 \in T
  <2>1. k + 1 <= n => Is(k + 1)
    BY <1>5, <1>6
  <2> HIDE DEF Is, n
  <2> QED
    BY <2>1
<1> HIDE DEF T
<1>7. Nat \subseteq T
  BY <1>4, <1>6, SetInduction
<1>8. Is(n)
  BY <1>2, <1>7 DEF T
<1> QED
  BY <1>1, <1>8

\* Where the blocks begin when the queue is cut, a frame's room each.
Recut(start, tn, cap, queue) ==
  [m \in Nat |-> IF m <= tn THEN start[m] ELSE start[tn] + SmallerOf((m - tn) * cap, queue)]

RecutMeans(start, start1, tn, n, cap, queue) ==
  /\ start1 \in [Nat -> Nat]
  /\ \A m \in 0 .. tn : start1[m] = start[m]
  /\ \A i \in 1 .. n :
       /\ (i - 1) * cap \in Nat /\ (i - 1) * cap < queue
       /\ start1[tn + i - 1] = start[tn] + (i - 1) * cap
       /\ LenOf(start1, tn + i - 1) = SmallerOf(cap, queue - (i - 1) * cap)
  /\ Cuts(tn + n, start1)
  /\ n * cap \in Nat /\ start1[tn + n] = start[tn] + SmallerOf(n * cap, queue)

LEMMA RecutIs ==
  ASSUME NEW tn \in Nat, NEW n \in Nat, NEW start \in [Nat -> Nat], Cuts(tn, start),
         NEW cap \in Nat \ {0}, NEW queue \in Nat, n <= (queue + cap - 1) \div cap,
         NEW start1, start1 = Recut(start, tn, cap, queue)
  PROVE  RecutMeans(start, start1, tn, n, cap, queue)
<1> DEFINE count == (queue + cap - 1) \div cap
           U(i) == SmallerOf(i * cap, queue)
<1>1. /\ count \in Nat
      /\ \A k \in 1 .. count : (k - 1) * cap \in Nat /\ (k - 1) * cap < queue
      /\ \A k \in 1 .. count : k * cap = ((k - 1) * cap) + cap
  BY RoundUp
<1>2. n <= count
  OBVIOUS
<1> HIDE DEF count
<1>3. \A k \in 1 .. n : k \in 1 .. count
  BY <1>1, <1>2
<1>4. \A i \in Nat : i * cap \in Nat /\ U(i) \in Nat
  <2>1. ASSUME NEW i \in Nat
        PROVE  i * cap \in Nat /\ U(i) \in Nat
    <3>1. i * cap \in Nat
      OBVIOUS
    <3> QED
      BY <3>1, Smaller
  <2> QED
    BY <2>1
<1>5. start[tn] \in Nat
  OBVIOUS
<1>6. \A m \in 0 .. tn : start1[m] = start[m]
  BY DEF Recut
<1>7. U(0) = 0
  <2>1. 0 * cap = 0
    OBVIOUS
  <2> QED
    BY <2>1 DEF SmallerOf
<1>8. ASSUME NEW i \in Nat
      PROVE  start1[tn + i] = start[tn] + U(i)
  <2>1. CASE i = 0
    BY <1>5, <1>6, <1>7, <2>1
  <2>2. CASE i # 0
    <3>1. tn + i \in Nat /\ ~ (tn + i <= tn) /\ (tn + i) - tn = i
      BY <2>2
    <3>2. start1[tn + i] = start[tn] + SmallerOf(((tn + i) - tn) * cap, queue)
      BY <3>1 DEF Recut
    <3> QED
      BY <3>1, <3>2
  <2> QED
    BY <2>1, <2>2
<1>9. start1 \in [Nat -> Nat]
  <2>1. ASSUME NEW m \in Nat
        PROVE  start1[m] \in Nat
    <3>1. CASE m <= tn
      BY <1>6, <3>1
    <3>2. CASE ~ (m <= tn)
      <4>1. m - tn \in Nat /\ tn + (m - tn) = m
        BY <3>2
      <4>2. start1[tn + (m - tn)] = start[tn] + U(m - tn)
        BY <1>8, <4>1
      <4> HIDE DEF U
      <4>3. U(m - tn) \in Nat
        BY <1>4, <4>1
      <4> QED
        BY <1>5, <4>1, <4>2, <4>3
    <3> QED
      BY <3>1, <3>2
  <2>2. start1 = [m \in Nat |-> start1[m]]
    BY DEF Recut
  <2> QED
    BY <2>1, <2>2
<1>10. ASSUME NEW i \in 1 .. n
       PROVE  /\ (i - 1) * cap \in Nat /\ (i - 1) * cap < queue
              /\ U(i - 1) = (i - 1) * cap
              /\ U(i) = U(i - 1) + SmallerOf(cap, queue - (i - 1) * cap)
              /\ U(i - 1) < U(i)
  <2> DEFINE a == (i - 1) * cap
  <2>1. a \in Nat /\ a < queue /\ i * cap = a + cap
    BY <1>1, <1>3
  <2>2. U(i - 1) = SmallerOf(a, queue) /\ U(i) = SmallerOf(i * cap, queue)
    OBVIOUS
  <2> HIDE DEF a, U
  <2>3. SmallerOf(a, queue) = a
    BY <2>1 DEF SmallerOf
  <2>4. SmallerOf(a + cap, queue) = a + SmallerOf(cap, queue - a)
    BY <2>1 DEF SmallerOf
  <2>5. SmallerOf(cap, queue - a) \in Nat \ {0}
    BY <2>1 DEF SmallerOf
  <2>6. U(i - 1) = a /\ U(i) = a + SmallerOf(cap, queue - a)
    BY <2>1, <2>2, <2>3, <2>4
  <2>7. U(i - 1) < U(i)
    <3> DEFINE d == SmallerOf(cap, queue - a)
    <3>1. d \in Nat \ {0} /\ U(i) = a + d
      BY <2>5, <2>6
    <3> HIDE DEF d
    <3> QED
      BY <2>1, <2>6, <3>1
  <2> QED
    BY <2>1, <2>6, <2>7 DEF a
<1>11. ASSUME NEW i \in 1 .. n
       PROVE  /\ start1[tn + i - 1] = start[tn] + (i - 1) * cap
              /\ LenOf(start1, tn + i - 1) = SmallerOf(cap, queue - (i - 1) * cap)
  <2> DEFINE a == (i - 1) * cap
             d == SmallerOf(cap, queue - a)
             k == i - 1
  <2>1. k \in Nat /\ tn + k = tn + i - 1 /\ tn + i = (tn + i - 1) + 1 /\ i \in Nat
    OBVIOUS
  <2>2. start1[tn + k] = start[tn] + U(k) /\ start1[tn + i] = start[tn] + U(i)
    BY <1>8, <2>1
  <2>3. U(k) = a /\ U(i) = a + d /\ a \in Nat /\ a < queue
    BY <1>10
  <2> HIDE DEF U, a
  <2>4. d \in Int
    BY <2>3, Smaller
  <2> HIDE DEF d, k
  <2>5. start1[tn + i] - start1[tn + k] = d /\ start1[tn + k] = start[tn] + a
    BY <1>5, <2>2, <2>3, <2>4
  <2>6. LenOf(start1, tn + i - 1) = d
    BY <2>1, <2>5 DEF LenOf
  <2> QED
    BY <2>1, <2>5, <2>6 DEF a, d
<1>12. ASSUME NEW x \in 0 .. (tn + n), NEW y \in 0 .. (tn + n), x < y
       PROVE  start1[x] < start1[y]
  <2>1. CASE y <= tn
    <3>1. x \in 0 .. tn /\ y \in 0 .. tn
      BY <1>12, <2>1
    <3>2. start[x] < start[y]
      BY <1>12, <3>1 DEF Cuts
    <3> QED
      BY <1>6, <3>1, <3>2
  <2>2. CASE ~ (y <= tn)
    <3> DEFINE j == y - tn
    <3>1. j \in 1 .. n /\ j \in Nat /\ tn + j = y /\ j - 1 \in Nat
      BY <2>2
    <3>2. start1[y] = start[tn] + U(j)
      BY <1>8, <3>1
    <3>3. U(j - 1) < U(j) /\ U(j - 1) \in Nat /\ U(j) \in Nat /\ U(j - 1) = (j - 1) * cap
      BY <1>4, <1>10, <3>1
    <3> HIDE DEF U, j
    <3>4. CASE x <= tn
      <4>1. start1[x] = start[x] /\ start[x] <= start[tn] /\ start[x] \in Nat
        <5>1. x \in 0 .. tn /\ tn \in 0 .. tn
          BY <3>4
        <5> QED
          BY <1>6, <5>1, CutsGrow
      <4> QED
        BY <1>5, <3>2, <3>3, <4>1
    <3>5. CASE ~ (x <= tn)
      <4> DEFINE i == x - tn
      <4>1. i \in Nat /\ tn + i = x /\ i <= j - 1 /\ i + 1 \in 1 .. n /\ (i + 1) - 1 = i
        BY <1>12, <3>1, <3>5
      <4>2. start1[x] = start[tn] + U(i)
        BY <1>8, <4>1
      <4>3. U(i) = i * cap
        <5>1. U((i + 1) - 1) = ((i + 1) - 1) * cap
          BY <1>10, <4>1
        <5> QED
          BY <4>1, <5>1
      <4> HIDE DEF i
      <4>4. i * cap <= (j - 1) * cap
        BY <3>1, <4>1, MultGrows
      <4>5. U(i) <= U(j - 1) /\ U(i) \in Nat
        BY <1>4, <3>3, <4>1, <4>3, <4>4
      <4> QED
        BY <1>5, <3>2, <3>3, <4>2, <4>5
    <3> QED
      BY <3>4, <3>5
  <2> QED
    BY <2>1, <2>2
<1>13. Cuts(tn + n, start1)
  <2>1. start1[0] = 1
    <3>1. 0 \in 0 .. tn /\ start[0] = 1
      BY DEF Cuts
    <3> QED
      BY <1>6, <3>1
  <2> QED
    BY <1>12, <2>1 DEF Cuts
<1>14. n * cap \in Nat /\ start1[tn + n] = start[tn] + SmallerOf(n * cap, queue)
  BY <1>4, <1>8
<1> HIDE DEF U
<1> QED
  BY <1>6, <1>9, <1>10, <1>11, <1>13, <1>14 DEF RecutMeans

LEMMA NumbersGrow ==
  ASSUME NEW tb \in Nat, NEW tn \in Nat, NEW n \in Nat, tb <= tn
  PROVE  \A q : q \in NumbersOf(tb .. (tn + n - 1))
                  <=> q \in NumbersOf(tb .. (tn - 1)) \/ q \in NumbersOf(tn .. (tn + n - 1))
<1>1. ASSUME NEW x \in tb .. (tn + n - 1)
      PROVE  x \in tb .. (tn - 1) \/ x \in tn .. (tn + n - 1)
  OBVIOUS
<1>2. ASSUME NEW x \in tb .. (tn - 1)
      PROVE  x \in tb .. (tn + n - 1)
  OBVIOUS
<1>3. ASSUME NEW x \in tn .. (tn + n - 1)
      PROVE  x \in tb .. (tn + n - 1)
  OBVIOUS
<1> QED
  BY <1>1, <1>2, <1>3 DEF NumbersOf

\* What a cut leaves of the sender, with n new blocks, and their numbers.
CutBy(cut, old, h, tb, tn, start, n, start1) ==
  /\ \A m \in 0 .. tn : start1[m] = start[m]
  /\ SenderInv(cut.sender, h, tb, tn + n, start1)
  /\ cut.seqs \in Seq(NumbersOf(tb .. (tn + n - 1)))
  /\ \A x \in tb .. (tn - 1) : cut.sender.records[x % SeqMod] = old.records[x % SeqMod]
  /\ \A x \in tn .. (tn + n - 1) : cut.sender.records[x % SeqMod].acked = FALSE

\* New blocks are cut.
LEMMA CutKeeps ==
  ASSUME NEW s, NEW tb \in Nat, NEW tn \in Nat, NEW start \in [Nat -> Nat],
         SenderInv(s, host, tb, tn, start), host \in Nat, NEW mode \in Modes, NEW room \in Nat
  PROVE  \E n \in Nat, start1 \in [Nat -> Nat] :
           CutBy(Cut(s, mode, room), s, host, tb, tn, start, n, start1)
<1> DEFINE cap == Capacity[mode]
           count == (s.queue + cap - 1) \div cap
           n == SmallerOf(SmallerOf(room, Open(s)), count)
           at == host - s.queue
           list == [i \in 1 .. n |->
                      [at |-> at + (i - 1) * cap + 1,
                       len |-> SmallerOf(cap, s.queue - (i - 1) * cap), mode |-> mode,
                       acked |-> FALSE, unknown |-> FALSE, parts |-> <<>>, gone |-> {}]]
           seq == [i \in 1 .. n |-> SeqAfter(s.txNext, i - 1)]
           records == [q \in DOMAIN s.records \cup {seq[i] : i \in 1 .. n} |->
                         IF \E i \in 1 .. n : q = seq[i]
                         THEN list[CHOOSE i \in 1 .. n : q = seq[i]]
                         ELSE s.records[q]]
           queue == IF s.queue > n * cap THEN s.queue - n * cap ELSE 0
           next == SeqAfter(s.txNext, n)
           out == Cut(s, mode, room)
           new == [s EXCEPT !.queue = queue, !.txNext = next, !.records = records]
           start1 == Recut(start, tn, cap, s.queue)
<1>1. out = [seqs |-> seq, sender |-> new]
  BY DEF Cut
<1>2. cap \in Nat \ {0}
  BY ModeAssumption
<1>3. /\ s = [master |-> s.master, queue |-> s.queue, txBase |-> s.txBase,
              txNext |-> s.txNext, records |-> s.records, silent |-> s.silent,
              slot |-> s.slot, up |-> s.up]
      /\ s.txBase = tb % SeqMod /\ s.txNext = tn % SeqMod
      /\ DOMAIN s.records = NumbersOf(tb .. (tn - 1))
      /\ \A x \in tb .. (tn - 1) : RecordOf(s.records[x % SeqMod], start[x], LenOf(start, x))
      /\ Cuts(tn, start)
      /\ s.queue \in Nat /\ start[tn] + s.queue = host + 1 /\ start[tn] \in Nat
  BY DEF SenderInv
<1> HIDE DEF cap
<1>4. count \in Nat
  BY <1>2, <1>3, RoundUp
<1>5. /\ tb <= tn /\ tn - tb \in Nat /\ Open(s) = Window - (tn - tb) /\ Open(s) \in Nat
  <2>1. /\ SeqDistance(s.txNext, s.txBase) = tn - tb
        /\ tb <= tn /\ tn - tb <= Window /\ tn - tb \in Nat
    BY FlightIs
  <2>2. Open(s) = Window - (tn - tb)
    BY <2>1 DEF Open
  <2> QED
    BY <2>1, <2>2, SizesAre
<1> HIDE DEF count
<1>6. n \in Nat /\ n <= Open(s) /\ n <= count
  <2> DEFINE w == Open(s)
  <2>1. w \in Nat
    BY <1>5
  <2> HIDE DEF w
  <2>2. SmallerOf(SmallerOf(room, w), count) \in Nat /\ SmallerOf(SmallerOf(room, w), count) <= w
        /\ SmallerOf(SmallerOf(room, w), count) <= count
    BY <1>4, <2>1 DEF SmallerOf
  <2> QED
    BY <2>2 DEF w
<1>7. tn + n <= tb + Window
  BY <1>5, <1>6, SizesAre
<1> HIDE DEF n
<1>8. /\ start1 \in [Nat -> Nat]
      /\ \A m \in 0 .. tn : start1[m] = start[m]
      /\ \A i \in 1 .. n :
           /\ (i - 1) * cap \in Nat /\ (i - 1) * cap < s.queue
           /\ start1[tn + i - 1] = start[tn] + (i - 1) * cap
           /\ LenOf(start1, tn + i - 1) = SmallerOf(cap, s.queue - (i - 1) * cap)
      /\ Cuts(tn + n, start1)
      /\ n * cap \in Nat /\ start1[tn + n] = start[tn] + SmallerOf(n * cap, s.queue)
  <2>1. n <= (s.queue + cap - 1) \div cap
    BY <1>6 DEF count
  <2> HIDE DEF start1
  <2>2. start1 = Recut(start, tn, cap, s.queue)
    BY DEF start1
  <2> DEFINE held == s.queue
  <2>3. held \in Nat
    BY <1>3
  <2>4. n <= (held + cap - 1) \div cap
    BY <2>1
  <2>5. start1 = Recut(start, tn, cap, held)
    BY <2>2
  <2> HIDE DEF held
  <2>6. RecutMeans(start, start1, tn, n, cap, held)
    <3>1. Cuts(tn, start)
      BY <1>3
    <3>2. n \in Nat
      BY <1>6
    <3> HIDE DEF list, seq, records, queue, next, out, new, at
    <3> QED
      BY <1>2, <2>3, <2>4, <2>5, <3>1, <3>2, RecutIs
  <2> QED
    BY <2>6 DEF held, RecutMeans
<1>9. \A i \in 1 .. n : seq[i] = (tn + i - 1) % SeqMod /\ tn + i - 1 \in tn .. (tn + n - 1)
  <2>1. ASSUME NEW i \in 1 .. n
        PROVE  seq[i] = (tn + i - 1) % SeqMod /\ tn + i - 1 \in tn .. (tn + n - 1)
    <3>1. SeqAfter(tn % SeqMod, i - 1) = (tn + (i - 1)) % SeqMod
      BY AfterNum
    <3>2. tn + (i - 1) = tn + i - 1 /\ tn + i - 1 \in tn .. (tn + n - 1)
      BY <1>6
    <3> QED
      BY <1>3, <3>1, <3>2
  <2> QED
    BY <2>1
<1>10. DOMAIN seq = 1 .. n /\ DOMAIN list = 1 .. n
  OBVIOUS
<1>11. \A i \in 1 .. n :
         list[i] = [at |-> at + (i - 1) * cap + 1,
                    len |-> SmallerOf(cap, s.queue - (i - 1) * cap), mode |-> mode,
                    acked |-> FALSE, unknown |-> FALSE, parts |-> <<>>, gone |-> {}]
  OBVIOUS
<1>12. \A i \in 1 .. n : at + (i - 1) * cap + 1 = start1[tn + i - 1]
  <2>1. ASSUME NEW i \in 1 .. n
        PROVE  at + (i - 1) * cap + 1 = start1[tn + i - 1]
    <3> DEFINE a == (i - 1) * cap
               first == start[tn]
               held == s.queue
    <3>1. a \in Nat /\ start1[tn + i - 1] = first + a
      BY <1>8
    <3>2. first \in Nat /\ held \in Nat /\ first + held = host + 1
      BY <1>3
    <3> HIDE DEF a, first, held
    <3>3. (host - held) + a + 1 = first + a
      BY <3>1, <3>2
    <3> QED
      BY <3>1, <3>3 DEF a, held
  <2> QED
    BY <2>1
<1> HIDE DEF list, seq, start1, at
<1>13. ASSUME NEW x \in tn .. (tn + n - 1)
       PROVE  /\ x % SeqMod \in DOMAIN records
              /\ RecordOf(records[x % SeqMod], start1[x], LenOf(start1, x))
              /\ records[x % SeqMod].acked = FALSE
  <2> DEFINE i == x - tn + 1
             q == x % SeqMod
  <2>1. i \in 1 .. n /\ tn + i - 1 = x
    BY <1>6
  <2>2. q = seq[i]
    BY <1>9, <2>1
  <2>3. ASSUME NEW j \in 1 .. n, q = seq[j]
        PROVE  j = i
    <3> DEFINE y == tn + j - 1
               high == tn + n
    <3>1. seq[j] = y % SeqMod /\ y \in tn .. (high - 1)
      BY <1>6, <1>9
    <3>2. x \in tn .. (high - 1)
      BY <1>6
    <3>3. high \in Nat /\ high <= tn + Window
      BY <1>5, <1>6, <1>7, SizesAre
    <3> HIDE DEF y, high, q, i
    <3>4. x % SeqMod = y % SeqMod
      BY <2>3, <3>1 DEF q
    <3>5. y = x
      BY <3>1, <3>2, <3>3, <3>4, InOneWindow
    <3> QED
      BY <2>1, <3>5 DEF y
  <2>4. (CHOOSE j \in 1 .. n : q = seq[j]) = i
    BY <2>1, <2>2, <2>3
  <2>5. q \in DOMAIN records /\ records[q] = list[i]
    BY <2>1, <2>2, <2>4
  <2> DEFINE rec == list[i]
             len == LenOf(start1, x)
  <2> HIDE DEF records
  <2>6. rec = [at |-> start1[x], len |-> len, mode |-> mode,
               acked |-> FALSE, unknown |-> FALSE, parts |-> <<>>, gone |-> {}]
    <3> HIDE DEF i
    <3> QED
      BY <1>8, <1>11, <1>12, <2>1
  <2>7. len <= Capacity[mode]
    <3>1. len = SmallerOf(cap, s.queue - (i - 1) * cap) /\ (i - 1) * cap \in Nat
      <4> HIDE DEF i
      <4> QED
        BY <1>8, <2>1
    <3> DEFINE a == (i - 1) * cap
               held == s.queue
    <3>2. len = SmallerOf(cap, held - a) /\ a \in Nat /\ held \in Nat
      BY <1>3, <3>1
    <3> HIDE DEF a, held, len
    <3>3. len <= cap
      BY <1>2, <3>2, Smaller
    <3> QED
      BY <3>3 DEF cap
  <2> HIDE DEF rec, len, i
  <2>8. /\ rec.at = start1[x] /\ rec.len = len /\ rec.mode = mode /\ rec.parts = <<>>
        /\ rec.gone = {} /\ rec.acked = FALSE
        /\ rec = [at |-> rec.at, len |-> rec.len, mode |-> rec.mode, acked |-> rec.acked,
                  unknown |-> rec.unknown, parts |-> rec.parts, gone |-> rec.gone]
    BY <2>6
  <2>9. rec.parts \in Seq(PiecesIn(len))
    <3> DEFINE P == PiecesIn(len)
    <3> HIDE DEF P
    <3>1. rec.parts \in Seq(P)
      BY <2>8
    <3> QED
      BY <3>1 DEF P
  <2>10. RecordOf(rec, start1[x], len)
    BY <2>7, <2>8, <2>9 DEF RecordOf
  <2> QED
    BY <2>5, <2>8, <2>10 DEF rec, len, q
<1>14. ASSUME NEW x \in tb .. (tn - 1)
       PROVE  /\ x % SeqMod \in DOMAIN records
              /\ records[x % SeqMod] = s.records[x % SeqMod]
  <2> DEFINE q == x % SeqMod
  <2>1. q \in DOMAIN s.records
    BY <1>3 DEF NumbersOf
  <2>2. ASSUME NEW j \in 1 .. n, q = seq[j]
        PROVE  FALSE
    <3> DEFINE y == tn + j - 1
               high == tn + n
    <3>1. seq[j] = y % SeqMod /\ y \in tn .. (high - 1)
      BY <1>6, <1>9
    <3>2. high \in Nat /\ high <= tb + Window /\ tn <= high
      BY <1>6, <1>7
    <3> HIDE DEF y, high, q
    <3>3. x \in tb .. (high - 1) /\ y \in tb .. (high - 1) /\ x < y
      BY <1>5, <3>1, <3>2
    <3>4. x % SeqMod = y % SeqMod
      BY <2>2, <3>1 DEF q
    <3>5. y = x
      BY <3>2, <3>3, <3>4, InOneWindow
    <3> QED
      BY <3>3, <3>5
  <2> HIDE DEF q
  <2>3. q \in DOMAIN records /\ records[q] = s.records[q]
    BY <2>1, <2>2
  <2> QED
    BY <2>3 DEF q
<1>15. DOMAIN records = NumbersOf(tb .. (tn + n - 1))
  <2>1. DOMAIN records = DOMAIN s.records \cup {seq[i] : i \in 1 .. n}
    OBVIOUS
  <2>2. \A q : q \in {seq[i] : i \in 1 .. n} <=> q \in NumbersOf(tn .. (tn + n - 1))
    <3>1. ASSUME NEW i \in 1 .. n
          PROVE  seq[i] \in NumbersOf(tn .. (tn + n - 1))
      BY <1>9 DEF NumbersOf
    <3>2. ASSUME NEW x \in tn .. (tn + n - 1)
          PROVE  x % SeqMod \in {seq[i] : i \in 1 .. n}
      <4>1. x - tn + 1 \in 1 .. n /\ tn + (x - tn + 1) - 1 = x
        BY <1>6
      <4>2. seq[x - tn + 1] = x % SeqMod
        BY <1>9, <4>1
      <4> QED
        BY <4>1, <4>2
    <3> QED
      BY <3>1, <3>2 DEF NumbersOf
  <2>3. \A q : q \in NumbersOf(tb .. (tn + n - 1))
                 <=> q \in NumbersOf(tb .. (tn - 1)) \/ q \in NumbersOf(tn .. (tn + n - 1))
    BY <1>5, <1>6, NumbersGrow
  <2> HIDE DEF records
  <2> QED
    BY <1>3, <2>1, <2>2, <2>3
<1>16. \A x \in tb .. (tn - 1) :
         start1[x] = start[x] /\ LenOf(start1, x) = LenOf(start, x)
  <2>1. ASSUME NEW x \in tb .. (tn - 1)
        PROVE  start1[x] = start[x] /\ LenOf(start1, x) = LenOf(start, x)
    <3>1. x \in 0 .. tn /\ x + 1 \in 0 .. tn
      OBVIOUS
    <3> QED
      BY <1>8, <3>1 DEF LenOf
  <2> QED
    BY <2>1
<1>17. \A x \in tb .. (tn + n - 1) : x \in tb .. (tn - 1) \/ x \in tn .. (tn + n - 1)
  BY <1>6
<1>18. ASSUME NEW x \in tb .. (tn + n - 1)
       PROVE  RecordOf(records[x % SeqMod], start1[x], LenOf(start1, x))
  <2> HIDE DEF records
  <2>1. CASE x \in tb .. (tn - 1)
    BY <1>3, <1>14, <1>16, <2>1
  <2>2. CASE x \in tn .. (tn + n - 1)
    BY <1>13, <2>2
  <2> QED
    BY <1>17, <2>1, <2>2
<1>19. queue \in Nat /\ start1[tn + n] + queue = host + 1
  <2> DEFINE a == n * cap
             held == s.queue
             first == start[tn]
  <2>1. a \in Nat /\ start1[tn + n] = first + SmallerOf(a, held)
    BY <1>8
  <2>2. held \in Nat /\ first \in Nat /\ first + held = host + 1
    BY <1>3
  <2>3. queue = IF held > a THEN held - a ELSE 0
    OBVIOUS
  <2> HIDE DEF a, held, first, queue
  <2> QED
    BY <2>1, <2>2, <2>3 DEF SmallerOf
<1>20. next = (tn + n) % SeqMod
  BY <1>3, <1>6, AfterNum
<1> DEFINE m == tn + n
<1>27. /\ DOMAIN records = NumbersOf(tb .. (m - 1)) /\ next = m % SeqMod /\ m \in Nat /\ tb <= m
       /\ \A x \in tb .. (m - 1) : RecordOf(records[x % SeqMod], start1[x], LenOf(start1, x))
       /\ Cuts(m, start1) /\ m <= tb + Window
       /\ queue \in Nat /\ start1[m] + queue = host + 1
  <2> HIDE DEF records, queue, next
  <2> QED
    BY <1>5, <1>6, <1>7, <1>8, <1>15, <1>18, <1>19, <1>20
<1>28. s = [master |-> s.master, queue |-> s.queue, txBase |-> s.txBase,
            txNext |-> s.txNext, records |-> s.records, silent |-> s.silent,
            slot |-> s.slot, up |-> s.up]
  BY <1>3
<1>29. new = [s EXCEPT !.queue = queue, !.txNext = next, !.records = records]
  OBVIOUS
<1> HIDE DEF records, queue, next, m, new
<1>21. new = [master |-> s.master, queue |-> queue, txBase |-> s.txBase,
              txNext |-> next, records |-> records, silent |-> s.silent,
              slot |-> s.slot, up |-> s.up]
  BY <1>28, <1>29
<1>22. SenderInv(new, host, tb, m, start1)
  <2>1. /\ new.queue = queue /\ new.txBase = s.txBase /\ new.txNext = next
        /\ new.records = records
        /\ new = [master |-> new.master, queue |-> new.queue, txBase |-> new.txBase,
                  txNext |-> new.txNext, records |-> new.records,
                  silent |-> new.silent, slot |-> new.slot, up |-> new.up]
    BY <1>21
  <2>2. new.txBase = tb % SeqMod
    BY <1>3, <2>1
  <2> QED
    BY <1>27, <2>1, <2>2 DEF SenderInv
<1>23. seq \in Seq(NumbersOf(tb .. (tn + n - 1)))
  <2> DEFINE S == NumbersOf(tb .. (tn + n - 1))
  <2>1. \A i \in 1 .. n : seq[i] \in S
    <3>1. ASSUME NEW i \in 1 .. n
          PROVE  seq[i] \in S
      <4>1. tn + i - 1 \in tb .. (tn + n - 1)
        BY <1>5, <1>6
      <4> QED
        BY <1>9, <4>1 DEF NumbersOf
    <3> QED
      BY <3>1
  <2>2. seq = [i \in 1 .. n |-> seq[i]]
    BY DEF seq
  <2> HIDE DEF S
  <2>3. seq \in [1 .. n -> S]
    BY <2>1, <2>2
  <2>4. seq \in Seq(S)
    BY <1>6, <2>3, FunctionIsSeq
  <2> QED
    BY <2>4 DEF S
<1>24. out.sender = new /\ out.seqs = seq /\ new.records = records
  BY <1>1, <1>21
<1> HIDE DEF out
<1>25. CutBy(out, s, host, tb, tn, start, n, start1)
  BY <1>8, <1>13, <1>14, <1>22, <1>23, <1>24 DEF m, CutBy
<1>26. n \in Nat /\ start1 \in [Nat -> Nat]
  BY <1>6, <1>8
<1> QED
  BY <1>25, <1>26 DEF out

\* What a transmission leaves of the sender, with n new blocks, and its frames.
SentBy(out, old, h, tb, tn, start, n, start1) ==
  /\ start1 \in [Nat -> Nat] /\ \A m \in 0 .. tn : start1[m] = start[m]
  /\ SenderInv(out.sender, h, tb, tn + n, start1)
  /\ FramesOf(out.frames, tb, tn + n, start1)
  /\ \A x \in tb .. (tn - 1) :
       out.sender.records[x % SeqMod].acked = old.records[x % SeqMod].acked
  /\ \A x \in tn .. (tn + n - 1) : out.sender.records[x % SeqMod].acked = FALSE

\* Blocks whole, each as a frame.
LEMMA WholeFramesAre ==
  ASSUME NEW s, NEW h, NEW tb \in Nat, NEW tn \in Nat, NEW start \in [Nat -> Nat],
         SenderInv(s, h, tb, tn, start), NEW whole \in Seq(NumbersOf(tb .. (tn - 1)))
  PROVE  FramesOf([i \in 1 .. Len(whole) |-> WholeFrame(s.records[whole[i]], whole[i])],
                  tb, tn, start)
<1> DEFINE n == Len(whole)
           frames == [i \in 1 .. n |-> WholeFrame(s.records[whole[i]], whole[i])]
           S == NumbersOf(tb .. (tn - 1))
<1>1. n \in Nat
  OBVIOUS
<1>2. whole \in Seq(S)
  OBVIOUS
<1> HIDE DEF S
<1>3. ASSUME NEW i \in 1 .. n
      PROVE  frames[i] \in Frames /\ \E x \in tb .. (tn - 1) : FrameOf(frames[i], x, start)
  <2>1. whole[i] \in S
    BY <1>2, ElementOf
  <2>2. PICK x \in tb .. (tn - 1) : whole[i] = x % SeqMod
    BY <2>1 DEF S, NumbersOf
  <2> DEFINE rec == s.records[x % SeqMod]
  <2>3. RecordOf(rec, start[x], LenOf(start, x)) /\ Cuts(tn, start)
    BY DEF SenderInv
  <2>4. x \in Nat /\ x \in 0 .. (tn - 1)
    OBVIOUS
  <2>5. LenOf(start, x) \in Nat \ {0}
    BY <2>3, <2>4, LenIsPositive
  <2>6. frames[i] = WholeFrame(rec, x % SeqMod)
    BY <2>2
  <2> HIDE DEF rec, frames
  <2>7. WholeFrame(rec, x % SeqMod) \in Frames /\ FrameOf(WholeFrame(rec, x % SeqMod), x, start)
    BY <2>3, <2>4, <2>5, WholeFrameIs
  <2> QED
    BY <2>6, <2>7
<1>4. frames \in [1 .. n -> Frames]
  <2>1. frames = [i \in 1 .. n |-> frames[i]]
    OBVIOUS
  <2> HIDE DEF frames
  <2> QED
    BY <1>3, <2>1
<1> HIDE DEF frames, n
<1>5. frames \in Seq(Frames) /\ Len(frames) = n
  BY <1>1, <1>4, FunctionIsSeq
<1>6. FramesOf(frames, tb, tn, start)
  BY <1>3, <1>5 DEF FramesOf
<1> QED
  BY <1>6 DEF frames, n

LEMMA NoneAhead ==
  ASSUME NEW k \in Nat
  PROVE  k + 0 = k /\ \A x \in k .. (k + 0 - 1) : FALSE
OBVIOUS

\* Blocks in pieces go, and no other.
LEMMA PiecesGo ==
  ASSUME NEW s, NEW h, NEW tb \in Nat, NEW tn \in Nat, NEW start \in [Nat -> Nat],
         SenderInv(s, h, tb, tn, start),
         NEW seqs \in Seq(NumbersOf(tb .. (tn - 1))), NEW room \in Nat,
         NEW out, out = [sender |-> [s EXCEPT !.records =
                                       PieceFrames(s.records, seqs, room).records],
                         frames |-> PieceFrames(s.records, seqs, room).frames]
  PROVE  SentBy(out, s, h, tb, tn, start, 0, start)
<1> DEFINE pieces == PieceFrames(s.records, seqs, room)
           records == pieces.records
           new == [s EXCEPT !.records = records]
<1>1. /\ s = [master |-> s.master, queue |-> s.queue, txBase |-> s.txBase,
              txNext |-> s.txNext, records |-> s.records, silent |-> s.silent,
              slot |-> s.slot, up |-> s.up]
      /\ tn <= tb + Window /\ DOMAIN s.records = NumbersOf(tb .. (tn - 1))
  BY DEF SenderInv
<1>2. RecordsOf(s.records, s.records, tb, tn, start)
  BY DEF SenderInv, RecordsOf
<1> HIDE DEF pieces
<1>3. OutInv(pieces, s.records, tb, tn, start)
  BY <1>1, <1>2, PieceFramesKeep DEF pieces
<1>4. out.sender = new /\ out.frames = pieces.frames
  BY DEF pieces
<1>5. new = [s EXCEPT !.records = records]
  OBVIOUS
<1>6. RecordsOf(records, s.records, tb, tn, start) /\ FramesOf(pieces.frames, tb, tn, start)
  BY <1>3 DEF OutInv
<1> HIDE DEF records, new
<1>7. new = [master |-> s.master, queue |-> s.queue, txBase |-> s.txBase,
             txNext |-> s.txNext, records |-> records, silent |-> s.silent,
             slot |-> s.slot, up |-> s.up]
  BY <1>1, <1>5
<1>8. /\ new.queue = s.queue /\ new.txBase = s.txBase /\ new.txNext = s.txNext
      /\ new.records = records
      /\ new = [master |-> new.master, queue |-> new.queue, txBase |-> new.txBase,
                txNext |-> new.txNext, records |-> new.records,
                silent |-> new.silent, slot |-> new.slot, up |-> new.up]
  BY <1>7
<1>9. /\ DOMAIN new.records = DOMAIN s.records
      /\ \A x \in tb .. (tn - 1) : RecordOf(new.records[x % SeqMod], start[x], LenOf(start, x))
  BY <1>1, <1>6, <1>8 DEF RecordsOf
<1>10. SenderInv(new, h, tb, tn, start)
  BY <1>8, <1>9, RecordsKeep
<1>11. \A x \in tb .. (tn - 1) : new.records[x % SeqMod].acked = s.records[x % SeqMod].acked
  BY <1>6, <1>8 DEF RecordsOf
<1>12. tn + 0 = tn /\ \A x \in tn .. (tn + 0 - 1) : FALSE
  BY NoneAhead
<1> QED
  BY <1>4, <1>6, <1>10, <1>11, <1>12 DEF SentBy

WholeOut(cut, again) ==
  [sender |-> cut.sender,
   frames |-> [i \in 1 .. Len(again \o cut.seqs) |->
                 WholeFrame(cut.sender.records[(again \o cut.seqs)[i]], (again \o cut.seqs)[i])]]

\* Blocks go whole: some again, then those cut now.
LEMMA WholesGo ==
  ASSUME NEW s, NEW tb \in Nat, NEW tn \in Nat, NEW start \in [Nat -> Nat],
         SenderInv(s, host, tb, tn, start), host \in Nat,
         NEW again \in Seq(NumbersOf(tb .. (tn - 1))), NEW mode \in Modes, NEW room \in Nat,
         NEW cut, cut \in {Cut(s, mode, room), [seqs |-> <<>>, sender |-> s]},
         NEW out, out = WholeOut(cut, again)
  PROVE  \E n \in Nat, start1 \in [Nat -> Nat] : SentBy(out, s, host, tb, tn, start, n, start1)
<1>1. \E n \in Nat, start1 \in [Nat -> Nat] :
        CutBy(cut, s, host, tb, tn, start, n, start1)
  <2>1. CASE cut = Cut(s, mode, room)
    BY <2>1, CutKeeps
  <2>2. CASE cut = [seqs |-> <<>>, sender |-> s]
    <3>1. tn + 0 = tn /\ \A x \in tn .. (tn + 0 - 1) : FALSE
      BY NoneAhead
    <3>2. cut.seqs = <<>> /\ cut.sender = s
      BY <2>2
    <3> DEFINE S == NumbersOf(tb .. (tn + 0 - 1))
    <3> HIDE DEF S
    <3>3. cut.seqs \in Seq(S)
      BY <3>2
    <3>4. CutBy(cut, s, host, tb, tn, start, 0, start)
      BY <3>1, <3>2, <3>3 DEF S, CutBy
    <3> QED
      BY <3>4
  <2> QED
    BY <2>1, <2>2
<1>2. PICK n \in Nat, start1 \in [Nat -> Nat] :
        CutBy(cut, s, host, tb, tn, start, n, start1)
  BY <1>1
<1> DEFINE whole == again \o cut.seqs
           S == NumbersOf(tb .. (tn - 1))
           T == NumbersOf(tb .. (tn + n - 1))
           frames == [i \in 1 .. Len(whole) |->
                        WholeFrame(cut.sender.records[whole[i]], whole[i])]
<1>3. tb <= tn
  BY DEF SenderInv
<1>4. S \subseteq T
  BY <1>3, SMTT(30) DEF NumbersOf
<1>5. again \in Seq(S) /\ cut.seqs \in Seq(T)
  BY <1>2 DEF CutBy
<1> HIDE DEF S, T
<1>6. whole \in Seq(T)
  BY <1>4, <1>5
<1>7. out.sender = cut.sender /\ out.frames = frames
  BY DEF WholeOut
<1> HIDE DEF whole
<1>8. FramesOf(frames, tb, tn + n, start1)
  <2> DEFINE m == tn + n
             r == cut.sender
  <2>1. m \in Nat /\ SenderInv(r, host, tb, m, start1)
    BY <1>2 DEF CutBy
  <2>2. whole \in Seq(NumbersOf(tb .. (m - 1)))
    BY <1>6 DEF T
  <2> HIDE DEF m, r
  <2>3. FramesOf([i \in 1 .. Len(whole) |-> WholeFrame(r.records[whole[i]], whole[i])],
                 tb, m, start1)
    BY <2>1, <2>2, WholeFramesAre
  <2> QED
    BY <2>3 DEF m, r
<1> HIDE DEF frames
<1>9. SentBy(out, s, host, tb, tn, start, n, start1)
  BY <1>2, <1>7, <1>8 DEF SentBy, CutBy
<1> QED
  BY <1>9
\* A transmission: blocks in pieces, or blocks again and new ones.
LEMMA DataFramesKeep ==
  ASSUME NEW s0, NEW tb \in Nat, NEW tn \in Nat, NEW start \in [Nat -> Nat],
         SenderInv(s0, host, tb, tn, start), host \in Nat,
         NEW mode \in Modes, NEW down, NEW target \in Modes, NEW across, NEW room \in Nat
  PROVE  \E n \in Nat, start1 \in [Nat -> Nat] :
           SentBy(DataFrames(s0, mode, down, target, across, room), s0, host, tb, tn, start,
                  n, start1)
<1> DEFINE s == ComeDown(s0, down, target)
           ready == Ready(s)
           floor == IF ready # {} /\ ~across THEN IsFloor(s.records[Blocks(s, ready)[1]].mode)
                    ELSE IsFloor(mode)
           going == {q \in ready : IsFloor(s.records[q].mode) = floor}
           seqs == Blocks(s, going)
           split == Blocks(s, {q \in going : s.records[q].parts # <<>>})
           again == SubSeq(seqs, 1, SmallerOf(room, Len(seqs)))
           cut == IF floor = IsFloor(mode) THEN Cut(s, mode, room - Len(again))
                  ELSE [seqs |-> <<>>, sender |-> s]
           whole == again \o cut.seqs
           pieces == PieceFrames(s.records, split, room)
           inPieces == [sender |-> [s EXCEPT !.records = pieces.records],
                        frames |-> pieces.frames]
           inWhole == [sender |-> cut.sender,
                       frames |-> [i \in 1 .. Len(whole) |->
                                     WholeFrame(cut.sender.records[whole[i]], whole[i])]]
           out == DataFrames(s0, mode, down, target, across, room)
           S == NumbersOf(tb .. (tn - 1))
<1>1. out = IF split # <<>> THEN inPieces ELSE inWhole
  BY DEF DataFrames, ComeDown
<1>2. /\ SenderInv(s, host, tb, tn, start)
      /\ \A x \in tb .. (tn - 1) : s.records[x % SeqMod].acked = s0.records[x % SeqMod].acked
  BY ComeDownKeeps
<1> HIDE DEF s
<1>3. DOMAIN s.records = S
  BY <1>2 DEF SenderInv
<1>4. /\ ready \subseteq S /\ going \subseteq S
      /\ {q \in going : s.records[q].parts # <<>>} \subseteq S
  BY <1>3 DEF Ready, Unacked
<1>5. seqs \in Seq(going) /\ Len(seqs) \in Nat
  <2>1. going \in SUBSET DOMAIN s.records
    BY <1>3, <1>4
  <2> HIDE DEF going
  <2> QED
    BY <1>2, <2>1, BlocksAre
<1>6. split \in Seq(S)
  <2> DEFINE P == {q \in going : s.records[q].parts # <<>>}
  <2>1. P \in SUBSET DOMAIN s.records
    BY <1>3, <1>4
  <2>2. P \subseteq S
    BY <1>4
  <2> HIDE DEF P, S
  <2>3. Blocks(s, P) \in Seq(P)
    BY <1>2, <2>1, BlocksAre
  <2>4. Blocks(s, P) \in Seq(S)
    BY <2>2, <2>3
  <2> QED
    BY <2>4 DEF P
<1> HIDE DEF split, seqs
<1>7. again \in Seq(S) /\ room - Len(again) \in Nat
  <2>1. again \in Seq(going) /\ Len(again) \in 0 .. room
    <3> HIDE DEF going
    <3> QED
      BY <1>5, FirstOf
  <2> HIDE DEF again, going, S
  <2> QED
    BY <1>4, <2>1
<1> HIDE DEF again
<1>8. CASE split # <<>>
  <2>1. out = inPieces
    BY <1>1, <1>8
  <2> HIDE DEF out
  <2>2. SentBy(out, s, host, tb, tn, start, 0, start)
    BY <1>2, <1>6, <2>1, PiecesGo
  <2>3. SentBy(out, s0, host, tb, tn, start, 0, start)
    BY <1>2, <2>2 DEF SentBy
  <2> QED
    BY <2>3 DEF out
<1>9. CASE split = <<>>
  <2> DEFINE left == room - Len(again)
  <2>1. out = WholeOut(cut, again)
    BY <1>1, <1>9 DEF WholeOut
  <2>2. cut \in {Cut(s, mode, left), [seqs |-> <<>>, sender |-> s]} /\ left \in Nat
    BY <1>7
  <2> HIDE DEF out, cut, left
  <2>3. \E n \in Nat, start1 \in [Nat -> Nat] :
          SentBy(out, s, host, tb, tn, start, n, start1)
    BY <1>2, <1>7, <2>1, <2>2, WholesGo
  <2>4. PICK n \in Nat, start1 \in [Nat -> Nat] :
          SentBy(out, s, host, tb, tn, start, n, start1)
    BY <2>3
  <2>5. SentBy(out, s0, host, tb, tn, start, n, start1)
    BY <1>2, <2>4 DEF SentBy
  <2> QED
    BY <2>5 DEF out
<1> QED
  BY <1>8, <1>9
-----------------------------------------------------------------------------
\* The blocks already cut are as they were when more are cut.

Agree(start, start1, tn) == \A m \in 0 .. tn : start1[m] = start[m]

LEMMA AgreeMeans ==
  ASSUME NEW tn \in Nat, NEW start, NEW start1, Agree(start, start1, tn),
         NEW x \in 0 .. (tn - 1)
  PROVE  /\ start1[x] = start[x] /\ LenOf(start1, x) = LenOf(start, x)
         /\ BodyOf(start1, x) = BodyOf(start, x)
<1>1. x \in 0 .. tn /\ x + 1 \in 0 .. tn
  OBVIOUS
<1>2. start1[x] = start[x] /\ start1[x + 1] = start[x + 1]
  BY <1>1 DEF Agree
<1> QED
  BY <1>2 DEF LenOf, BodyOf

LEMMA ReceiverLonger ==
  ASSUME NEW r, NEW tn \in Nat, NEW rb \in Nat, NEW start, NEW start1, NEW m \in Nat,
         tn <= m, NEW buf, NEW held, Agree(start, start1, tn),
         ReceiverInv(r, tn, rb, start, buf, held)
  PROVE  ReceiverInv(r, m, rb, start1, buf, held)
<1>1. /\ r = [rxBase |-> r.rxBase, rxBuf |-> r.rxBuf, pieces |-> r.pieces,
              maxSeen |-> r.maxSeen, owed |-> r.owed, delivered |-> r.delivered]
      /\ r.rxBase = rb % SeqMod /\ r.maxSeen \in Seqs \cup {None}
      /\ buf \cap held = {}
      /\ DOMAIN r.rxBuf = NumbersOf(buf) /\ DOMAIN r.pieces = NumbersOf(held)
  BY DEF ReceiverInv
<1>2. rb <= tn /\ buf \subseteq rb .. (tn - 1) /\ held \subseteq rb .. (tn - 1)
  BY DEF ReceiverInv
<1>3. rb <= m
  BY <1>2
<1>4. \A x \in rb .. (tn - 1) : x \in rb .. (m - 1) /\ x \in 0 .. (tn - 1)
  OBVIOUS
<1>5. buf \subseteq rb .. (m - 1) /\ held \subseteq rb .. (m - 1)
  BY <1>2, <1>4
<1>6. r.delivered = UnitsFrom(1, start1[rb])
  <2>1. rb \in 0 .. tn
    BY <1>2
  <2> QED
    BY <2>1 DEF ReceiverInv, Agree
<1>7. \A x \in buf : r.rxBuf[x % SeqMod] = BodyOf(start1, x)
  <2>1. ASSUME NEW x \in buf
        PROVE  r.rxBuf[x % SeqMod] = BodyOf(start1, x)
    <3>1. BodyOf(start1, x) = BodyOf(start, x)
      BY <1>2, <1>4, AgreeMeans
    <3>2. r.rxBuf[x % SeqMod] = BodyOf(start, x)
      BY DEF ReceiverInv
    <3> QED
      BY <3>1, <3>2
  <2> QED
    BY <2>1
<1>8. \A x \in held : PiecesOf(r.pieces[x % SeqMod], start1[x], LenOf(start1, x))
  <2>1. ASSUME NEW x \in held
        PROVE  PiecesOf(r.pieces[x % SeqMod], start1[x], LenOf(start1, x))
    <3>1. start1[x] = start[x] /\ LenOf(start1, x) = LenOf(start, x)
      BY <1>2, <1>4, AgreeMeans
    <3>2. PiecesOf(r.pieces[x % SeqMod], start[x], LenOf(start, x))
      BY DEF ReceiverInv
    <3> QED
      BY <3>1, <3>2
  <2> QED
    BY <2>1
<1> QED
  BY <1>1, <1>3, <1>5, <1>6, <1>7, <1>8 DEF ReceiverInv

LEMMA AirLonger ==
  ASSUME NEW frames, NEW fb \in [Nat -> Nat], NEW tn \in Nat, NEW rb, NEW start, NEW start1,
         NEW m \in Nat, tn <= m, NEW buf, Agree(start, start1, tn),
         AirInv(frames, fb, tn, rb, start, buf)
  PROVE  AirInv(frames, fb, m, rb, start1, buf)
<1>1. frames \in Seq(Frames)
  BY DEF AirInv
<1>2. Len(frames) \in Nat
  <2> DEFINE F == Frames
  <2> HIDE DEF F
  <2>1. frames \in Seq(F)
    BY <1>1 DEF F
  <2> QED
    BY <2>1
<1>3. ASSUME NEW i \in 1 .. Len(frames)
      PROVE  /\ fb[i] < m
             /\ FrameOf(frames[i], fb[i], start1)
             /\ rb <= fb[i] + Window
             /\ \A x \in buf : x < fb[i] + Window
             /\ \A j \in 1 .. Len(frames) : i < j => fb[i] < fb[j] + Window
  <2>1. /\ fb[i] < tn
        /\ FrameOf(frames[i], fb[i], start)
        /\ rb <= fb[i] + Window
        /\ \A x \in buf : x < fb[i] + Window
        /\ \A j \in 1 .. Len(frames) : i < j => fb[i] < fb[j] + Window
    BY DEF AirInv
  <2>2. fb[i] \in Nat
    BY <1>2
  <2> DEFINE y == fb[i]
  <2>6. y \in Nat /\ y < tn
    BY <2>1, <2>2
  <2> HIDE DEF y
  <2>7. y < m /\ y \in 0 .. (tn - 1)
    BY <2>6
  <2>8. start1[y] = start[y] /\ LenOf(start1, y) = LenOf(start, y)
    BY <2>7, AgreeMeans, SMTT(30)
  <2>3. fb[i] < m
    BY <2>7 DEF y
  <2>4. start1[fb[i]] = start[fb[i]] /\ LenOf(start1, fb[i]) = LenOf(start, fb[i])
    BY <2>8 DEF y
  <2>5. FrameOf(frames[i], fb[i], start1)
    BY <2>1, <2>4 DEF FrameOf
  <2> QED
    BY <2>1, <2>3, <2>5
<1> QED
  BY <1>1, <1>3 DEF AirInv

LEMMA JoinedIs ==
  ASSUME NEW S, NEW p \in Seq(S), NEW r \in Seq(S)
  PROVE  /\ p \o r \in Seq(S) /\ Len(p \o r) = Len(p) + Len(r)
         /\ Len(p) \in Nat /\ Len(r) \in Nat
         /\ \A i \in 1 .. Len(p) : (p \o r)[i] = p[i]
         /\ \A i \in (Len(p) + 1) .. (Len(p) + Len(r)) : (p \o r)[i] = r[i - Len(p)]
OBVIOUS

\* Frames of blocks in the window go on the air.
LEMMA AirGrows ==
  ASSUME NEW p, NEW fb \in [Nat -> Nat], NEW tb \in Nat, NEW tn \in Nat, NEW rb \in Nat,
         NEW start, NEW buf \in SUBSET Nat, AirInv(p, fb, tn, rb, start, buf),
         NEW r, FramesOf(r, tb, tn, start), rb <= tn, tn <= tb + Window,
         buf \subseteq rb .. (tn - 1)
  PROVE  \E fb1 \in [Nat -> Nat] : AirInv(Joined(p, r), fb1, tn, rb, start, buf)
<1> DEFINE F == Frames
           all == p \o r
           n == Len(p)
           Of(i) == CHOOSE x \in tb .. (tn - 1) : FrameOf(r[i], x, start)
           fb1 == [k \in Nat |->
                     IF k <= n THEN fb[k] ELSE IF k <= n + Len(r) THEN Of(k - n) ELSE 0]
<1> HIDE DEF F
<1>1. p \in Seq(F) /\ r \in Seq(F)
  BY DEF AirInv, FramesOf, F
<1>2. /\ all \in Seq(F) /\ Len(all) = n + Len(r) /\ n \in Nat /\ Len(r) \in Nat
      /\ \A i \in 1 .. n : all[i] = p[i]
      /\ \A i \in (n + 1) .. (n + Len(r)) : all[i] = r[i - n]
  BY <1>1, JoinedIs
<1>3. ASSUME NEW i \in 1 .. Len(r)
      PROVE  Of(i) \in tb .. (tn - 1) /\ FrameOf(r[i], Of(i), start)
  <2>1. \E x \in tb .. (tn - 1) : FrameOf(r[i], x, start)
    BY DEF FramesOf
  <2> QED
    BY <2>1
<1> DEFINE more == Len(r)
<1>12. n \in Nat /\ more \in Nat /\ Len(all) = n + more
  BY <1>2
<1> HIDE DEF all, n, Of, more
<1>13. ASSUME NEW k \in Nat, ~ (k <= n), k <= n + more
       PROVE  k - n \in 1 .. more /\ k \in (n + 1) .. (n + more)
  BY <1>12, <1>13
<1>4. \A k \in Nat : fb1[k] = IF k <= n THEN fb[k] ELSE IF k <= n + Len(r) THEN Of(k - n) ELSE 0
  OBVIOUS
<1>5. \A k \in Nat : fb1[k] \in Nat
  <2>1. ASSUME NEW k \in Nat
        PROVE  fb1[k] \in Nat
    <3>1. CASE k <= n
      BY <1>4, <3>1
    <3>2. CASE ~ (k <= n) /\ k <= n + Len(r)
      <4>1. k - n \in 1 .. Len(r)
        BY <1>13, <3>2 DEF more
      <4>2. Of(k - n) \in Nat
        BY <1>3, <4>1
      <4> QED
        BY <1>4, <3>2, <4>2
    <3>3. CASE ~ (k <= n) /\ ~ (k <= n + Len(r))
      BY <1>4, <3>3
    <3> QED
      BY <3>1, <3>2, <3>3
  <2> QED
    BY <2>1
<1>6. fb1 \in [Nat -> Nat]
  <2>1. fb1 = [k \in Nat |-> fb1[k]]
    OBVIOUS
  <2> HIDE DEF fb1
  <2> QED
    BY <1>5, <2>1
<1> HIDE DEF fb1
<1>7. ASSUME NEW i \in 1 .. n
      PROVE  /\ all[i] = p[i] /\ fb1[i] = fb[i] /\ i \in 1 .. Len(p) /\ fb[i] \in Nat
             /\ fb[i] < tn
  <2>1. i \in 1 .. Len(p) /\ i \in Nat /\ i <= n
    BY <1>2 DEF n
  <2> QED
    BY <1>2, <1>4, <2>1 DEF AirInv
<1>8. ASSUME NEW i \in 1 .. Len(all), ~ (i <= n)
      PROVE  /\ fb1[i] \in Nat /\ tb <= fb1[i] /\ fb1[i] < tn
             /\ FrameOf(all[i], fb1[i], start)
  <2>1. i - n \in 1 .. Len(r) /\ i \in (n + 1) .. (n + Len(r)) /\ i \in Nat /\ i <= n + Len(r)
    <3>1. i \in Nat /\ i <= n + more
      BY <1>12
    <3> QED
      BY <1>8, <1>13, <3>1 DEF more
  <2>2. all[i] = r[i - n] /\ fb1[i] = Of(i - n)
    BY <1>2, <1>4, <1>8, <2>1
  <2> DEFINE y == Of(i - n)
  <2>3. y \in tb .. (tn - 1) /\ FrameOf(r[i - n], y, start)
    BY <1>3, <2>1
  <2> HIDE DEF y
  <2>4. y \in Nat /\ tb <= y /\ y < tn
    BY <2>3
  <2> QED
    BY <2>2, <2>3, <2>4 DEF y
<1>9. ASSUME NEW i \in 1 .. Len(all), NEW j \in 1 .. Len(all), i < j
      PROVE  fb1[i] < fb1[j] + Window
  <2>1. CASE j <= n
    <3>1. i \in 1 .. n /\ j \in 1 .. n
      BY <1>2, <1>9, <2>1
    <3>2. fb[i] < fb[j] + Window
      BY <1>7, <1>9, <3>1 DEF AirInv
    <3> QED
      BY <1>7, <3>1, <3>2
  <2>2. CASE ~ (j <= n)
    <3>1. fb1[j] \in Nat /\ tb <= fb1[j]
      BY <1>8, <2>2
    <3>2. fb1[i] \in Nat /\ fb1[i] < tn
      <4>1. CASE i <= n
        <5>1. i \in 1 .. n
          BY <1>2, <4>1
        <5> QED
          BY <1>7, <5>1
      <4>2. CASE ~ (i <= n)
        BY <1>8, <4>2
      <4> QED
        BY <4>1, <4>2
    <3> DEFINE y == fb1[i]
               z == fb1[j]
    <3>3. y \in Nat /\ y < tn /\ z \in Nat /\ tb <= z
      BY <3>1, <3>2
    <3> HIDE DEF y, z
    <3>4. y < z + Window
      BY <3>3, SizesAre
    <3> QED
      BY <3>4 DEF y, z
  <2> QED
    BY <2>1, <2>2
<1>10. ASSUME NEW i \in 1 .. Len(all)
       PROVE  /\ fb1[i] < tn
              /\ FrameOf(all[i], fb1[i], start)
              /\ rb <= fb1[i] + Window
              /\ \A x \in buf : x < fb1[i] + Window
  <2>1. CASE i <= n
    <3>1. i \in 1 .. n
      BY <1>2, <2>1
    <3>2. i \in 1 .. Len(p) /\ all[i] = p[i] /\ fb1[i] = fb[i]
      BY <1>7, <3>1
    <3>3. /\ fb[i] < tn
          /\ FrameOf(p[i], fb[i], start)
          /\ rb <= fb[i] + Window
          /\ \A x \in buf : x < fb[i] + Window
      BY <3>2 DEF AirInv
    <3> QED
      BY <3>2, <3>3
  <2>2. CASE ~ (i <= n)
    <3>1. /\ fb1[i] \in Nat /\ tb <= fb1[i] /\ fb1[i] < tn
          /\ FrameOf(all[i], fb1[i], start)
      BY <1>8, <2>2
    <3> DEFINE y == fb1[i]
    <3>3. y \in Nat /\ tb <= y
      BY <3>1
    <3> HIDE DEF y
    <3>4. rb <= y + Window
      BY <3>3, SizesAre
    <3>5. ASSUME NEW x \in buf
          PROVE  x < y + Window
      <4>1. x \in Nat /\ x < tn
        OBVIOUS
      <4> QED
        BY <3>3, <4>1, SizesAre
    <3>2. rb <= fb1[i] + Window /\ \A x \in buf : x < fb1[i] + Window
      BY <3>4, <3>5 DEF y
    <3> QED
      BY <3>1, <3>2
  <2> QED
    BY <2>1, <2>2
<1>11. AirInv(all, fb1, tn, rb, start, buf)
  BY <1>2, <1>9, <1>10 DEF AirInv, F
<1> QED
  BY <1>6, <1>11 DEF all, Joined

LEMMA AckedLonger ==
  ASSUME NEW s, NEW new, NEW n, NEW ab, NEW ag, NEW tb \in Nat, NEW tn \in Nat, NEW k \in Nat,
         NEW rb, NEW buf, AckedInv(s, n, ab, ag, tb, tn, rb, buf),
         \A x \in tb .. (tn - 1) : new.records[x % SeqMod].acked = s.records[x % SeqMod].acked,
         \A x \in tn .. (tn + k - 1) : new.records[x % SeqMod].acked = FALSE
  PROVE  AckedInv(new, n, ab, ag, tb, tn + k, rb, buf)
<1>1. ASSUME NEW x \in tb .. (tn + k - 1), new.records[x % SeqMod].acked
      PROVE  /\ x < rb \/ x \in buf
             /\ \A i \in 1 .. n : x < ab[i] \/ x \in ag[i]
  <2>1. x \in tb .. (tn - 1) \/ x \in tn .. (tn + k - 1)
    OBVIOUS
  <2>2. x \in tb .. (tn - 1) /\ s.records[x % SeqMod].acked
    BY <1>1, <2>1
  <2> QED
    BY <2>2 DEF AckedInv
<1> QED
  BY <1>1 DEF AckedInv
-----------------------------------------------------------------------------
\* The steps.

LEMMA Shown ==
  ASSUME NEW tb \in Nat, NEW tn \in Nat, NEW rb \in Nat, NEW start \in [Nat -> Nat],
         NEW buf \in SUBSET Nat, NEW held \in SUBSET Nat,
         NEW fb \in [Nat -> Nat], NEW ab \in [Nat -> Nat], NEW ag \in [Nat -> SUBSET Nat],
         Inv(host', sender', receiver', air', acks', tb, tn, rb, start, buf, held, fb, ab, ag)
  PROVE  IInv'
BY DEF IInv

LEMMA InitKeeps ==
  ASSUME Init
  PROVE  IInv
<1> DEFINE Zero == [k \in Nat |-> 0]
           One == [k \in Nat |-> 1]
           No == [k \in Nat |-> {}]
<1>1. Zero \in [Nat -> Nat] /\ One \in [Nat -> Nat] /\ No \in [Nat -> SUBSET Nat]
  OBVIOUS
<1>2. One[0] = 1 /\ NumbersOf({}) = {} /\ \A x \in 0 .. (0 - 1) : FALSE
  BY DEF NumbersOf
<1>3. PICK master \in SenderIsMaster :
        sender = [master |-> master, queue |-> 0, txBase |-> 0, txNext |-> 0,
                  records |-> Empty, silent |-> 0, slot |-> NoSlot, up |-> TRUE]
  BY DEF Init
<1>4. 0 % SeqMod = 0
  BY SizesAre
<1> HIDE DEF Zero, One, No
<1>5. DOMAIN Empty = {}
  BY DEF Empty
<1>6. NumbersOf(0 .. (0 - 1)) = {}
  <2>1. \A q : q \notin NumbersOf(0 .. (0 - 1))
    BY <1>2 DEF NumbersOf
  <2> DEFINE S == NumbersOf(0 .. (0 - 1))
  <2> HIDE DEF S
  <2>2. \A q : q \notin S
    BY <2>1 DEF S
  <2>3. S = {}
    BY <2>2
  <2> QED
    BY <2>3 DEF S
<1>7. Cuts(0, One)
  BY <1>1, <1>2 DEF Cuts
<1>8. SenderInv(sender, 0, 0, 0, One)
  <2> HIDE DEF Empty, NoSlot
  <2>1. /\ sender = [master |-> sender.master, queue |-> sender.queue, txBase |-> sender.txBase,
                     txNext |-> sender.txNext, records |-> sender.records,
                     silent |-> sender.silent, slot |-> sender.slot, up |-> sender.up]
        /\ sender.queue = 0 /\ sender.txBase = 0 /\ sender.txNext = 0
        /\ sender.records = Empty
    BY <1>3
  <2>2. \A x \in 0 .. (0 - 1) : RecordOf(sender.records[x % SeqMod], One[x], LenOf(One, x))
    BY <1>2
  <2>3. DOMAIN sender.records = NumbersOf(0 .. (0 - 1))
    BY <1>5, <1>6, <2>1
  <2>4. 0 <= 0 + Window /\ One[0] + 0 = 0 + 1
    BY <1>2, SizesAre
  <2> QED
    BY <1>4, <1>7, <2>1, <2>2, <2>3, <2>4 DEF SenderInv
<1>9. ReceiverInv(receiver, 0, 0, One, {}, {})
  <2>1. receiver = [rxBase |-> 0, rxBuf |-> Empty, pieces |-> Empty,
                    maxSeen |-> None, owed |-> FALSE, delivered |-> <<>>]
    BY DEF Init
  <2>2. /\ receiver = [rxBase |-> receiver.rxBase, rxBuf |-> receiver.rxBuf,
                       pieces |-> receiver.pieces, maxSeen |-> receiver.maxSeen,
                       owed |-> receiver.owed, delivered |-> receiver.delivered]
        /\ receiver.rxBase = 0 /\ receiver.rxBuf = Empty /\ receiver.pieces = Empty
        /\ receiver.maxSeen = None /\ receiver.delivered = <<>>
    BY <2>1
  <2>3. UnitsFrom(1, One[0]) = <<>>
    BY <1>2 DEF UnitsFrom
  <2> QED
    BY <1>2, <1>4, <1>5, <2>2, <2>3 DEF ReceiverInv
<1>10. AirInv(air, Zero, 0, 0, One, {})
  <2> DEFINE F == Frames
  <2> HIDE DEF F
  <2>1. air = <<>> /\ <<>> \in Seq(F) /\ Len(<<>>) = 0
    BY DEF Init
  <2> QED
    BY <2>1 DEF AirInv, F
<1>11. AcksInv(acks, Zero, No, 0, 0, {}) /\ Len(acks) = 0
  <2> DEFINE A == [base : Seqs, bits : SUBSET (1 .. (Window - 1))]
  <2> HIDE DEF A
  <2>1. acks = <<>> /\ <<>> \in Seq(A) /\ Len(<<>>) = 0
    BY DEF Init
  <2> QED
    BY <2>1 DEF AcksInv, A
<1>12. AckedInv(sender, 0, Zero, No, 0, 0, 0, {})
  BY <1>2 DEF AckedInv
<1>13. host = 0 /\ 0 \in 0 .. MaxUnits
  BY BoundAssumption DEF Init
<1>14. Inv(host, sender, receiver, air, acks, 0, 0, 0, One, {}, {}, Zero, Zero, No)
  BY <1>8, <1>9, <1>10, <1>11, <1>12, <1>13 DEF Inv
<1> QED
  BY <1>1, <1>14 DEF IInv

\* The host's units join the queue.
LEMMA QueueGrows ==
  ASSUME NEW s, NEW h \in Nat, NEW tb, NEW tn \in Nat, NEW start \in [Nat -> Nat],
         SenderInv(s, h, tb, tn, start)
  PROVE  /\ SenderInv([s EXCEPT !.queue = @ + 1], h + 1, tb, tn, start)
         /\ [s EXCEPT !.queue = @ + 1].records = s.records
<1> DEFINE queue == s.queue + 1
           new == [s EXCEPT !.queue = @ + 1]
           first == start[tn]
<1>1. /\ s = [master |-> s.master, queue |-> s.queue, txBase |-> s.txBase,
              txNext |-> s.txNext, records |-> s.records, silent |-> s.silent,
              slot |-> s.slot, up |-> s.up]
      /\ s.queue \in Nat /\ first + s.queue = h + 1
  BY DEF SenderInv
<1>2. queue \in Nat /\ first + queue = (h + 1) + 1
  BY <1>1
<1>3. new = [s EXCEPT !.queue = queue]
  OBVIOUS
<1> HIDE DEF queue, new, first
<1>4. new = [master |-> s.master, queue |-> queue, txBase |-> s.txBase,
             txNext |-> s.txNext, records |-> s.records, silent |-> s.silent,
             slot |-> s.slot, up |-> s.up]
  BY <1>1, <1>3
<1>5. /\ new.queue = queue /\ new.txBase = s.txBase /\ new.txNext = s.txNext
      /\ new.records = s.records
      /\ new = [master |-> new.master, queue |-> new.queue, txBase |-> new.txBase,
                txNext |-> new.txNext, records |-> new.records,
                silent |-> new.silent, slot |-> new.slot, up |-> new.up]
  BY <1>4
<1>6. SenderInv(new, h + 1, tb, tn, start)
  BY <1>2, <1>5 DEF SenderInv, first
<1> QED
  BY <1>5, <1>6 DEF new

LEMMA AckedSame ==
  ASSUME NEW s, NEW new, NEW n, NEW ab, NEW ag, NEW tb, NEW tn, NEW rb, NEW buf,
         AckedInv(s, n, ab, ag, tb, tn, rb, buf),
         \A x \in tb .. (tn - 1) : new.records[x % SeqMod].acked = s.records[x % SeqMod].acked
  PROVE  AckedInv(new, n, ab, ag, tb, tn, rb, buf)
BY DEF AckedInv

LEMMA HostKeeps ==
  ASSUME NEW tb \in Nat, NEW tn \in Nat, NEW rb \in Nat, NEW start \in [Nat -> Nat],
         NEW buf, NEW held, NEW fb, NEW ab, NEW ag,
         Inv(host, sender, receiver, air, acks, tb, tn, rb, start, buf, held, fb, ab, ag),
         Host
  PROVE  Inv(host', sender', receiver', air', acks', tb, tn, rb, start, buf, held, fb, ab, ag)
<1>1. /\ host < MaxUnits /\ host' = host + 1
      /\ sender' = [sender EXCEPT !.queue = @ + 1]
      /\ receiver' = receiver /\ air' = air /\ acks' = acks
  BY DEF Host
<1>2. host \in Nat /\ host' \in 0 .. MaxUnits
  <2>1. host \in 0 .. MaxUnits /\ MaxUnits \in Nat
    BY BoundAssumption DEF Inv
  <2>2. host + 1 \in 0 .. MaxUnits
    BY <1>1, <2>1
  <2> QED
    BY <1>1, <2>1, <2>2
<1>3. SenderInv(sender, host, tb, tn, start)
  BY DEF Inv
<1> DEFINE new == [sender EXCEPT !.queue = @ + 1]
<1>4. SenderInv(new, host + 1, tb, tn, start) /\ new.records = sender.records
  BY <1>2, <1>3, QueueGrows
<1>5. sender' = new
  BY <1>1
<1> HIDE DEF new
<1>6. AckedInv(new, Len(acks), ab, ag, tb, tn, rb, buf)
  <2>1. AckedInv(sender, Len(acks), ab, ag, tb, tn, rb, buf)
    BY DEF Inv
  <2> QED
    BY <1>4, <2>1, AckedSame
<1> QED
  BY <1>1, <1>2, <1>4, <1>5, <1>6 DEF Inv
\* New frames go on the air; blocks may be cut.
LEMMA TransmitKeeps ==
  ASSUME NEW tb \in Nat, NEW tn \in Nat, NEW rb \in Nat, NEW start \in [Nat -> Nat],
         NEW buf \in SUBSET Nat, NEW held \in SUBSET Nat,
         NEW fb \in [Nat -> Nat], NEW ab \in [Nat -> Nat], NEW ag \in [Nat -> SUBSET Nat],
         Inv(host, sender, receiver, air, acks, tb, tn, rb, start, buf, held, fb, ab, ag),
         NEW room \in Nat, TransmitUpTo(room)
  PROVE  IInv'
<1> DEFINE Slot(out) ==
             IF sender.master
             THEN [on |-> TRUE, data |-> out.frames # <<>>, heard |-> FALSE]
             ELSE NoSlot
           Goes(out) ==
             /\ air' = air \o out.frames
             /\ sender' = [out.sender EXCEPT !.slot = Slot(out)]
           Chosen(mode, target, across, down) ==
             /\ down = {} => target = 0
             /\ across => CanCut(sender)
             /\ \E out \in {DataFrames(sender, mode, down, target, across, room)} :
                  /\ Len(air) + Len(out.frames) <= MaxAir
                  /\ Goes(out)
<1>24. PICK mode \in Modes, target \in Modes, across \in BOOLEAN :
         \E down \in SUBSET Stuck(sender, target) : Chosen(mode, target, across, down)
  BY DEF TransmitUpTo
<1>25. PICK down \in SUBSET Stuck(sender, target) : Chosen(mode, target, across, down)
  BY <1>24
<1>26. Goes(DataFrames(sender, mode, down, target, across, room))
  <2> HIDE DEF Goes
  <2> QED
    BY <1>25
<1> HIDE DEF Chosen
<1> DEFINE out == DataFrames(sender, mode, down, target, across, room)
<1>1. air' = air \o out.frames /\ sender' = [out.sender EXCEPT !.slot = Slot(out)]
  BY <1>26
<1> HIDE DEF Goes
<1>2. host' = host /\ receiver' = receiver /\ acks' = acks
  BY DEF TransmitUpTo
<1>3. /\ SenderInv(sender, host, tb, tn, start) /\ host \in 0 .. MaxUnits /\ host \in Nat
      /\ ReceiverInv(receiver, tn, rb, start, buf, held) /\ rb \notin buf /\ tb <= rb
      /\ AirInv(air, fb, tn, rb, start, buf)
      /\ AcksInv(acks, ab, ag, tb, rb, buf)
      /\ AckedInv(sender, Len(acks), ab, ag, tb, tn, rb, buf)
  BY DEF Inv
<1>5. \E n \in Nat, start1 \in [Nat -> Nat] :
        SentBy(out, sender, host, tb, tn, start, n, start1)
  BY <1>3, DataFramesKeep
<1> HIDE DEF out
<1>6. PICK n \in Nat, start1 \in [Nat -> Nat] :
        SentBy(out, sender, host, tb, tn, start, n, start1)
  BY <1>5
<1> DEFINE m == tn + n
<1>7. m \in Nat /\ tn <= m
  OBVIOUS
<1>8. /\ Agree(start, start1, tn)
      /\ SenderInv(out.sender, host, tb, m, start1)
      /\ FramesOf(out.frames, tb, m, start1)
  BY <1>6 DEF SentBy, Agree
<1>9. AckedInv(out.sender, Len(acks), ab, ag, tb, m, rb, buf)
  BY <1>3, <1>6, AckedLonger DEF SentBy
<1> HIDE DEF m
<1>10. ReceiverInv(receiver, m, rb, start1, buf, held)
  BY <1>3, <1>7, <1>8, ReceiverLonger
<1>11. AirInv(air, fb, m, rb, start1, buf)
  BY <1>3, <1>7, <1>8, AirLonger
<1>12. rb <= m /\ m <= tb + Window /\ buf \subseteq rb .. (m - 1)
  BY <1>8, <1>10 DEF SenderInv, ReceiverInv
<1>13. PICK fb1 \in [Nat -> Nat] : AirInv(Joined(air, out.frames), fb1, m, rb, start1, buf)
  BY <1>7, <1>8, <1>11, <1>12, AirGrows
<1>14. AirInv(air', fb1, m, rb, start1, buf)
  BY <1>1, <1>13 DEF Joined
<1> DEFINE slot == Slot(out)
           new == [out.sender EXCEPT !.slot = slot]
           was == out.sender
<1>15. sender' = new
  BY <1>1
<1>16. was = [master |-> was.master, queue |-> was.queue, txBase |-> was.txBase,
              txNext |-> was.txNext, records |-> was.records, silent |-> was.silent,
              slot |-> was.slot, up |-> was.up]
  BY <1>8 DEF SenderInv
<1>17. new = [was EXCEPT !.slot = slot] /\ SenderInv(was, host, tb, m, start1)
       /\ AckedInv(was, Len(acks), ab, ag, tb, m, rb, buf)
  BY <1>8, <1>9
<1> HIDE DEF slot, new, was
<1>18. new = [master |-> was.master, queue |-> was.queue, txBase |-> was.txBase,
              txNext |-> was.txNext, records |-> was.records, silent |-> was.silent,
              slot |-> slot, up |-> was.up]
  BY <1>16, <1>17
<1>19. /\ new.queue = was.queue /\ new.txBase = was.txBase /\ new.txNext = was.txNext
       /\ new.records = was.records
       /\ new = [master |-> new.master, queue |-> new.queue, txBase |-> new.txBase,
                 txNext |-> new.txNext, records |-> new.records,
                 silent |-> new.silent, slot |-> new.slot, up |-> new.up]
  BY <1>18
<1>20. SenderInv(new, host, tb, m, start1)
  BY <1>17, <1>19, SlotKeeps
<1>21. AckedInv(new, Len(acks), ab, ag, tb, m, rb, buf)
  BY <1>17, <1>19, AckedSame
<1>22. Inv(host', sender', receiver', air', acks', tb, m, rb, start1, buf, held, fb1, ab, ag)
  BY <1>2, <1>3, <1>10, <1>14, <1>15, <1>20, <1>21 DEF Inv
<1> QED
  BY <1>7, <1>22, Shown

\* An answer owed or not is not in the invariant.
LEMMA OwedKeeps ==
  ASSUME NEW r, NEW tn, NEW rb, NEW start, NEW buf, NEW held, NEW owed,
         ReceiverInv(r, tn, rb, start, buf, held)
  PROVE  /\ ReceiverInv([r EXCEPT !.owed = owed], tn, rb, start, buf, held)
         /\ [r EXCEPT !.owed = owed].delivered = r.delivered
<1> DEFINE new == [r EXCEPT !.owed = owed]
<1>1. r = [rxBase |-> r.rxBase, rxBuf |-> r.rxBuf, pieces |-> r.pieces,
           maxSeen |-> r.maxSeen, owed |-> r.owed, delivered |-> r.delivered]
  BY DEF ReceiverInv
<1>2. new = [r EXCEPT !.owed = owed]
  OBVIOUS
<1> HIDE DEF new
<1>3. new = [rxBase |-> r.rxBase, rxBuf |-> r.rxBuf, pieces |-> r.pieces,
             maxSeen |-> r.maxSeen, owed |-> owed, delivered |-> r.delivered]
  BY <1>1, <1>2
<1>4. /\ new.rxBase = r.rxBase /\ new.rxBuf = r.rxBuf /\ new.pieces = r.pieces
      /\ new.maxSeen = r.maxSeen /\ new.delivered = r.delivered
      /\ new = [rxBase |-> new.rxBase, rxBuf |-> new.rxBuf, pieces |-> new.pieces,
                maxSeen |-> new.maxSeen, owed |-> new.owed, delivered |-> new.delivered]
  BY <1>3
<1>5. ReceiverInv(new, tn, rb, start, buf, held)
  BY <1>4 DEF ReceiverInv
<1> QED
  BY <1>4, <1>5 DEF new

\* A frame is heard: what was delivered stays, and more of the stream may be.
LEMMA HearKeeps ==
  ASSUME NEW tb \in Nat, NEW tn \in Nat, NEW rb \in Nat, NEW start \in [Nat -> Nat],
         NEW buf \in SUBSET Nat, NEW held \in SUBSET Nat,
         NEW fb \in [Nat -> Nat], NEW ab \in [Nat -> Nat], NEW ag \in [Nat -> SUBSET Nat],
         Inv(host, sender, receiver, air, acks, tb, tn, rb, start, buf, held, fb, ab, ag),
         NEW late, Hear(late)
  PROVE  \E rb1 \in Nat, buf1, held1 \in SUBSET Nat, fb1 \in [Nat -> Nat] :
           /\ rb <= rb1
           /\ Inv(host', sender', receiver', air', acks', tb, tn, rb1, start, buf1, held1,
                  fb1, ab, ag)
<1>1. /\ host' = host /\ sender' = sender /\ acks' = acks
      /\ air # <<>> /\ air' = Tail(air)
      /\ receiver' = [Accept(receiver, Head(air)) EXCEPT
                        !.owed = Owes(receiver, Head(air), late)]
  BY DEF Hear
<1>2. /\ SenderInv(sender, host, tb, tn, start) /\ host \in 0 .. MaxUnits
      /\ ReceiverInv(receiver, tn, rb, start, buf, held) /\ rb \notin buf /\ tb <= rb
      /\ AirInv(air, fb, tn, rb, start, buf)
      /\ AcksInv(acks, ab, ag, tb, rb, buf)
      /\ AckedInv(sender, Len(acks), ab, ag, tb, tn, rb, buf)
  BY DEF Inv
<1> DEFINE f == air[1]
           x == fb[1]
<1>3. Head(air) = f /\ f \in Frames /\ 1 \in 1 .. Len(air)
  <2> DEFINE F == Frames
  <2> HIDE DEF F
  <2>1. air \in Seq(F)
    BY <1>2 DEF AirInv, F
  <2>2. Head(air) = air[1] /\ air[1] \in F /\ Len(air) >= 1 /\ Len(air) \in Nat
    BY <1>1, <2>1, TailIs
  <2> QED
    BY <2>2 DEF F
<1>4. x \in Nat /\ x < tn /\ FrameOf(f, x, start) /\ rb <= x + Window
  BY <1>2, <1>3 DEF AirInv
<1>5. Cuts(tn, start) /\ tn <= tb + Window
  BY <1>2 DEF SenderInv
<1>6. tn <= rb + Window
  BY <1>2, <1>5, SizesAre
<1>7. air' = Tail(air) /\ receiver' = [Accept(receiver, f) EXCEPT
                                         !.owed = Owes(receiver, f, late)]
  BY <1>1, <1>3
<1>8. fb[1] = x
  OBVIOUS
<1> HIDE DEF f, x
<1>9. PICK rb1 \in Nat, buf1 \in SUBSET Nat, held1 \in SUBSET Nat :
        /\ Moved(rb, buf, x, rb1, buf1)
        /\ ReceiverInv(Accept(receiver, f), tn, rb1, start, buf1, held1)
  BY <1>2, <1>3, <1>4, <1>5, <1>6, AcceptKeeps
<1>10. ReceiverInv(receiver', tn, rb1, start, buf1, held1)
  BY <1>7, <1>9, OwedKeeps
<1>11. AirInv(air', Later(fb), tn, rb1, start, buf1)
  BY <1>1, <1>2, <1>8, <1>9, AirAfter
<1>12. AcksInv(acks, ab, ag, tb, rb1, buf1)
  BY <1>2, <1>9, AcksMoved
<1>13. AckedInv(sender, Len(acks), ab, ag, tb, tn, rb1, buf1)
  BY <1>2, <1>9, AckedMoved
<1>14. rb <= rb1 /\ rb1 \notin buf1
  BY <1>9 DEF Moved
<1>15. tb <= rb1
  BY <1>2, <1>14
<1>16. Inv(host', sender', receiver', air', acks', tb, tn, rb1, start, buf1, held1,
           Later(fb), ab, ag)
  BY <1>1, <1>2, <1>10, <1>11, <1>12, <1>13, <1>14, <1>15 DEF Inv
<1>17. Later(fb) \in [Nat -> Nat]
  BY LaterIs
<1> QED
  BY <1>14, <1>16, <1>17
\* The frame is gone: nothing moves but what is on the air.
LEMMA LoseKeeps ==
  ASSUME NEW tb \in Nat, NEW tn \in Nat, NEW rb \in Nat, NEW start \in [Nat -> Nat],
         NEW buf \in SUBSET Nat, NEW held \in SUBSET Nat,
         NEW fb \in [Nat -> Nat], NEW ab \in [Nat -> Nat], NEW ag \in [Nat -> SUBSET Nat],
         Inv(host, sender, receiver, air, acks, tb, tn, rb, start, buf, held, fb, ab, ag),
         Lose
  PROVE  IInv'
<1>1. /\ host' = host /\ sender' = sender /\ receiver' = receiver /\ acks' = acks
      /\ air # <<>> /\ air' = Tail(air)
  BY DEF Lose
<1>2. AirInv(air, fb, tn, rb, start, buf) /\ rb \notin buf
  BY DEF Inv
<1>3. Moved(rb, buf, fb[1], rb, buf)
  BY <1>2, MovedNot
<1>4. AirInv(air', Later(fb), tn, rb, start, buf)
  BY <1>1, <1>2, <1>3, AirAfter
<1>5. Later(fb) \in [Nat -> Nat]
  BY LaterIs
<1>6. Inv(host', sender', receiver', air', acks', tb, tn, rb, start, buf, held,
          Later(fb), ab, ag)
  BY <1>1, <1>4 DEF Inv
<1> QED
  BY <1>5, <1>6, Shown

\* One more answer says what the receiver has.
LEMMA AcknowledgeKeeps ==
  ASSUME NEW tb \in Nat, NEW tn \in Nat, NEW rb \in Nat, NEW start \in [Nat -> Nat],
         NEW buf \in SUBSET Nat, NEW held \in SUBSET Nat,
         NEW fb \in [Nat -> Nat], NEW ab \in [Nat -> Nat], NEW ag \in [Nat -> SUBSET Nat],
         Inv(host, sender, receiver, air, acks, tb, tn, rb, start, buf, held, fb, ab, ag),
         Acknowledge
  PROVE  IInv'
<1>1. /\ host' = host /\ sender' = sender /\ air' = air
      /\ acks' = Append(acks, AckFields(receiver))
      /\ receiver' = [receiver EXCEPT !.owed = FALSE]
  BY DEF Acknowledge
<1>2. /\ SenderInv(sender, host, tb, tn, start) /\ host \in 0 .. MaxUnits
      /\ ReceiverInv(receiver, tn, rb, start, buf, held) /\ rb \notin buf /\ tb <= rb
      /\ AirInv(air, fb, tn, rb, start, buf)
      /\ AcksInv(acks, ab, ag, tb, rb, buf)
      /\ AckedInv(sender, Len(acks), ab, ag, tb, tn, rb, buf)
  BY DEF Inv
<1> DEFINE n == Len(acks)
           ab1 == [ab EXCEPT ![n + 1] = rb]
           ag1 == [ag EXCEPT ![n + 1] = buf]
           A == [base : Seqs, bits : SUBSET (1 .. (Window - 1))]
<1>3. acks \in Seq(A)
  BY <1>2 DEF AcksInv
<1>4. tn <= rb + Window
  <2>1. tn <= tb + Window
    BY <1>2 DEF SenderInv
  <2> QED
    BY <1>2, <2>1, SizesAre
<1>5. AckInv(AckFields(receiver), rb, buf, rb, buf) /\ AckFields(receiver) \in A
  BY <1>2, <1>4, AnswerIs
<1>6. AcksInv(acks', ab1, ag1, tb, rb, buf)
  BY <1>1, <1>2, <1>5, AcksGrow
<1> HIDE DEF A
<1>7. n \in Nat /\ Len(acks') = n + 1
  BY <1>1, <1>3, <1>5
<1>8. AckedInv(sender, n, ab, ag, tb, tn, rb, buf)
  BY <1>2
<1> HIDE DEF n
<1>9. AckedInv(sender, n + 1, ab1, ag1, tb, tn, rb, buf)
  BY <1>7, <1>8, AckedGrow
<1>10. ab1 \in [Nat -> Nat] /\ ag1 \in [Nat -> SUBSET Nat]
  BY <1>7
<1>11. ReceiverInv(receiver', tn, rb, start, buf, held)
  BY <1>1, <1>2, OwedKeeps
<1> HIDE DEF ab1, ag1
<1>12. AckedInv(sender', Len(acks'), ab1, ag1, tb, tn, rb, buf)
  BY <1>1, <1>7, <1>9
<1>13. Inv(host', sender', receiver', air', acks', tb, tn, rb, start, buf, held, fb, ab1, ag1)
  BY <1>1, <1>2, <1>6, <1>11, <1>12 DEF Inv
<1> QED
  BY <1>10, <1>13, Shown

\* What is left of the answers when the first is gone.
LEMMA AnswersAre ==
  ASSUME NEW sent, NEW ab, NEW ag, NEW tb, NEW rb, NEW buf,
         AcksInv(sent, ab, ag, tb, rb, buf), sent # <<>>
  PROVE  /\ Len(sent) \in Nat /\ Len(sent) >= 1 /\ Head(sent) = sent[1]
         /\ Len(Tail(sent)) = Len(sent) - 1
<1> DEFINE A == [base : Seqs, bits : SUBSET (1 .. (Window - 1))]
<1>1. sent \in Seq(A)
  BY DEF AcksInv
<1> HIDE DEF A
<1> QED
  BY <1>1, TailIs

\* The sender's base comes no further than the answers still to come.
LEMMA AcksBehind ==
  ASSUME NEW sent, NEW ab, NEW ag, NEW tb, NEW rb, NEW buf, NEW tb1,
         AcksInv(sent, ab, ag, tb, rb, buf), \A k \in 1 .. Len(sent) : tb1 <= ab[k]
  PROVE  AcksInv(sent, ab, ag, tb1, rb, buf)
BY DEF AcksInv

\* The first answer is read.
LEMMA ReadAckKeeps ==
  ASSUME NEW tb \in Nat, NEW tn \in Nat, NEW rb \in Nat, NEW start \in [Nat -> Nat],
         NEW buf \in SUBSET Nat, NEW held \in SUBSET Nat,
         NEW fb \in [Nat -> Nat], NEW ab \in [Nat -> Nat], NEW ag \in [Nat -> SUBSET Nat],
         Inv(host, sender, receiver, air, acks, tb, tn, rb, start, buf, held, fb, ab, ag),
         ReadAck
  PROVE  IInv'
<1> DEFINE s == TakeAck(sender, acks[1])
           k0 == Len(acks)
           heard == [s EXCEPT !.slot.heard = TRUE]
<1>1. /\ host' = host /\ receiver' = receiver /\ air' = air
      /\ acks # <<>> /\ acks' = Tail(acks)
      /\ sender' = IF sender.master
                   THEN [TakeAck(sender, Head(acks)) EXCEPT !.slot.heard = TRUE]
                   ELSE TakeAck(sender, Head(acks))
  BY DEF ReadAck
<1>2. /\ SenderInv(sender, host, tb, tn, start) /\ host \in 0 .. MaxUnits
      /\ ReceiverInv(receiver, tn, rb, start, buf, held) /\ rb \notin buf /\ tb <= rb
      /\ AirInv(air, fb, tn, rb, start, buf)
      /\ AcksInv(acks, ab, ag, tb, rb, buf)
      /\ AckedInv(sender, k0, ab, ag, tb, tn, rb, buf)
  BY DEF Inv
<1>3. k0 \in Nat /\ k0 >= 1 /\ Head(acks) = acks[1] /\ Len(acks') = k0 - 1
  BY <1>1, <1>2, AnswersAre
<1>4. rb <= tn
  BY <1>2 DEF ReceiverInv
<1>5. sender' \in {s, heard}
  BY <1>1, <1>3
<1>6. k0 = Len(acks)
  OBVIOUS
<1> HIDE DEF k0
<1>7. \E tb1 \in Nat :
        /\ tb <= tb1 /\ tb1 <= rb
        /\ \A k \in 1 .. k0 : tb1 <= ab[k]
        /\ SenderInv(TakeAck(sender, acks[1]), host, tb1, tn, start)
        /\ AckedInv(TakeAck(sender, acks[1]), k0, ab, ag, tb1, tn, rb, buf)
  BY <1>2, <1>3, <1>4, <1>6, TakeAckKeeps
<1>8. PICK tb1 \in Nat :
        /\ tb <= tb1 /\ tb1 <= rb
        /\ \A k \in 1 .. k0 : tb1 <= ab[k]
        /\ SenderInv(s, host, tb1, tn, start)
        /\ AckedInv(s, k0, ab, ag, tb1, tn, rb, buf)
  BY <1>7
<1> HIDE DEF s
<1>9. SenderInv(heard, host, tb1, tn, start) /\ heard.records = s.records
  BY <1>8, HeardKeeps
<1> HIDE DEF heard
<1>10. AckedInv(heard, k0, ab, ag, tb1, tn, rb, buf)
  BY <1>8, <1>9, AckedSame
<1>11. SenderInv(sender', host, tb1, tn, start) /\ AckedInv(sender', k0, ab, ag, tb1, tn, rb, buf)
  BY <1>5, <1>8, <1>9, <1>10
<1>12. AckedInv(sender', Len(acks'), Later(ab), Later(ag), tb1, tn, rb, buf)
  BY <1>3, <1>11, AckedAfter
<1>13. AcksInv(acks, ab, ag, tb1, rb, buf)
  BY <1>2, <1>6, <1>8, AcksBehind
<1>14. AcksInv(acks', Later(ab), Later(ag), tb1, rb, buf)
  BY <1>1, <1>13, AcksAfter
<1>15. Later(ab) \in [Nat -> Nat] /\ Later(ag) \in [Nat -> SUBSET Nat]
  BY LaterIs
<1>16. Inv(host', sender', receiver', air', acks', tb1, tn, rb, start, buf, held, fb,
           Later(ab), Later(ag))
  BY <1>1, <1>2, <1>8, <1>11, <1>12, <1>14 DEF Inv
<1> QED
  BY <1>15, <1>16, Shown

\* The first answer is lost; the slot may count as heard.
LEMMA LoseAckKeeps ==
  ASSUME NEW tb \in Nat, NEW tn \in Nat, NEW rb \in Nat, NEW start \in [Nat -> Nat],
         NEW buf \in SUBSET Nat, NEW held \in SUBSET Nat,
         NEW fb \in [Nat -> Nat], NEW ab \in [Nat -> Nat], NEW ag \in [Nat -> SUBSET Nat],
         Inv(host, sender, receiver, air, acks, tb, tn, rb, start, buf, held, fb, ab, ag),
         LoseAck
  PROVE  IInv'
<1> DEFINE heard == [sender EXCEPT !.slot.heard = TRUE]
           k0 == Len(acks)
<1>1. /\ host' = host /\ receiver' = receiver /\ air' = air
      /\ acks # <<>> /\ acks' = Tail(acks) /\ sender' \in {sender, heard}
  BY DEF LoseAck
<1>2. /\ SenderInv(sender, host, tb, tn, start) /\ AcksInv(acks, ab, ag, tb, rb, buf)
      /\ AckedInv(sender, k0, ab, ag, tb, tn, rb, buf)
  BY DEF Inv
<1>3. SenderInv(heard, host, tb, tn, start) /\ heard.records = sender.records
  BY <1>2, HeardKeeps
<1>4. k0 \in Nat /\ k0 >= 1 /\ Len(acks') = k0 - 1
  BY <1>1, <1>2, AnswersAre
<1> HIDE DEF heard, k0
<1>5. AckedInv(heard, k0, ab, ag, tb, tn, rb, buf)
  BY <1>2, <1>3, AckedSame
<1>6. SenderInv(sender', host, tb, tn, start) /\ AckedInv(sender', k0, ab, ag, tb, tn, rb, buf)
  BY <1>1, <1>2, <1>3, <1>5
<1>7. AckedInv(sender', Len(acks'), Later(ab), Later(ag), tb, tn, rb, buf)
  BY <1>4, <1>6, AckedAfter
<1>8. AcksInv(acks', Later(ab), Later(ag), tb, rb, buf)
  BY <1>1, <1>2, AcksAfter
<1>9. Later(ab) \in [Nat -> Nat] /\ Later(ag) \in [Nat -> SUBSET Nat]
  BY LaterIs
<1>10. Inv(host', sender', receiver', air', acks', tb, tn, rb, start, buf, held, fb,
           Later(ab), Later(ag))
  BY <1>1, <1>6, <1>7, <1>8 DEF Inv
<1> QED
  BY <1>9, <1>10, Shown

\* The slot closes, and no answer of it is read later.
LEMMA CloseKeeps ==
  ASSUME NEW tb \in Nat, NEW tn \in Nat, NEW rb \in Nat, NEW start \in [Nat -> Nat],
         NEW buf \in SUBSET Nat, NEW held \in SUBSET Nat,
         NEW fb \in [Nat -> Nat], NEW ab \in [Nat -> Nat], NEW ag \in [Nat -> SUBSET Nat],
         Inv(host, sender, receiver, air, acks, tb, tn, rb, start, buf, held, fb, ab, ag),
         Close
  PROVE  IInv'
<1> DEFINE new == CloseSlot(sender)
<1>1. /\ host' = host /\ receiver' = receiver /\ air' = air
      /\ sender' = new /\ acks' = <<>>
  BY DEF Close
<1>2. /\ SenderInv(sender, host, tb, tn, start)
      /\ AckedInv(sender, Len(acks), ab, ag, tb, tn, rb, buf)
  BY DEF Inv
<1>3. /\ SenderInv(new, host, tb, tn, start)
      /\ \A x \in tb .. (tn - 1) : new.records[x % SeqMod].acked = sender.records[x % SeqMod].acked
  BY <1>2, CloseSlotKeeps
<1> HIDE DEF new
<1>4. AckedInv(new, Len(acks), ab, ag, tb, tn, rb, buf)
  BY <1>2, <1>3, AckedSame
<1>5. Len(acks') = 0 /\ AcksInv(acks', ab, ag, tb, rb, buf)
  <2> DEFINE A == [base : Seqs, bits : SUBSET (1 .. (Window - 1))]
  <2> HIDE DEF A
  <2>1. acks' = <<>> /\ <<>> \in Seq(A) /\ Len(<<>>) = 0
    BY <1>1
  <2> QED
    BY <2>1 DEF AcksInv, A
<1>6. AckedInv(sender', Len(acks'), ab, ag, tb, tn, rb, buf)
  <2>1. \A k \in 1 .. 0 : FALSE
    OBVIOUS
  <2>2. AckedInv(new, 0, ab, ag, tb, tn, rb, buf)
    BY <1>4, <2>1 DEF AckedInv
  <2> QED
    BY <1>1, <1>5, <2>2
<1>7. Inv(host', sender', receiver', air', acks', tb, tn, rb, start, buf, held, fb, ab, ag)
  BY <1>1, <1>3, <1>5, <1>6 DEF Inv
<1> QED
  BY <1>7, Shown
LEMMA SameKeeps ==
  ASSUME IInv, UNCHANGED vars
  PROVE  IInv'
BY DEF IInv, vars

LEMMA StepKeeps ==
  ASSUME IInv, [Next]_vars
  PROVE  IInv'
<1>1. PICK tb \in Nat, tn \in Nat, rb \in Nat, start \in [Nat -> Nat], fb \in [Nat -> Nat],
           ab \in [Nat -> Nat], ag \in [Nat -> SUBSET Nat], buf \in SUBSET Nat,
           held \in SUBSET Nat :
        Inv(host, sender, receiver, air, acks, tb, tn, rb, start, buf, held, fb, ab, ag)
  BY DEF IInv
<1>2. CASE Host
  <2>1. Inv(host', sender', receiver', air', acks', tb, tn, rb, start, buf, held, fb, ab, ag)
    BY <1>1, <1>2, HostKeeps
  <2> QED
    BY <2>1, Shown
<1>3. CASE Transmit
  <2>1. PICK room \in 0 .. MaxFrames : TransmitUpTo(room)
    BY <1>3 DEF Transmit
  <2>2. room \in Nat
    BY <2>1
  <2> QED
    BY <1>1, <2>1, <2>2, TransmitKeeps
<1>4. ASSUME NEW late, Hear(late)
      PROVE  IInv'
  <2>1. PICK rb1 \in Nat, buf1 \in SUBSET Nat, held1 \in SUBSET Nat, fb1 \in [Nat -> Nat] :
          Inv(host', sender', receiver', air', acks', tb, tn, rb1, start, buf1, held1,
              fb1, ab, ag)
    BY <1>1, <1>4, HearKeeps
  <2> QED
    BY <2>1, Shown
<1>5. CASE Lose
  BY <1>1, <1>5, LoseKeeps
<1>6. CASE Acknowledge
  BY <1>1, <1>6, AcknowledgeKeeps
<1>7. CASE ReadAck
  BY <1>1, <1>7, ReadAckKeeps
<1>8. CASE LoseAck
  BY <1>1, <1>8, LoseAckKeeps
<1>9. CASE Close
  BY <1>1, <1>9, CloseKeeps
<1>10. CASE UNCHANGED vars
  BY <1>10, SameKeeps
<1> QED
  BY <1>2, <1>3, <1>4, <1>5, <1>6, <1>7, <1>8, <1>9, <1>10 DEF Next

\* The blocks the sender has under way and the receiver holds or has passed are
\* one numbering of one cutting of the host's stream, whatever was lost and
\* however late the answers come (granted.rs, data_frames, accept, take_ack).
THEOREM Numbered == Spec => []IInv
<1>1. Init => IInv
  BY InitKeeps
<1>2. IInv /\ [Next]_vars => IInv'
  BY StepKeeps
<1> QED
  BY <1>1, <1>2, PTL DEF Spec
-----------------------------------------------------------------------------
\* What the invariant says of the two ends.

\* Where the two ends are in the stream.
Ends(h, s, r, tb, tn, rb, start) ==
  /\ h \in Nat /\ h <= MaxUnits /\ start[rb] - 1 \in 0 .. h
  /\ Len(r.delivered) = start[rb] - 1
  /\ r.delivered = [i \in 1 .. (start[rb] - 1) |-> i]
  /\ tb <= rb /\ rb <= tn /\ tn <= rb + Window
  /\ start[tn] + s.queue = h + 1 /\ s.queue \in Nat
  /\ \A x, y \in 0 .. tn : x <= y => start[x] <= start[y]

LEMMA DeliveredIs ==
  ASSUME NEW tb \in Nat, NEW tn \in Nat, NEW rb \in Nat, NEW start \in [Nat -> Nat],
         NEW buf \in SUBSET Nat, NEW held \in SUBSET Nat, NEW fb, NEW ab, NEW ag,
         NEW h, NEW s, NEW r, NEW frames, NEW sent,
         Inv(h, s, r, frames, sent, tb, tn, rb, start, buf, held, fb, ab, ag)
  PROVE  Ends(h, s, r, tb, tn, rb, start)
<1>1. /\ h \in 0 .. MaxUnits /\ tb <= rb
      /\ SenderInv(s, h, tb, tn, start)
      /\ ReceiverInv(r, tn, rb, start, buf, held)
  BY DEF Inv
<1>2. h \in Nat /\ h <= MaxUnits
  BY <1>1, BoundAssumption
<1>3. /\ Cuts(tn, start) /\ s.queue \in Nat /\ start[tn] + s.queue = h + 1
      /\ tn <= tb + Window
  BY <1>1 DEF SenderInv
<1>4. rb <= tn /\ r.delivered = UnitsFrom(1, start[rb])
  BY <1>1 DEF ReceiverInv
<1>5. tn <= rb + Window
  BY <1>1, <1>3, SizesAre
<1>6. /\ \A x \in 0 .. tn : start[x] >= 1
      /\ \A x, y \in 0 .. tn : x <= y => start[x] <= start[y]
  BY <1>3, CutsGrow
<1> DEFINE b == start[rb]
           c == start[tn]
           queue == s.queue
<1>7. b >= 1 /\ b <= c /\ b \in Nat /\ c \in Nat
  <2>1. rb \in 0 .. tn /\ tn \in 0 .. tn
    BY <1>4
  <2> QED
    BY <1>4, <1>6, <2>1
<1>8. queue \in Nat /\ c + queue = h + 1 /\ r.delivered = UnitsFrom(1, b)
  BY <1>3, <1>4
<1> HIDE DEF b, c, queue
<1>9. b - 1 \in 0 .. h /\ b - 1 \in Nat
  BY <1>2, <1>7, <1>8
<1>10. r.delivered = [i \in 1 .. (b - 1) |-> i]
  <2>1. \A i \in 1 .. (b - 1) : 1 + i - 1 = i
    OBVIOUS
  <2> QED
    BY <1>8, <2>1 DEF UnitsFrom
<1>11. Len(r.delivered) = b - 1
  BY <1>9, <1>10
<1> QED
  BY <1>1, <1>2, <1>3, <1>4, <1>5, <1>6, <1>9, <1>10, <1>11 DEF b, Ends

\* Where a record's block lies in the stream.
RecordIs(q, x, start) ==
  /\ q = x % SeqMod /\ sender.records[q].at = start[x]
  /\ RecordOf(sender.records[q], start[x], LenOf(start, x))

LEMMA RecordsAre ==
  ASSUME NEW tb \in Nat, NEW tn \in Nat, NEW start \in [Nat -> Nat],
         SenderInv(sender, host, tb, tn, start), NEW q \in DOMAIN sender.records
  PROVE  \E x \in tb .. (tn - 1) : RecordIs(q, x, start)
<1>1. DOMAIN sender.records = NumbersOf(tb .. (tn - 1))
  BY DEF SenderInv
<1>2. PICK x \in tb .. (tn - 1) : q = x % SeqMod
  BY <1>1 DEF NumbersOf
<1>3. RecordOf(sender.records[q], start[x], LenOf(start, x))
  BY <1>2 DEF SenderInv
<1> QED
  BY <1>2, <1>3 DEF RecordOf, RecordIs

LEMMA AckedFollows ==
  ASSUME NEW tb \in Nat, NEW tn \in Nat, NEW rb \in Nat, NEW start \in [Nat -> Nat],
         NEW buf \in SUBSET Nat, NEW held \in SUBSET Nat, NEW fb, NEW ab, NEW ag,
         Inv(host, sender, receiver, air, acks, tb, tn, rb, start, buf, held, fb, ab, ag)
  PROVE  AckedIsReceived
<1>1. /\ SenderInv(sender, host, tb, tn, start)
      /\ ReceiverInv(receiver, tn, rb, start, buf, held)
      /\ AckedInv(sender, Len(acks), ab, ag, tb, tn, rb, buf)
  BY DEF Inv
<1>2. /\ host \in Nat /\ Len(receiver.delivered) = start[rb] - 1
      /\ tb <= rb /\ rb <= tn
      /\ start[tn] + sender.queue = host + 1 /\ sender.queue \in Nat
      /\ \A x, y \in 0 .. tn : x <= y => start[x] <= start[y]
  <2>1. Ends(host, sender, receiver, tb, tn, rb, start)
    BY DeliveredIs
  <2> QED
    BY <2>1 DEF Ends
<1>3. /\ sender.txBase = tb % SeqMod /\ sender.txNext = tn % SeqMod /\ tb <= tn
      /\ tn <= tb + Window /\ Cuts(tn, start)
  BY <1>1 DEF SenderInv
<1>4. FirstKept = start[tb]
  <2>1. CASE sender.txBase = sender.txNext
    <3>1. tn - tb = SeqDistance(sender.txNext, sender.txBase)
      BY <1>1, FlightIs
    <3>2. SeqDistance(sender.txNext, sender.txBase) = 0
      <4>1. SeqDistance(tb % SeqMod, tb % SeqMod) = tb - tb
        BY DistAhead, SizesAre
      <4> QED
        BY <1>3, <2>1, <4>1
    <3>3. tn = tb
      BY <3>1, <3>2
    <3> DEFINE queue == sender.queue
               c == start[tn]
    <3>4. FirstKept = host - queue + 1
      BY <2>1 DEF FirstKept
    <3>5. queue \in Nat /\ c \in Nat /\ c + queue = host + 1
      BY <1>2
    <3> HIDE DEF queue, c
    <3>6. FirstKept = c
      BY <1>2, <3>4, <3>5
    <3> QED
      BY <3>3, <3>6 DEF c
  <2>2. CASE sender.txBase # sender.txNext
    <3>1. tb # tn
      BY <1>3, <2>2
    <3>2. tb \in tb .. (tn - 1)
      BY <1>3, <3>1
    <3>3. sender.records[tb % SeqMod].at = start[tb]
      BY <1>1, <3>2 DEF SenderInv, RecordOf
    <3> QED
      BY <1>3, <2>2, <3>3 DEF FirstKept
  <2> QED
    BY <2>1, <2>2
<1>5. FirstKept <= Len(receiver.delivered) + 1
  <2> DEFINE a == start[tb]
             b == start[rb]
  <2>1. tb \in 0 .. tn /\ rb \in 0 .. tn
    BY <1>2
  <2>2. a <= b /\ a \in Nat /\ b \in Nat
    BY <1>2, <2>1
  <2>3. FirstKept = a /\ Len(receiver.delivered) = b - 1
    BY <1>2, <1>4
  <2> HIDE DEF a, b
  <2> QED
    BY <2>2, <2>3
<1>6. ASSUME NEW q \in DOMAIN sender.records, sender.records[q].acked
      PROVE  \/ sender.records[q].at <= Len(receiver.delivered)
             \/ q \in DOMAIN receiver.rxBuf
  <2>5. PICK x \in tb .. (tn - 1) : RecordIs(q, x, start)
    BY <1>1, RecordsAre
  <2>1. q = x % SeqMod /\ sender.records[q].at = start[x]
    BY <2>5 DEF RecordIs
  <2>2. x < rb \/ x \in buf
    BY <1>1, <1>6, <2>1 DEF AckedInv
  <2>3. CASE x \in buf
    <3>1. DOMAIN receiver.rxBuf = NumbersOf(buf)
      BY <1>1 DEF ReceiverInv
    <3> QED
      BY <2>1, <2>3, <3>1 DEF NumbersOf
  <2>4. CASE x < rb
    <3> DEFINE a == start[x]
               b == start[rb]
               y == x + 1
    <3>1. x \in 0 .. (tn - 1) /\ y \in 0 .. tn /\ rb \in 0 .. tn /\ y <= rb
      BY <1>2, <2>4
    <3>2. start[x] < start[x + 1]
      BY <1>3, <3>1, CutsGrow
    <3>3. start[y] <= b
      BY <1>2, <3>1
    <3>4. a \in Nat /\ start[y] \in Nat /\ b \in Nat /\ a < start[y]
      BY <3>1, <3>2
    <3>5. sender.records[q].at = a /\ Len(receiver.delivered) = b - 1
      BY <1>2, <2>1
    <3> HIDE DEF a, b, y
    <3>6. a <= b - 1
      BY <3>3, <3>4
    <3> QED
      BY <3>5, <3>6
  <2> QED
    BY <2>2, <2>3, <2>4
<1> QED
  BY <1>5, <1>6 DEF AckedIsReceived

LEMMA PiecesFollow ==
  ASSUME NEW tb \in Nat, NEW tn \in Nat, NEW rb \in Nat, NEW start \in [Nat -> Nat],
         NEW buf \in SUBSET Nat, NEW held \in SUBSET Nat, NEW fb, NEW ab, NEW ag,
         Inv(host, sender, receiver, air, acks, tb, tn, rb, start, buf, held, fb, ab, ag)
  PROVE  PiecesAreOfTheBlock
<1>1. /\ SenderInv(sender, host, tb, tn, start)
      /\ ReceiverInv(receiver, tn, rb, start, buf, held)
      /\ AckedInv(sender, Len(acks), ab, ag, tb, tn, rb, buf)
      /\ tb <= rb
  BY DEF Inv
<1>2. /\ DOMAIN receiver.pieces = NumbersOf(held) /\ held \subseteq rb .. (tn - 1)
      /\ buf \cap held = {}
      /\ \A x \in held : PiecesOf(receiver.pieces[x % SeqMod], start[x], LenOf(start, x))
  BY <1>1 DEF ReceiverInv
<1>3. ASSUME NEW q \in DOMAIN receiver.pieces
      PROVE  /\ q \in DOMAIN sender.records /\ ~sender.records[q].acked
             /\ \A o \in DOMAIN receiver.pieces[q].have :
                  receiver.pieces[q].have[o] = sender.records[q].at + o
             /\ receiver.pieces[q].total \in {None, sender.records[q].len}
  <2>1. PICK x \in held : q = x % SeqMod
    BY <1>2 DEF NumbersOf
  <2>2. x \in rb .. (tn - 1) /\ x \notin buf
    BY <1>2
  <2>3. x \in tb .. (tn - 1) /\ ~ (x < rb)
    BY <1>1, <2>2
  <2>4. q \in DOMAIN sender.records
    BY <1>1, <2>1, <2>3 DEF SenderInv, NumbersOf
  <2>5. sender.records[q].at = start[x] /\ sender.records[q].len = LenOf(start, x)
    BY <1>1, <2>1, <2>3 DEF SenderInv, RecordOf
  <2>6. ~sender.records[q].acked
    BY <1>1, <2>1, <2>2, <2>3 DEF AckedInv
  <2>7. PiecesOf(receiver.pieces[q], start[x], LenOf(start, x))
    BY <1>2, <2>1
  <2> QED
    BY <2>4, <2>5, <2>6, <2>7 DEF PiecesOf
<1> QED
  BY <1>3 DEF PiecesAreOfTheBlock

\* Nothing the sender has let go or holds as acknowledged is missing at the
\* receiver (take_ack, Received: the half of the sequence numbers behind the
\* base an answer states is what the receiver has passed).
THEOREM AckedReceived == Spec => []AckedIsReceived
<1>1. IInv => AckedIsReceived
  BY AckedFollows DEF IInv
<1> QED
  BY <1>1, Numbered, PTL

\* What the receiver holds in pieces under a number is of the block the sender
\* has under it, in every split it went in (receive_piece).
THEOREM PiecesOfTheBlock == Spec => []PiecesAreOfTheBlock
<1>1. IInv => PiecesAreOfTheBlock
  BY PiecesFollow DEF IInv
<1> QED
  BY <1>1, Numbered, PTL
-----------------------------------------------------------------------------
\* The byte stream.

\* The units handed over up to n, and those delivered.
UpTo(n) == [i \in 1 .. n |-> i]

LEMMA UpToIs ==
  ASSUME NEW n \in Nat
  PROVE  /\ UpTo(n) \in Seq(Nat) /\ Len(UpTo(n)) = n
         /\ Append(UpTo(n), n + 1) = UpTo(n + 1)
         /\ \A m \in 0 .. n : SubSeq(UpTo(n), 1, m) = UpTo(m)
<1> DEFINE p == UpTo(n)
           q == UpTo(n + 1)
<1>1. p \in Seq(Nat) /\ Len(p) = n /\ \A i \in 1 .. n : p[i] = i
  BY DEF UpTo
<1>2. q \in Seq(Nat) /\ Len(q) = n + 1 /\ \A i \in 1 .. (n + 1) : q[i] = i
  BY DEF UpTo
<1> DEFINE r == Append(p, n + 1)
<1> HIDE DEF p, q
<1>3. /\ r \in Seq(Nat) /\ Len(r) = n + 1
      /\ \A i \in 1 .. n : r[i] = p[i]
      /\ r[n + 1] = n + 1
  BY <1>1
<1> HIDE DEF r
<1>4. \A i \in 1 .. (n + 1) : r[i] = q[i]
  <2>1. ASSUME NEW i \in 1 .. (n + 1)
        PROVE  r[i] = q[i]
    <3>1. i \in 1 .. n \/ i = n + 1
      OBVIOUS
    <3> QED
      BY <1>1, <1>2, <1>3, <3>1
  <2> QED
    BY <2>1
<1>5. r = q
  BY <1>2, <1>3, <1>4, SeqEqual
<1>6. ASSUME NEW m \in 0 .. n
      PROVE  SubSeq(p, 1, m) = UpTo(m)
  <2> DEFINE s == SubSeq(p, 1, m)
             t == UpTo(m)
  <2>1. t \in Seq(Nat) /\ Len(t) = m /\ \A i \in 1 .. m : t[i] = i
    BY DEF UpTo
  <2>2. m \in Nat /\ m <= n
    BY <1>6
  <2>3. \A i \in 1 .. m : p[i] \in Nat
    BY <1>1, <2>2
  <2>4. /\ s \in Seq(Nat) /\ Len(s) = IF 1 <= m THEN m - 1 + 1 ELSE 0
        /\ \A i \in 1 .. (m - 1 + 1) : s[i] = p[1 + i - 1]
    BY <1>1, <2>2, <2>3, SubSeqProperties
  <2> HIDE DEF s, t
  <2>5. Len(s) = m
    BY <2>2, <2>4
  <2>6. \A i \in 1 .. m : s[i] = t[i]
    <3>1. ASSUME NEW i \in 1 .. m
          PROVE  s[i] = t[i]
      <4>1. i \in 1 .. (m - 1 + 1) /\ 1 + i - 1 = i /\ i \in 1 .. n
        BY <2>2
      <4> QED
        BY <1>1, <2>1, <2>4, <4>1
    <3> QED
      BY <3>1
  <2>7. s = t
    BY <2>1, <2>4, <2>5, <2>6, SeqEqual
  <2> QED
    BY <2>7 DEF s, t
<1> QED
  BY <1>1, <1>5, <1>6 DEF p, q, r

\* What is heard delivers more of what was handed over, or nothing.
LEMMA HearDelivers ==
  ASSUME IInv, NEW late, Hear(late)
  PROVE  \/ Stream!Deliver
         \/ host' = host /\ receiver'.delivered = receiver.delivered
<1>1. PICK tb \in Nat, tn \in Nat, rb \in Nat, start \in [Nat -> Nat], fb \in [Nat -> Nat],
           ab \in [Nat -> Nat], ag \in [Nat -> SUBSET Nat], buf \in SUBSET Nat,
           held \in SUBSET Nat :
        Inv(host, sender, receiver, air, acks, tb, tn, rb, start, buf, held, fb, ab, ag)
  BY DEF IInv
<1>2. PICK rb1 \in Nat, buf1 \in SUBSET Nat, held1 \in SUBSET Nat, fb1 \in [Nat -> Nat] :
        /\ rb <= rb1
        /\ Inv(host', sender', receiver', air', acks', tb, tn, rb1, start, buf1, held1,
               fb1, ab, ag)
  BY <1>1, HearKeeps
<1>3. host' = host /\ sender' = sender
  BY DEF Hear
<1>4. Ends(host, sender, receiver, tb, tn, rb, start)
  BY <1>1, DeliveredIs
<1>5. Ends(host', sender', receiver', tb, tn, rb1, start)
  BY <1>2, DeliveredIs
<1> DEFINE a == start[rb] - 1
           b == start[rb1] - 1
<1>6. /\ host \in Nat /\ receiver.delivered = UpTo(a) /\ a \in 0 .. host
      /\ receiver'.delivered = UpTo(b) /\ b \in 0 .. host
  BY <1>3, <1>4, <1>5 DEF Ends, UpTo
<1>7. a <= b
  <2>1. rb \in 0 .. tn /\ rb1 \in 0 .. tn
    BY <1>2, <1>4, <1>5 DEF Ends
  <2> DEFINE c == start[rb]
             d == start[rb1]
  <2>2. c <= d /\ c \in Nat /\ d \in Nat
    BY <1>2, <1>4, <2>1 DEF Ends
  <2>3. a = c - 1 /\ b = d - 1
    OBVIOUS
  <2> HIDE DEF a, b, c, d
  <2> QED
    BY <2>2, <2>3
<1> HIDE DEF a, b
<1>8. CASE a = b
  BY <1>3, <1>6, <1>8
<1>9. CASE a # b
  <2>1. b \in (a + 1) .. host /\ a \in Nat /\ b \in 0 .. host
    <3>1. host \in Nat /\ a \in 0 .. host /\ b \in 0 .. host
      BY <1>6
    <3> QED
      BY <1>7, <1>9, <3>1
  <2>2. Len(UpTo(a)) = a /\ Len(UpTo(host)) = host /\ SubSeq(UpTo(host), 1, b) = UpTo(b)
    BY <1>6, <2>1, UpToIs
  <2>3. \E n \in (Len(receiver.delivered) + 1) .. Len(UpTo(host)) :
          receiver'.delivered = SubSeq(UpTo(host), 1, n)
    BY <1>6, <2>1, <2>2
  <2>4. Stream!Deliver
    BY <1>3, <2>3 DEF Stream!Deliver, UpTo
  <2> QED
    BY <2>4
<1> QED
  BY <1>8, <1>9

LEMMA HostPuts ==
  ASSUME IInv, Host
  PROVE  Stream!Put
<1>1. host < MaxUnits /\ host' = host + 1 /\ receiver' = receiver
  BY DEF Host
<1>2. host \in 0 .. MaxUnits /\ MaxUnits \in Nat
  BY BoundAssumption DEF IInv, Inv
<1>3. host \in Nat /\ host + 1 \in 1 .. MaxUnits
  BY <1>1, <1>2
<1>4. UpTo(host') = Append(UpTo(host), host + 1)
  BY <1>1, <1>3, UpToIs
<1>5. \E d \in 1 .. MaxUnits : UpTo(host') = Append(UpTo(host), d)
  BY <1>3, <1>4
<1> QED
  BY <1>1, <1>5 DEF Stream!Put, UpTo

LEMMA StreamStep ==
  ASSUME IInv, [Next]_vars
  PROVE  [Stream!Next]_<<[i \in 1 .. host |-> i], receiver.delivered>>
<1>1. CASE Host
  BY <1>1, HostPuts DEF Stream!Next
<1>2. ASSUME NEW late, Hear(late)
      PROVE  [Stream!Next]_<<[i \in 1 .. host |-> i], receiver.delivered>>
  BY <1>2, HearDelivers DEF Stream!Next
<1>3. ASSUME host' = host, receiver'.delivered = receiver.delivered
      PROVE  [Stream!Next]_<<[i \in 1 .. host |-> i], receiver.delivered>>
  BY <1>3
<1>4. CASE Transmit
  BY <1>3, <1>4 DEF Transmit, TransmitUpTo
<1>5. CASE Lose
  BY <1>3, <1>5 DEF Lose
<1>6. CASE Acknowledge
  <2>1. host' = host /\ receiver' = [receiver EXCEPT !.owed = FALSE]
    BY <1>6 DEF Acknowledge
  <2>2. \E tn, rb, start, buf, held : ReceiverInv(receiver, tn, rb, start, buf, held)
    BY DEF IInv, Inv
  <2>3. receiver'.delivered = receiver.delivered
    BY <2>1, <2>2, OwedKeeps
  <2> QED
    BY <1>3, <2>1, <2>3
<1>7. CASE ReadAck
  BY <1>3, <1>7 DEF ReadAck
<1>8. CASE LoseAck
  BY <1>3, <1>8 DEF LoseAck
<1>9. CASE Close
  BY <1>3, <1>9 DEF Close
<1>10. CASE UNCHANGED vars
  BY <1>3, <1>10 DEF vars
<1> QED
  BY <1>1, <1>2, <1>4, <1>5, <1>6, <1>7, <1>8, <1>9, <1>10 DEF Next

\* What one host hands its station comes out at the other, whole, once and in
\* order, as far as it has come (Action::Deliver): the transfer implements the
\* byte stream.
THEOREM StreamHolds == Spec => StreamSpec
<1>1. Init => Stream!Init
  <2>1. [i \in 1 .. 0 |-> i] = <<>>
    OBVIOUS
  <2> QED
    BY <2>1 DEF Init, Stream!Init
<1>2. IInv /\ [Next]_vars => [Stream!Next]_<<[i \in 1 .. host |-> i], receiver.delivered>>
  BY StreamStep
<1> QED
  BY <1>1, <1>2, Numbered, PTL DEF Spec, StreamSpec, Stream!Spec
-----------------------------------------------------------------------------
\* The types.

\* A block before tn ends in the host's units.
LEMMA InStream ==
  ASSUME NEW tn \in Nat, NEW start \in [Nat -> Nat], Cuts(tn, start), NEW x \in 0 .. (tn - 1),
         NEW h \in Nat, NEW queue \in Nat, start[tn] + queue = h + 1
  PROVE  /\ start[x] \in Nat \ {0} /\ LenOf(start, x) \in Nat \ {0}
         /\ start[x] + LenOf(start, x) <= h + 1
<1> DEFINE a == start[x]
           len == LenOf(start, x)
           b == start[x + 1]
           c == start[tn]
<1>1. len \in Nat \ {0} /\ a \in Nat \ {0} /\ b \in Nat /\ a + len = b
  BY LenIsPositive
<1>2. x + 1 \in 0 .. tn /\ tn \in 0 .. tn /\ x + 1 <= tn
  OBVIOUS
<1>3. b <= c /\ c \in Nat
  BY <1>2, CutsGrow
<1>4. c + queue = h + 1
  OBVIOUS
<1> HIDE DEF a, len, b, c
<1>5. a + len <= h + 1
  BY <1>1, <1>3, <1>4
<1> QED
  BY <1>1, <1>5 DEF a, len

\* The sender's part of TypeOK.
SenderOK ==
  /\ sender.queue \in 0 .. host
  /\ sender.txBase \in Seqs /\ sender.txNext \in Seqs
  /\ SeqDistance(sender.txNext, sender.txBase) <= Window
  /\ DOMAIN sender.records =
       {SeqAfter(sender.txBase, i) : i \in 0 .. (SeqDistance(sender.txNext, sender.txBase) - 1)}
  /\ \A q \in DOMAIN sender.records :
       LET rec == sender.records[q]
       IN  /\ rec.mode \in Modes /\ rec.len \in 1 .. MaxUnits
           /\ rec.at + rec.len - 1 \in 1 .. host
           /\ rec.gone \in SUBSET (1 .. Len(rec.parts))
           /\ rec.parts = <<>> => rec.len <= Capacity[rec.mode]

LEMMA SenderTyped ==
  ASSUME NEW tb \in Nat, NEW tn \in Nat, NEW start \in [Nat -> Nat],
         SenderInv(sender, host, tb, tn, start), host \in Nat, MaxUnits \in Nat, host <= MaxUnits
  PROVE  SenderOK
<1> DEFINE queue == sender.queue
           c == start[tn]
<1>1. /\ sender.txBase = tb % SeqMod /\ sender.txNext = tn % SeqMod /\ tb <= tn
      /\ Cuts(tn, start) /\ queue \in Nat /\ c + queue = host + 1
      /\ DOMAIN sender.records = NumbersOf(tb .. (tn - 1))
  BY DEF SenderInv
<1>2. queue \in 0 .. host
  <2>1. c >= 1 /\ c \in Nat
    <3>1. tn \in 0 .. tn
      OBVIOUS
    <3> QED
      BY <1>1, <3>1, CutsGrow
  <2> HIDE DEF queue, c
  <2> QED
    BY <1>1, <2>1
<1>3. sender.txBase \in Seqs /\ sender.txNext \in Seqs
  BY <1>1, NumIsSeq
<1>4. /\ SeqDistance(sender.txNext, sender.txBase) = tn - tb
      /\ tb <= tn /\ tn - tb <= Window /\ tn - tb \in Nat
      /\ \A i \in Int : SeqAfter(sender.txBase, i) = (tb + i) % SeqMod
  BY FlightIs
<1>5. DOMAIN sender.records =
        {SeqAfter(sender.txBase, i) : i \in 0 .. (SeqDistance(sender.txNext, sender.txBase) - 1)}
  <2> DEFINE After == {SeqAfter(sender.txBase, i) : i \in 0 .. (tn - tb - 1)}
  <2>1. ASSUME NEW x \in tb .. (tn - 1)
        PROVE  x % SeqMod \in After
    <3>1. x - tb \in 0 .. (tn - tb - 1) /\ tb + (x - tb) = x /\ x - tb \in Int
      OBVIOUS
    <3>2. SeqAfter(sender.txBase, x - tb) = x % SeqMod
      BY <1>4, <3>1
    <3> QED
      BY <3>1, <3>2
  <2>2. ASSUME NEW i \in 0 .. (tn - tb - 1)
        PROVE  SeqAfter(sender.txBase, i) \in NumbersOf(tb .. (tn - 1))
    <3>1. tb + i \in tb .. (tn - 1) /\ i \in Int
      OBVIOUS
    <3> QED
      BY <1>4, <3>1 DEF NumbersOf
  <2>3. \A q : q \in NumbersOf(tb .. (tn - 1)) <=> q \in After
    BY <2>1, <2>2 DEF NumbersOf
  <2>4. NumbersOf(tb .. (tn - 1)) = After
    <3> DEFINE S == NumbersOf(tb .. (tn - 1))
    <3>1. \A q : q \in S <=> q \in After
      BY <2>3
    <3> HIDE DEF S, After
    <3>2. S = After
      BY <3>1
    <3> QED
      BY <3>2 DEF S
  <2> QED
    BY <1>1, <1>4, <2>4
<1>6. ASSUME NEW q \in DOMAIN sender.records
      PROVE  /\ sender.records[q].mode \in Modes /\ sender.records[q].len \in 1 .. MaxUnits
             /\ sender.records[q].at + sender.records[q].len - 1 \in 1 .. host
             /\ sender.records[q].gone \in SUBSET (1 .. Len(sender.records[q].parts))
             /\ sender.records[q].parts = <<>> =>
                  sender.records[q].len <= Capacity[sender.records[q].mode]
  <2>1. PICK x \in tb .. (tn - 1) : RecordIs(q, x, start)
    BY RecordsAre
  <2> DEFINE rec == sender.records[q]
             a == start[x]
             len == LenOf(start, x)
  <2>2. /\ rec.at = a /\ rec.len = len /\ rec.mode \in Modes
        /\ rec.gone \in SUBSET (1 .. Len(rec.parts))
        /\ rec.parts = <<>> => len <= Capacity[rec.mode]
    BY <2>1 DEF RecordIs, RecordOf
  <2>3. x \in 0 .. (tn - 1)
    OBVIOUS
  <2>4. a \in Nat \ {0} /\ len \in Nat \ {0} /\ a + len <= host + 1
    BY <1>1, <2>3, InStream
  <2> HIDE DEF rec, a, len
  <2>5. len \in 1 .. MaxUnits /\ a + len - 1 \in 1 .. host
    BY <2>4
  <2> QED
    BY <2>2, <2>5 DEF rec
<1> QED
  BY <1>2, <1>3, <1>4, <1>5, <1>6 DEF SenderOK

\* The receiver's part of TypeOK, and the channels'.
ReceiverOK ==
  /\ receiver.rxBase \in Seqs /\ receiver.maxSeen \in Seqs \cup {None}
  /\ receiver.delivered \in Bodies
  /\ \A q \in DOMAIN receiver.rxBuf \cup DOMAIN receiver.pieces :
       q \in Seqs /\ InWindow(q, receiver.rxBase)

ChannelsOK ==
  /\ \A i \in 1 .. Len(air) : air[i].at + air[i].len - 1 \in 1 .. host
  /\ \A i \in 1 .. Len(acks) : acks[i].base \in Seqs /\ acks[i].bits \subseteq 1 .. (Window - 1)

LEMMA ReceiverTyped ==
  ASSUME NEW tb \in Nat, NEW tn \in Nat, NEW rb \in Nat, NEW start \in [Nat -> Nat],
         NEW buf \in SUBSET Nat, NEW held \in SUBSET Nat, NEW fb, NEW ab, NEW ag,
         Inv(host, sender, receiver, air, acks, tb, tn, rb, start, buf, held, fb, ab, ag)
  PROVE  ReceiverOK
<1>1. Ends(host, sender, receiver, tb, tn, rb, start)
  BY DeliveredIs
<1>2. ReceiverInv(receiver, tn, rb, start, buf, held)
  BY DEF Inv
<1>3. /\ receiver.rxBase = rb % SeqMod /\ receiver.maxSeen \in Seqs \cup {None}
      /\ buf \subseteq rb .. (tn - 1) /\ held \subseteq rb .. (tn - 1)
      /\ DOMAIN receiver.rxBuf = NumbersOf(buf) /\ DOMAIN receiver.pieces = NumbersOf(held)
  BY <1>2 DEF ReceiverInv
<1>4. receiver.rxBase \in Seqs
  BY <1>3, NumIsSeq
<1>5. ASSUME NEW q \in DOMAIN receiver.rxBuf \cup DOMAIN receiver.pieces
      PROVE  q \in Seqs /\ InWindow(q, receiver.rxBase)
  <2>1. PICK x \in buf \cup held : q = x % SeqMod
    BY <1>3 DEF NumbersOf
  <2>2. x \in rb .. (tn - 1) /\ tn <= rb + Window
    BY <1>1, <1>3 DEF Ends
  <2>3. x \in Int /\ rb \in Int /\ rb <= x /\ x - rb < Window /\ rb - x <= Window
    BY <2>2, SizesAre
  <2>4. InWindow(x % SeqMod, rb % SeqMod) <=> rb <= x
    BY <2>3, WindowAhead
  <2> QED
    BY <1>3, <2>1, <2>3, <2>4, NumIsSeq
<1>6. receiver.delivered \in Bodies
  <2> DEFINE n == start[rb] - 1
  <2>1. n \in 0 .. host /\ host \in Nat /\ host <= MaxUnits
        /\ receiver.delivered = [i \in 1 .. n |-> i]
    BY <1>1 DEF Ends
  <2> HIDE DEF n
  <2>2. n \in 0 .. MaxUnits /\ \A i \in 1 .. n : i \in 1 .. MaxUnits
    <3>1. MaxUnits \in Nat
      BY BoundAssumption
    <3>2. n \in Nat /\ n <= host /\ host \in Nat /\ host <= MaxUnits
      BY <2>1
    <3>3. n \in 0 .. MaxUnits
      BY <3>1, <3>2
    <3>4. \A i \in 1 .. n : i \in 1 .. MaxUnits
      BY <3>1, <3>3
    <3> QED
      BY <3>3, <3>4
  <2>3. receiver.delivered \in [1 .. n -> 1 .. MaxUnits]
    BY <2>1, <2>2
  <2> QED
    BY <2>2, <2>3 DEF Bodies
<1> QED
  BY <1>3, <1>4, <1>5, <1>6 DEF ReceiverOK

LEMMA ChannelsTyped ==
  ASSUME NEW tb \in Nat, NEW tn \in Nat, NEW rb \in Nat, NEW start \in [Nat -> Nat],
         NEW buf \in SUBSET Nat, NEW held \in SUBSET Nat, NEW fb \in [Nat -> Nat], NEW ab, NEW ag,
         Inv(host, sender, receiver, air, acks, tb, tn, rb, start, buf, held, fb, ab, ag)
  PROVE  ChannelsOK
<1>1. Ends(host, sender, receiver, tb, tn, rb, start)
  BY DeliveredIs
<1>2. /\ AirInv(air, fb, tn, rb, start, buf) /\ AcksInv(acks, ab, ag, tb, rb, buf)
      /\ Cuts(tn, start)
  BY DEF Inv, SenderInv
<1> DEFINE F == Frames
           A == [base : Seqs, bits : SUBSET (1 .. (Window - 1))]
<1>3. air \in Seq(F) /\ acks \in Seq(A)
  BY <1>2 DEF AirInv, AcksInv
<1> HIDE DEF F, A
<1>4. ASSUME NEW i \in 1 .. Len(air)
      PROVE  air[i].at + air[i].len - 1 \in 1 .. host
  <2> DEFINE f == air[i]
             x == fb[i]
             a == start[x]
             len == LenOf(start, x)
             queue == sender.queue
  <2>1. f \in F /\ i \in Nat
    BY <1>3, ElementOf
  <2>2. FrameOf(f, x, start) /\ x < tn /\ x \in Nat
    BY <1>2, <2>1 DEF AirInv
  <2>3. x \in 0 .. (tn - 1)
    BY <2>2, SMTT(30)
  <2> HIDE DEF x
  <2>4. queue \in Nat /\ start[tn] + queue = host + 1 /\ host \in Nat
    BY <1>1 DEF Ends
  <2>5. a \in Nat \ {0} /\ len \in Nat \ {0} /\ a + len <= host + 1
    BY <1>2, <2>3, <2>4, InStream
  <2> DEFINE offset == f.offset
             flen == f.len
  <2>6. /\ f.at = a + offset /\ offset + flen <= len /\ flen > 0
        /\ offset \in Nat /\ flen \in Nat
    BY <2>1, <2>2 DEF FrameOf, F, Frames
  <2> HIDE DEF offset, a, len, queue, flen
  <2>7. (a + offset) + flen - 1 \in 1 .. host
    BY <2>4, <2>5, <2>6
  <2> QED
    BY <2>6, <2>7 DEF flen
<1>5. ASSUME NEW i \in 1 .. Len(acks)
      PROVE  acks[i].base \in Seqs /\ acks[i].bits \subseteq 1 .. (Window - 1)
  <2>1. acks[i] \in A
    BY <1>3, ElementOf
  <2> QED
    BY <2>1 DEF A
<1> QED
  BY <1>4, <1>5 DEF ChannelsOK

LEMMA TypesFollow ==
  ASSUME IInv
  PROVE  TypeOK
<1>1. PICK tb \in Nat, tn \in Nat, rb \in Nat, start \in [Nat -> Nat], fb \in [Nat -> Nat],
           ab \in [Nat -> Nat], ag \in [Nat -> SUBSET Nat], buf \in SUBSET Nat,
           held \in SUBSET Nat :
        Inv(host, sender, receiver, air, acks, tb, tn, rb, start, buf, held, fb, ab, ag)
  BY DEF IInv
<1>2. host \in 0 .. MaxUnits /\ host \in Nat /\ host <= MaxUnits /\ MaxUnits \in Nat
  BY <1>1, BoundAssumption DEF Inv
<1>3. SenderInv(sender, host, tb, tn, start)
  BY <1>1 DEF Inv
<1>4. SenderOK
  BY <1>2, <1>3, SenderTyped
<1>5. ReceiverOK
  BY <1>1, ReceiverTyped
<1>6. ChannelsOK
  BY <1>1, ChannelsTyped
<1> QED
  BY <1>2, <1>4, <1>5, <1>6 DEF TypeOK, SenderOK, ReceiverOK, ChannelsOK

\* The states of both ends lie in the window and in the stream: no record, no
\* piece and no frame is of a block the window does not hold.
THEOREM TransferTyped == Spec => []TypeOK
<1>1. IInv => TypeOK
  BY TypesFollow
<1> QED
  BY <1>1, Numbered, PTL
=============================================================================
