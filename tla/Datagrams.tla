------------------------------ MODULE Datagrams ------------------------------
(***************************************************************************)
(* Datagrams on the air (ADR-0019): a sender numbers each, splits it in    *)
(* pieces that each fill a frame or leave room for their length, and sends *)
(* them in order; a receiver joins what it decodes by number and last      *)
(* piece, keeps so many at a time and gives up on one after a time.        *)
(*                                                                         *)
(* Nothing is acknowledged: a piece is heard or lost.  A sender is one run *)
(* of a daemon, numbering from 1: a station started again is another.      *)
(* Senders share the channel, a piece at a time.  What a datagram carries  *)
(* is a length; a piece knows whose it is, which the receiver does not.    *)
(***************************************************************************)
EXTENDS Integers, Sequences, FiniteSets

CONSTANTS
    Senders,
    Full,          \* bytes a frame carries of a datagram
    Partial,       \* PARTIAL_LENGTH: bytes a shorter piece states its length in
    MaxFragments,  \* pieces of a datagram
    Numbers,       \* datagram numbers: 255
    Frame,         \* air time of a frame
    Timeout,       \* REASSEMBLY_TIMEOUT_S
    Keep,          \* datagrams waiting for a piece
    Lengths,       \* lengths of what is sent
    MaxMade,       \* bound: datagrams of a sender
    MaxTime        \* bound: the last tick

ASSUME SizeAssumption ==
    /\ {Full, MaxFragments, Numbers, Frame, Keep} \subseteq Nat \ {0}
    /\ Partial = 2 /\ Full > Partial
    /\ {Timeout, MaxMade, MaxTime} \subseteq Nat /\ Lengths \subseteq Nat \ {0}

(* A number comes round again only after the receiver gave up on the last  *)
(* datagram that had it: 255 frames take longer than two minutes.          *)
ASSUME WrapAssumption == Numbers * Frame > Timeout

VARIABLES
    now,
    made,      \* datagrams each sender has made
    number,    \* the last number each sender used
    sending,   \* what is left of each sender's datagram: pieces
    waiting,   \* the receiver's incomplete datagrams
    joined,    \* the pieces it has just handed on as a datagram, if any
    story      \* history: what was heard of each sender's last datagram

vars == <<now, made, number, sending, waiting, joined, story>>

(* Which pieces were heard and when the first, whether one came too late,  *)
(* how many others the receiver began since, and whether a piece of        *)
(* another sender's met it under its number.                               *)
Untold == [heard |-> {}, first |-> 0, late |-> FALSE, begun |-> 0, met |-> FALSE]

-----------------------------------------------------------------------------
\* Mutant: the last piece is sent as it is.
SplitInOne(length) ==
    LET whole == (length - 1) \div Full
    IN  [i \in 1 .. whole |-> Full] \o <<length - whole * Full>>

(* split: the lengths of the pieces of `length` bytes.                     *)
Split(length) ==
    LET whole == (length - 1) \div Full
        rest == length - whole * Full
        fulls == [i \in 1 .. whole |-> Full]
    IN  fulls \o IF rest = Full - 1 THEN <<Full - Partial, rest - (Full - Partial)>>
                 ELSE <<rest>>

(* next_number *)
NextNumber(n) == IF n = Numbers THEN 1 ELSE n + 1

(* fragments: index and last index from 0.                                 *)
Fragments(sender, id, n, lengths) ==
    [i \in 1 .. Len(lengths) |->
        [of |-> <<sender, id>>, number |-> n, index |-> i - 1,
         last |-> Len(lengths) - 1, bytes |-> lengths[i]]]

-----------------------------------------------------------------------------
(* The receiver. *)

\* Mutant: nothing is given up on but to make room.
ExpiredNever(partials, t) == partials

(* Reassembler::expire *)
Expired(partials, t) == {p \in partials : t - p.first <= Timeout}

\* Mutant: room is made one datagram too late.
KeptOneMore(partials) ==
    IF Cardinality(partials) <= Keep THEN partials
    ELSE LET oldest == CHOOSE p \in partials : \A q \in partials : p.first <= q.first
         IN  partials \ {oldest}

\* Mutant: the newest makes room.
KeptOldest(partials) ==
    IF Cardinality(partials) < Keep THEN partials
    ELSE LET newest == CHOOSE p \in partials : \A q \in partials : p.first >= q.first
         IN  partials \ {newest}

(* At most Keep wait: the oldest makes room.                               *)
Kept(partials) ==
    IF Cardinality(partials) < Keep THEN partials
    ELSE LET oldest == CHOOSE p \in partials : \A q \in partials : p.first <= q.first
         IN  partials \ {oldest}

Key(piece) == <<piece.number, piece.last>>

(* Reassembler::add: a piece seen before counts once; a whole datagram is  *)
(* handed on.                                                              *)
Add(piece, t) ==
    LET live == Expired(waiting, t)
        known == {p \in live : p.key = Key(piece)}
        rest == IF known = {} THEN Kept(live) ELSE live \ known
        old == IF known = {} THEN [key |-> Key(piece), first |-> t, pieces |-> {}]
               ELSE CHOOSE p \in known : TRUE
        seen == \E q \in old.pieces : q.index = piece.index
        pieces == IF seen THEN old.pieces ELSE old.pieces \cup {piece}
    IN  IF Cardinality(pieces) = piece.last + 1
        THEN waiting' = rest /\ joined' = pieces
        ELSE waiting' = rest \cup {[old EXCEPT !.pieces = pieces]} /\ joined' = {}

(* What the history keeps of a piece heard.                                *)
Told(piece, t) ==
    LET sender == piece.of[1]
        old == story[sender]
        first == IF old.heard = {} THEN t ELSE old.first
        others == {p \in Expired(waiting, t) :
                      p.key = Key(piece) /\ \E q \in p.pieces : q.of[1] # sender}
        begins == \A p \in Expired(waiting, t) : p.key # Key(piece)
    IN  [s \in Senders |->
            IF s = sender
            THEN [heard |-> old.heard \cup {piece.index}, first |-> first,
                  late |-> t - first > Timeout, begun |-> old.begun,
                  met |-> old.met \/ others # {}]
            ELSE [story[s] EXCEPT
                     !.begun = IF begins /\ story[s].heard # {} THEN @ + 1 ELSE @,
                     !.met = @ \/ (story[s].heard # {} /\ number[s] = piece.number)]]

-----------------------------------------------------------------------------
Init ==
    /\ now = 0
    /\ made = [s \in Senders |-> 0] /\ number = [s \in Senders |-> 0]
    /\ sending = [s \in Senders |-> <<>>]
    /\ waiting = {} /\ joined = {}
    /\ story = [s \in Senders |-> Untold]

(* send_datagram: more pieces than a datagram may have are refused.        *)
Make(sender) ==
    /\ sending[sender] = <<>> /\ made[sender] < MaxMade /\ now < MaxTime
    /\ \E length \in Lengths :
          /\ Len(Split(length)) <= MaxFragments
          /\ sending' = [sending EXCEPT ![sender] =
                 Fragments(sender, made[sender] + 1, NextNumber(number[sender]),
                           Split(length))]
    /\ made' = [made EXCEPT ![sender] = @ + 1]
    /\ number' = [number EXCEPT ![sender] = NextNumber(@)]
    /\ story' = [story EXCEPT ![sender] = Untold]
    /\ joined' = {}
    /\ UNCHANGED <<now, waiting>>

Transmits(sender) ==
    /\ sending[sender] # <<>> /\ now + Frame <= MaxTime
    /\ now' = now + Frame
    /\ sending' = [sending EXCEPT ![sender] = Tail(@)]
    /\ UNCHANGED <<made, number>>

Hear(sender) ==
    /\ Transmits(sender)
    /\ LET piece == Head(sending[sender])
       IN  /\ Add(piece, now + Frame)
           /\ story' = Told(piece, now + Frame)

Lose(sender) ==
    /\ Transmits(sender)
    /\ waiting' = Expired(waiting, now + Frame)
    /\ joined' = {}
    /\ UNCHANGED story

(* Every pass of the station gives up on what has waited too long.         *)
Quiet ==
    /\ now < MaxTime
    /\ now' = now + 1
    /\ waiting' = Expired(waiting, now + 1)
    /\ joined' = {}
    /\ UNCHANGED <<made, number, sending, story>>

Next ==
    \/ \E sender \in Senders : Make(sender) \/ Hear(sender) \/ Lose(sender)
    \/ Quiet

Spec == Init /\ [][Next]_vars

-----------------------------------------------------------------------------
Pieces == [of : Senders \X (1 .. MaxMade), number : 1 .. Numbers, index : 0 .. MaxFragments - 1,
           last : 0 .. MaxFragments - 1, bytes : 1 .. Full]

(* The receiver holds so many incomplete datagrams, one for a number and a *)
(* last piece, and none older than it waits for.                           *)
TypeOK ==
    /\ now \in 0 .. MaxTime
    /\ made \in [Senders -> 0 .. MaxMade] /\ number \in [Senders -> 0 .. Numbers]
    /\ \A s \in Senders : sending[s] \in Seq(Pieces)
    /\ joined \subseteq Pieces
    /\ Cardinality(waiting) <= Keep
    /\ \A p \in waiting : /\ p.pieces \subseteq Pieces /\ now - p.first <= Timeout
                          /\ \A q \in waiting : p.key = q.key => p = q

(* Every piece is a full frame or leaves room to state its length, and     *)
(* together they are the datagram.                                         *)
PiecesFit ==
    \A s \in Senders : \A i \in DOMAIN sending[s] :
        sending[s][i].bytes = Full \/ sending[s][i].bytes <= Full - Partial

(* What is handed on is whole, and of one datagram as far as one sender's  *)
(* numbering goes: its numbers come round again, but never to pieces of an *)
(* earlier round.  Pieces of two senders that share a number are joined.   *)
JoinedIsOne ==
    /\ {p.index : p \in joined} = 0 .. (Cardinality(joined) - 1)
    /\ \A p, q \in joined : p.last = Cardinality(joined) - 1
                            /\ (p.of[1] = q.of[1] => p.of = q.of)

(* A datagram of which every piece was heard in time is handed on with the *)
(* last of them, if no other sender's met it and not too many others were  *)
(* begun meanwhile.                                                        *)
HeardIsJoined ==
    [][\A s \in {x \in Senders : sending[x] # <<>>} :
          LET told == story'[s]
              piece == Head(sending[s])
          IN  /\ told # story[s] /\ told.heard = 0 .. piece.last
              /\ ~told.late /\ ~told.met /\ told.begun < Keep
              => joined' = {p \in joined' : p.of = piece.of} /\ joined' # {}]_vars
=============================================================================
