----------------------------- MODULE DataTransfer -----------------------------
(***************************************************************************)
(* One direction of a session's data: the blocks one station sends and the *)
(* other acknowledges (core/aether-link/src/granted.rs, sending and        *)
(* receiving data; frames.rs, sequence numbers).                           *)
(*                                                                         *)
(* The host's bytes are units numbered from 1.  A block is a run of units; *)
(* it keeps its sequence number while it is sent again whole, re-encoded   *)
(* at a slower mode, or in pieces.  Which frames decode, when the other    *)
(* station answers and what the rate controller chooses are any; the times *)
(* are SlotTiming's.  Frames and answers are read in the order they went,  *)
(* or not at all.                                                          *)
(***************************************************************************)
EXTENDS Integers, Sequences, FiniteSets

CONSTANTS
  Window,          \* WINDOW: blocks that may be unacknowledged
  SeqMod,          \* SEQ_MOD: how many sequence numbers there are
  MaxMode,         \* modes are 0 .. MaxMode, the slowest first
  FloorModes,      \* so many of them are of the tone floor
  Capacity,        \* [Modes -> Nat]: units one frame carries whole
  PieceRoom,       \* [Modes -> Nat]: units one frame carries of a piece
  MaxFrames,       \* data frames in one transmission
  MaxRetries,      \* silent slots in a row before the session ends
  SenderIsMaster,  \* whether the master or the slave sends this direction
  MaxUnits,        \* units the host hands over, in all
  MaxAir,          \* data frames on their way at once
  MaxAcks          \* control frames on their way at once

Modes == 0 .. MaxMode
Seqs == 0 .. (SeqMod - 1)
None == -1

ASSUME SequenceAssumption ==
  /\ Window \in Nat \ {0} /\ SeqMod \in Nat
  /\ 2 * Window <= SeqMod
  /\ MaxFrames \in Nat \ {0} /\ MaxRetries \in Nat

ASSUME ModeAssumption ==
  /\ MaxMode \in Nat /\ FloorModes \in Nat
  /\ Capacity \in [Modes -> Nat \ {0}]
  /\ PieceRoom \in [Modes -> Nat \ {0}]

ASSUME BoundAssumption ==
  /\ SenderIsMaster \in SUBSET BOOLEAN
  /\ MaxUnits \in Nat /\ MaxAir \in Nat /\ MaxAcks \in Nat

VARIABLES
  host,      \* units the host has handed over so far
  sender,    \* [master, queue, txBase, txNext, records, silent, slot, up]
  receiver,  \* [rxBase, rxBuf, pieces, maxSeen, owed, delivered]
  air,       \* data frames radiated and not yet heard or lost, in order
  acks       \* acknowledgements radiated and not yet read or lost, in order

vars == <<host, sender, receiver, air, acks>>

-----------------------------------------------------------------------------
\* Sequence numbers and acknowledgements.

SeqAfter(s, n) == (s + n) % SeqMod

SeqDistance(s, base) == (s - base) % SeqMod

\* Mutant: one sequence number too many in the window.
InWindowClosed(s, base) == SeqDistance(s, base) <= Window

InWindow(s, base) == SeqDistance(s, base) < Window

Received(ack, s) ==
  LET distance == SeqDistance(s, ack.base)
  IN  IF distance >= Window THEN distance >= SeqMod \div 2 ELSE distance \in ack.bits

\* f without the keys in S.
Without(f, S) == [s \in DOMAIN f \ S |-> f[s]]
With(f, s, v) == [x \in DOMAIN f \cup {s} |-> IF x = s THEN v ELSE f[x]]

NoSlot == [on |-> FALSE, data |-> FALSE, heard |-> FALSE]
Empty == [q \in {} |-> 0]
NoPieces == [have |-> Empty, total |-> None]

SmallerOf(a, b) == IF a <= b THEN a ELSE b

\* The elements of S, by rising rank.
InOrder(S, rank) ==
  CHOOSE seq \in [1 .. Cardinality(S) -> S] :
    \A i, j \in DOMAIN seq : i < j => rank[seq[i]] < rank[seq[j]]

-----------------------------------------------------------------------------
\* The sender.

IsFloor(mode) == mode < FloorModes

\* A block of len units as the pieces a frame of this mode holds.
Pieces(len, mode) ==
  LET room == PieceRoom[mode]
      count == (len + room - 1) \div room
  IN  [k \in 1 .. count |->
         [offset |-> (k - 1) * room,
          len |-> SmallerOf(room, len - (k - 1) * room),
          last |-> k = count]]

Unacked(s) == {q \in DOMAIN s.records : ~s.records[q].acked}

\* Not resent blind: it waits for an answer, through one silent slot.
Held(s, q) == s.records[q].unknown /\ s.silent < 2

\* A stuck block at a slower mode: whole if it fits, in pieces if not.
Slower(rec, mode) ==
  IF Capacity[mode] >= rec.len
  THEN [rec EXCEPT !.mode = mode, !.parts = <<>>, !.gone = {}]
  ELSE [rec EXCEPT !.mode = mode, !.parts = Pieces(rec.len, mode), !.gone = {}]

\* A block whole is one frame.
WholeFrame(rec, q) ==
  [seq |-> q, at |-> rec.at, len |-> rec.len, offset |-> 0, piece |-> FALSE, last |-> TRUE]
PieceFrame(rec, q, part) ==
  [seq |-> q, at |-> rec.at + part.offset, len |-> part.len, offset |-> part.offset,
   piece |-> TRUE, last |-> part.last]

\* The pieces of a block that go next: those that have gone least often, in
\* order, as many as there is room for.
NextParts(rec, room) ==
  LET due == InOrder((1 .. Len(rec.parts)) \ rec.gone, [k \in 1 .. Len(rec.parts) |-> k])
  IN  SubSeq(due, 1, SmallerOf(room, Len(due)))

SentParts(rec, ks) ==
  LET gone == rec.gone \cup {ks[i] : i \in 1 .. Len(ks)}
  IN  [rec EXCEPT !.gone = IF gone = 1 .. Len(rec.parts) THEN {} ELSE gone]

\* piece_frames: the blocks in pieces, in order; [left, records, frames].
PieceFrames(records, seqs, room) ==
  LET go[n \in 0 .. Len(seqs)] ==
        IF n = 0 THEN [left |-> room, records |-> records, frames |-> <<>>]
        ELSE LET was == go[n - 1]
                 rec == records[seqs[n]]
                 ks == NextParts(rec, was.left)
             IN  [left |-> was.left - Len(ks),
                  records |-> [was.records EXCEPT ![seqs[n]] = SentParts(rec, ks)],
                  frames |-> was.frames \o
                    [i \in 1 .. Len(ks) |-> PieceFrame(rec, seqs[n], rec.parts[ks[i]])]]
  IN  go[Len(seqs)]

\* Mutant: the window counted to its end and not in blocks.
OpenPast(s) == Window - SeqDistance(s.txNext, s.txBase) + 1

\* How many more blocks may be unacknowledged.
Open(s) == Window - SeqDistance(s.txNext, s.txBase)

\* New blocks of the host's units, cut to what a frame of the mode carries,
\* while there is room and the window is open.
Cut(s, mode, room) ==
  LET cap == Capacity[mode]
      n == SmallerOf(SmallerOf(room, Open(s)), (s.queue + cap - 1) \div cap)
      at == host - s.queue
      new == [i \in 1 .. n |->
                [at |-> at + (i - 1) * cap + 1,
                 len |-> SmallerOf(cap, s.queue - (i - 1) * cap), mode |-> mode,
                 acked |-> FALSE, unknown |-> FALSE, parts |-> <<>>, gone |-> {}]]
      seq == [i \in 1 .. n |-> SeqAfter(s.txNext, i - 1)]
  IN  [seqs |-> seq,
       sender |-> [s EXCEPT
         !.queue = IF s.queue > n * cap THEN s.queue - n * cap ELSE 0,
         !.txNext = SeqAfter(s.txNext, n),
         !.records = [q \in DOMAIN s.records \cup {seq[i] : i \in 1 .. n} |->
                        IF \E i \in 1 .. n : q = seq[i]
                        THEN new[CHOOSE i \in 1 .. n : q = seq[i]]
                        ELSE s.records[q]]]]

CanCut(s) == s.queue > 0 /\ Open(s) > 0

Ready(s) == {q \in Unacked(s) : ~Held(s, q)}

\* Of the blocks in the window, these in the order they were cut.
Blocks(s, S) == InOrder(S, [q \in S |-> SeqDistance(q, s.txBase)])

\* What the rate controller may take down to a mode: what goes again now, at a
\* faster one.
Stuck(s, target) == {q \in Ready(s) : s.records[q].mode > target}

\* data_frames: [sender, frames].  The rate controller chose the mode of new
\* data, the blocks that come down and to which mode, and whether a try across
\* the floor's edge takes the transmission.
DataFrames(s0, mode, down, target, across, room) ==
  LET s == [s0 EXCEPT !.records =
              [q \in DOMAIN s0.records |->
                 IF q \in down THEN Slower(s0.records[q], target) ELSE s0.records[q]]]
      ready == Ready(s)
      floor == IF ready # {} /\ ~across THEN IsFloor(s.records[Blocks(s, ready)[1]].mode)
               ELSE IsFloor(mode)
      going == {q \in ready : IsFloor(s.records[q].mode) = floor}
      seqs == Blocks(s, going)
      split == Blocks(s, {q \in going : s.records[q].parts # <<>>})
      again == SubSeq(seqs, 1, SmallerOf(room, Len(seqs)))
      cut == IF floor = IsFloor(mode) THEN Cut(s, mode, room - Len(again))
             ELSE [seqs |-> <<>>, sender |-> s]
      whole == again \o cut.seqs
      pieces == PieceFrames(s.records, split, room)
  IN  IF split # <<>>
      THEN [sender |-> [s EXCEPT !.records = pieces.records], frames |-> pieces.frames]
      ELSE [sender |-> cut.sender,
            frames |-> [i \in 1 .. Len(whole) |->
                          WholeFrame(cut.sender.records[whole[i]], whole[i])]]

\* Mutant: only a block the answer acknowledges is no longer unknown.
AnsweredIfAcked(rec, got) ==
  [rec EXCEPT !.unknown = @ /\ ~got, !.acked = @ \/ got]

\* An answer says what arrived: no block is unknown after it.
Answered(rec, got) == [rec EXCEPT !.unknown = FALSE, !.acked = @ \/ got]

\* take_ack: what it acknowledges, then the base past everything acknowledged.
TakeAck(s, ack) ==
  LET records == [q \in DOMAIN s.records |->
                    Answered(s.records[q], Received(ack, q))]
      flight == SeqDistance(s.txNext, s.txBase)
      n == CHOOSE n \in 0 .. flight :
             /\ \A i \in 0 .. (n - 1) : records[SeqAfter(s.txBase, i)].acked
             /\ n < flight => ~records[SeqAfter(s.txBase, n)].acked
  IN  [s EXCEPT !.txBase = SeqAfter(s.txBase, n),
                !.records = Without(records, {SeqAfter(s.txBase, i) : i \in 0 .. (n - 1)})]

\* close_slot, of the slot a master's transmission granted.
CloseSlot(s) ==
  LET silent == IF s.slot.heard THEN 0 ELSE s.silent + 1
      hold == ~s.slot.heard /\ s.slot.data
  IN  [s EXCEPT !.silent = silent,
                !.slot = NoSlot,
                !.up = silent <= MaxRetries,
                !.records = [q \in DOMAIN s.records |->
                               [s.records[q] EXCEPT
                                  !.unknown = @ \/ (hold /\ ~s.records[q].acked)]]]

-----------------------------------------------------------------------------
\* The receiver.

Units(f) == [o \in f.offset .. (f.offset + f.len - 1) |-> f.at + (o - f.offset)]

\* Mutant: a last piece ends its block, whatever was missed before it.
WholeAtLast(held) == held.total # None

WholeOf(held) ==
  held.total # None /\ \A o \in 0 .. (held.total - 1) : o \in DOMAIN held.have

\* Mutant: the last piece's length taken for the block's.
PlaceShort(held, f) ==
  [have |-> [o \in DOMAIN held.have \cup DOMAIN Units(f) |->
               IF o \in DOMAIN Units(f) THEN Units(f)[o] ELSE held.have[o]],
   total |-> IF f.last THEN f.len ELSE held.total]

Place(held, f) ==
  [have |-> [o \in DOMAIN held.have \cup DOMAIN Units(f) |->
               IF o \in DOMAIN Units(f) THEN Units(f)[o] ELSE held.have[o]],
   total |-> IF f.last THEN f.offset + f.len ELSE held.total]

Body(held) ==
  [i \in 1 .. held.total |-> IF i - 1 \in DOMAIN held.have THEN held.have[i - 1] ELSE 0]

\* The blocks in order from the base, handed to the host.
HandOver(r) ==
  LET n == CHOOSE n \in 0 .. Window :
             /\ \A i \in 0 .. (n - 1) : SeqAfter(r.rxBase, i) \in DOMAIN r.rxBuf
             /\ n < Window => SeqAfter(r.rxBase, n) \notin DOMAIN r.rxBuf
      bytes[k \in 0 .. n] ==
        IF k = 0 THEN <<>> ELSE bytes[k - 1] \o r.rxBuf[SeqAfter(r.rxBase, k - 1)]
      done == {SeqAfter(r.rxBase, i) : i \in 0 .. (n - 1)}
      base == SeqAfter(r.rxBase, n)
  IN  [r EXCEPT !.rxBase = base,
                !.rxBuf = Without(r.rxBuf, done),
                !.pieces = Without(r.pieces, done),
                !.delivered = r.delivered \o bytes[n],
                !.maxSeen = IF @ # None /\ SeqDistance(@, base) >= Window THEN None ELSE @]

\* accept: a decoded data frame of this session.
Accept(r, f) ==
  LET seen == IF r.maxSeen = None
                 \/ SeqDistance(f.seq, r.rxBase) > SeqDistance(r.maxSeen, r.rxBase)
              THEN f.seq ELSE r.maxSeen
      held == Place(IF f.seq \in DOMAIN r.pieces THEN r.pieces[f.seq] ELSE NoPieces, f)
      known == f.seq \in DOMAIN r.rxBuf
      whole == ~f.piece \/ known \/ WholeOf(held)
      body == IF f.piece THEN Body(held) ELSE [i \in 1 .. f.len |-> f.at + i - 1]
      next == [r EXCEPT !.maxSeen = seen]
  IN  IF ~InWindow(f.seq, r.rxBase) THEN r
      ELSE HandOver(
             IF whole
             THEN [next EXCEPT !.rxBuf = IF known THEN @ ELSE With(@, f.seq, body),
                               !.pieces = Without(@, {f.seq})]
             ELSE [next EXCEPT !.pieces = With(@, f.seq, held)])

\* Mutant: the bitmap begins past the base.
AckFieldsPastBase(r) ==
  [base |-> r.rxBase,
   bits |-> {i \in 0 .. (Window - 1) : SeqAfter(r.rxBase, i + 1) \in DOMAIN r.rxBuf}]

\* receive_window, as an acknowledgement says it.
AckFields(r) ==
  [base |-> r.rxBase,
   bits |-> {i \in 0 .. (Window - 1) : SeqAfter(r.rxBase, i) \in DOMAIN r.rxBuf}]

-----------------------------------------------------------------------------
Init ==
  /\ host = 0
  /\ \E master \in SenderIsMaster :
       sender = [master |-> master, queue |-> 0, txBase |-> 0, txNext |-> 0,
                 records |-> Empty, silent |-> 0, slot |-> NoSlot, up |-> TRUE]
  /\ receiver = [rxBase |-> 0, rxBuf |-> Empty, pieces |-> Empty,
                 maxSeen |-> None, owed |-> FALSE, delivered |-> <<>>]
  /\ air = <<>>
  /\ acks = <<>>

Host ==
  /\ host < MaxUnits
  /\ host' = host + 1
  /\ sender' = [sender EXCEPT !.queue = @ + 1]
  /\ UNCHANGED <<receiver, air, acks>>

\* The sender's transmission of at most so many data frames; a master's grants
\* a slot.
TransmitUpTo(room) ==
  /\ sender.up
  /\ ~sender.slot.on
  /\ \E mode \in Modes, target \in Modes, across \in BOOLEAN :
       \E down \in SUBSET Stuck(sender, target) :
       /\ down = {} => target = 0
       /\ across => CanCut(sender)
       /\ \E out \in {DataFrames(sender, mode, down, target, across, room)} :
            /\ Len(air) + Len(out.frames) <= MaxAir
            /\ air' = air \o out.frames
            /\ sender' = [out.sender EXCEPT
                 !.slot = IF sender.master
                          THEN [on |-> TRUE, data |-> out.frames # <<>>, heard |-> FALSE]
                          ELSE NoSlot]
  /\ UNCHANGED <<host, receiver, acks>>

Transmit == \E room \in 0 .. MaxFrames : TransmitUpTo(room)

\* Mutant: an acknowledgement owed only for what is new.
OwesIfNew(r, f, late) == r.owed \/ (~late /\ InWindow(f.seq, r.rxBase))

\* A master receiver owes an acknowledgement for any frame it decodes in the
\* slot, one it had before too: its next header is not elided.
Owes(r, f, late) == r.owed \/ ~late

\* The next frame decodes, in its slot or after it.
Hear(late) ==
  /\ sender.up
  /\ air # <<>>
  /\ LET f == Head(air)
     IN  receiver' = [Accept(receiver, f) EXCEPT
                        !.owed = Owes(receiver, f, late)]
  /\ air' = Tail(air)
  /\ UNCHANGED <<host, sender, acks>>

Lose ==
  /\ air # <<>>
  /\ air' = Tail(air)
  /\ UNCHANGED <<host, sender, receiver, acks>>

\* A slave answers in the slot; a master's header may be elided when it owes
\* no acknowledgement.
Acknowledge ==
  /\ sender.up
  /\ Len(acks) < MaxAcks
  /\ IF sender.master THEN sender.slot.on ELSE TRUE
  /\ acks' = Append(acks, AckFields(receiver))
  /\ receiver' = [receiver EXCEPT !.owed = FALSE]
  /\ UNCHANGED <<host, sender, air>>

ReadAck ==
  /\ sender.up
  /\ acks # <<>>
  /\ sender.master => sender.slot.on
  /\ sender' = LET s == TakeAck(sender, Head(acks))
               IN  IF sender.master THEN [s EXCEPT !.slot.heard = TRUE] ELSE s
  /\ acks' = Tail(acks)
  /\ UNCHANGED <<host, receiver, air>>

\* An acknowledgement does not decode; data that came with it may have.
LoseAck ==
  /\ acks # <<>>
  /\ acks' = Tail(acks)
  /\ \E heard \in BOOLEAN :
       sender' = IF heard /\ sender.slot.on THEN [sender EXCEPT !.slot.heard = TRUE] ELSE sender
  /\ UNCHANGED <<host, receiver, air>>

\* The slot closes: a frame of it decoded later is of no slot.
Close ==
  /\ sender.up
  /\ sender.slot.on
  /\ sender' = CloseSlot(sender)
  /\ acks' = <<>>
  /\ UNCHANGED <<host, receiver, air>>

Next ==
  \/ Host
  \/ Transmit
  \/ Hear(FALSE)
  \/ Hear(TRUE)
  \/ Lose
  \/ Acknowledge
  \/ ReadAck
  \/ LoseAck
  \/ Close

Spec == Init /\ [][Next]_vars

\* Whether a frame carries anything the receiver has not got.
News(r, f) ==
  /\ InWindow(f.seq, r.rxBase)
  /\ f.seq \notin DOMAIN r.rxBuf
  /\ f.piece /\ f.seq \in DOMAIN r.pieces => f.offset \notin DOMAIN r.pieces[f.seq].have

\* A transmission with data in it (what it needs is said first: it is tried
\* only where there is something to send).
TransmitData ==
  /\ sender.up /\ ~sender.slot.on
  /\ Len(air) < MaxAir
  /\ Ready(sender) # {} \/ CanCut(sender)
  /\ \E room \in 1 .. MaxFrames : TransmitUpTo(room)
  /\ air' # air

\* The scheduler and the air: a master keeps transmitting and its slots close,
\* frames go again, a frame that goes again and again decodes in the end, an
\* owed answer is given and read in the end.
FairSpec ==
  /\ Spec
  /\ WF_vars(sender.master /\ Transmit) /\ WF_vars(Close)
  /\ SF_vars(TransmitData)
  /\ SF_vars(Hear(FALSE))
  /\ SF_vars(Hear(FALSE) /\ News(receiver, Head(air)))
  /\ WF_vars(Lose)
  /\ SF_vars(Acknowledge /\ (sender.master \/ receiver.owed))
  /\ SF_vars(ReadAck)

-----------------------------------------------------------------------------
Bodies == UNION {[1 .. n -> 1 .. MaxUnits] : n \in 0 .. MaxUnits}

\* The states of both ends: what is recorded, buffered, held in pieces and on
\* the air lies in the window and in the stream.
TypeOK ==
  /\ host \in 0 .. MaxUnits
  /\ sender.queue \in 0 .. host
  /\ sender.txBase \in Seqs /\ sender.txNext \in Seqs
  /\ SeqDistance(sender.txNext, sender.txBase) <= Window
  /\ DOMAIN sender.records =
       {SeqAfter(sender.txBase, i) : i \in 0 .. (SeqDistance(sender.txNext, sender.txBase) - 1)}
  /\ \A q \in DOMAIN sender.records :
       LET rec == sender.records[q]
       IN  /\ rec.mode \in Modes /\ rec.len \in 1 .. MaxUnits
           /\ rec.at + rec.len - 1 \in 1 .. host
           /\ rec.gone \in SUBSET (1 .. Len(rec.parts))
           /\ rec.parts = <<>> => rec.len <= Capacity[rec.mode]
  /\ receiver.rxBase \in Seqs /\ receiver.maxSeen \in Seqs \cup {None}
  /\ receiver.delivered \in Bodies
  /\ \A q \in DOMAIN receiver.rxBuf \cup DOMAIN receiver.pieces :
       q \in Seqs /\ InWindow(q, receiver.rxBase)
  /\ \A i \in 1 .. Len(air) : air[i].at + air[i].len - 1 \in 1 .. host
  /\ \A i \in 1 .. Len(acks) : acks[i].base \in Seqs /\ acks[i].bits \subseteq 1 .. (Window - 1)

\* The first unit the sender still holds a record of, or has not cut.
FirstKept ==
  IF sender.txBase = sender.txNext THEN host - sender.queue + 1
  ELSE sender.records[sender.txBase].at

\* Nothing is acknowledged that did not arrive: what the sender has let go is
\* delivered, what it holds as acknowledged is with the receiver.
AckedIsReceived ==
  /\ FirstKept <= Len(receiver.delivered) + 1
  /\ \A q \in DOMAIN sender.records :
       sender.records[q].acked =>
         \/ sender.records[q].at <= Len(receiver.delivered)
         \/ q \in DOMAIN receiver.rxBuf

\* The pieces held under a sequence number are of the block the sender has
\* under it now, wherever its splits put their boundaries.
PiecesAreOfTheBlock ==
  \A q \in DOMAIN receiver.pieces :
    LET held == receiver.pieces[q]
    IN  /\ q \in DOMAIN sender.records /\ ~sender.records[q].acked
        /\ \A o \in DOMAIN held.have : held.have[o] = sender.records[q].at + o
        /\ held.total \in {None, sender.records[q].len}

\* Both hosts see a byte stream.
Stream == INSTANCE ByteStream WITH
  Data <- 1 .. MaxUnits,
  sent <- [i \in 1 .. host |-> i],
  delivered <- receiver.delivered

StreamSpec == Stream!Spec

\* Everything handed over is delivered and acknowledged, unless the session
\* ends for want of answers.
AllDelivered ==
  <>[](\/ ~sender.up
       \/ /\ receiver.delivered = [i \in 1 .. host |-> i]
          /\ sender.queue = 0
          /\ sender.txBase = sender.txNext)
=============================================================================
