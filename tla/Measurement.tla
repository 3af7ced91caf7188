------------------------------ MODULE Measurement ------------------------------
(***************************************************************************)
(* The ladder of a Test: measurement frames, their reports, and what a     *)
(* receiver holds to combine (core/aether-link/src/granted.rs, measure,    *)
(* take_ack, take_data and measurement_heard).                             *)
(*                                                                         *)
(* The master measures, as the daemon's Test does (fieldtest.rs): frames   *)
(* of filler that are counted and never sent again, in a transmission of   *)
(* their own, reported in the bitmap of the slave's acknowledgements.      *)
(* Transmissions are numbered in the order the master keys them; their     *)
(* frames are read in order, at any time, or not at all.  When the slave   *)
(* answers is any time in the slot; SlotTiming has the times.  The master  *)
(* opens no window while it measures or has data (grant_size); none here.  *)
(***************************************************************************)
EXTENDS Integers, Sequences, FiniteSets

CONSTANTS
  MaxFrames,    \* data frames in one transmission, and of one measurement
  MaxFollows,   \* MAX_FOLLOWS: a count of frames to follow that means so many or more
  MaxRetries,   \* silent slots in a row before the session ends
  MaxAsks,      \* measurements the Test asks for
  MaxBlocks,    \* blocks of data the host hands over
  MaxTx         \* transmissions of the master's

ASSUME MeasurementAssumption ==
  /\ MaxFrames \in Nat \ {0} /\ MaxFollows \in Nat \ {0} /\ MaxRetries \in Nat
  /\ MaxAsks \in Nat /\ MaxBlocks \in Nat /\ MaxTx \in Nat

Blocks == 0 .. (MaxBlocks - 1)
Index == 0 .. (MaxFrames - 1)
\* What a buffer combines: data, a measurement's codeword with whatever came
\* before it, or data on top of one.
Buffers == {"data", "measure", "mixed"}

VARIABLES
  master,   \* [ask, out, again, unheard, slot, silent, up, asks, queue, next, unacked]
  slave,    \* [measured: none or one report; of, anchor, answered, got, harq]
  air,      \* frames radiated by the master and not yet read or lost, in order
  answer,   \* the slave's answer on its way, if any
  ladder,   \* what was recorded, each rung with what the slave decoded of it
  heard     \* of the last measurement radiated: [tx, got, joined]

vars == <<master, slave, air, answer, ladder, heard>>

NoSlot == [on |-> FALSE, tx |-> 0, heard |-> FALSE]
NoBuffer == [b \in {} |-> "data"]
Least(a, b) == IF a <= b THEN a ELSE b

-----------------------------------------------------------------------------
\* The master.

Measuring(m) == m.ask > 0 \/ m.out > 0

\* Mutant: asked for again, and still out.
AskAgainOut(m) ==
  IF m.out > 0 /\ m.ask = 0 THEN [m EXCEPT !.ask = m.out, !.unheard = FALSE] ELSE m

\* ask_again: a measurement that did not reach the slave is asked for again.
AskAgain(m) ==
  IF m.out > 0 /\ m.ask = 0
  THEN [m EXCEPT !.ask = m.out, !.out = 0, !.unheard = FALSE]
  ELSE m

\* A rung as the ladder records it, with what the slave decoded of it.
Rung(sent, counted, snr) ==
  [sent |-> sent, counted |-> counted, snr |-> snr,
   heard |-> heard.got, joined |-> heard.joined]

\* Mutant: a silent slot is polled, and the next report taken for this one's.
UnheardPolled(m) == [master |-> [m EXCEPT !.unheard = TRUE], rungs |-> <<>>]

\* measurement_unheard: once more, then recorded with nothing decoded.
Unheard(m) ==
  CASE m.out = 0 -> [master |-> m, rungs |-> <<>>]
    [] m.out > 0 /\ ~m.again -> [master |-> AskAgain([m EXCEPT !.again = TRUE]), rungs |-> <<>>]
    [] OTHER -> [master |-> [m EXCEPT !.out = 0, !.again = FALSE, !.unheard = FALSE],
                 rungs |-> <<Rung(m.out, {}, FALSE)>>]

\* Mutant: the bits of a report read as an acknowledgement.
ReceivedAnyBit(ack, b) ==
  \/ b < ack.base
  \/ b - ack.base - 1 \in UNION ack.report
  \/ b \in ack.bits

\* A report acknowledges nothing at or above its base.
Received(ack, b) == b < ack.base \/ (ack.report = {} /\ b \in ack.bits)

\* take_ack, of an answer read in its slot.
TakeAck(m, ack) ==
  LET acked == [m EXCEPT !.unacked = {b \in @ : ~Received(ack, b)}]
  IN  CASE m.out = 0 -> [master |-> acked, rungs |-> <<>>]
        [] m.out > 0 /\ ack.report = {} ->
             [master |-> [acked EXCEPT !.unheard = TRUE], rungs |-> <<>>]
        [] OTHER ->
             [master |-> [acked EXCEPT !.out = 0, !.unheard = FALSE, !.again = FALSE],
              rungs |-> <<Rung(m.out, (UNION ack.report) \cap (0 .. (m.out - 1)), ~m.unheard)>>]

-----------------------------------------------------------------------------
\* The slave.

Base(s) == CHOOSE b \in 0 .. MaxBlocks :
             /\ \A c \in 0 .. (b - 1) : c \in s.got
             /\ b \notin s.got

\* receive_window with the report, as ack_fields says it.
AckFields(s) ==
  [base |-> Base(s), bits |-> {b \in s.got : b > Base(s)},
   report |-> s.measured]

\* Whether a frame is of a transmission this station may still answer.
Placed(s, f, decoded) ==
  /\ f.tx > s.answered
  /\ s.anchor # 0 /\ f.tx > s.anchor /\ s.answered # s.anchor => decoded

\* next_transmission: known to have begun once the last one's end is known.
Begin(s, f) ==
  IF s.anchor # 0 /\ f.tx > s.anchor THEN [s EXCEPT !.anchor = 0, !.of = 0] ELSE s

\* Mutant: the buffers to combine outlive the news of a measurement.
MeasurementHeardKept(s, f, new) ==
  IF s.of # 0 THEN s
  ELSE [s EXCEPT !.of = IF new THEN f.tx ELSE 0,
                 !.measured = IF new \/ @ = {} THEN {{}} ELSE @]

\* measurement_heard: the report begins anew, and what is held to combine goes.
MeasurementHeard(s, f, new) ==
  IF s.of # 0 THEN s
  ELSE [s EXCEPT !.of = IF new THEN f.tx ELSE 0,
                 !.measured = IF new \/ @ = {} THEN {{}} ELSE @,
                 !.harq = NoBuffer]

\* slave_control with note_opening.
TakeHeader(s, f) ==
  LET b == Begin(s, f)
      noted == IF f.measure THEN MeasurementHeard(b, f, f.count > 0)
               ELSE IF f.count > 0 THEN [b EXCEPT !.measured = {}]
               ELSE b
  IN  [noted EXCEPT !.anchor = f.tx]

Kept(s, b) ==
  LET t == [s EXCEPT !.got = @ \cup {b}]
  IN  [t EXCEPT !.harq = [g \in {h \in DOMAIN s.harq : h # b /\ h >= Base(t)} |-> s.harq[g]]]

\* accept: late, of a transmission answered or passed over already.
Accept(s, f, late) ==
  CASE f.kind = "measure" /\ late -> s
    [] f.kind = "measure" /\ ~late ->
         [MeasurementHeard(s, f, TRUE) EXCEPT !.measured = {(UNION @) \cup {f.index}}]
    [] OTHER -> Kept(IF late THEN s ELSE [s EXCEPT !.measured = {}], f.index)

\* A frame's own count places the end of a transmission whose header was not
\* read, unless it was rescued or its count means so many or more.
Anchored(s, f, rescued) ==
  IF s.anchor = 0 /\ ~rescued /\ f.follows < MaxFollows
  THEN [s EXCEPT !.anchor = f.tx] ELSE s

Guesses(s) == Base(s) .. (Base(s) + MaxFrames - 1)

On(buffer, kind) ==
  CASE buffer = "data" -> kind
    [] buffer = "measure" /\ kind = "data" -> "mixed"
    [] OTHER -> buffer

\* A frame that does not decode goes to the buffer of the block it is guessed to
\* be, unless the transmission is known for a measurement; a buffer full or of
\* another mode starts over.
Combined(s, f, guess, over) ==
  IF s.of # 0 THEN s
  ELSE [s EXCEPT !.harq =
         [g \in DOMAIN s.harq \cup {guess} |->
            IF g # guess THEN s.harq[g]
            ELSE IF guess \in DOMAIN s.harq /\ ~over THEN On(s.harq[g], f.kind)
            ELSE f.kind]]

\* restart_rx, of a transmission answered or forfeited.
Answered(s) == [s EXCEPT !.answered = s.anchor, !.of = 0]

-----------------------------------------------------------------------------
Init ==
  /\ master = [ask |-> 0, out |-> 0, again |-> FALSE, unheard |-> FALSE, slot |-> NoSlot,
               silent |-> 0, up |-> TRUE, asks |-> 0, queue |-> 0, next |-> 0,
               unacked |-> {}, tx |-> 0]
  /\ slave = [measured |-> {}, of |-> 0, anchor |-> 0, answered |-> 0, got |-> {},
              harq |-> NoBuffer]
  /\ air = <<>> /\ answer = <<>> /\ ladder = <<>>
  /\ heard = [tx |-> 0, got |-> {}, joined |-> FALSE]

\* The Test asks for the next rung once it has the last one's.
Measure ==
  /\ master.up /\ ~Measuring(master) /\ master.asks < MaxAsks
  /\ \E n \in 1 .. MaxFrames :
       master' = [master EXCEPT !.ask = n, !.again = FALSE, !.asks = @ + 1]
  /\ UNCHANGED <<slave, air, answer, ladder, heard>>

Send ==
  /\ master.up /\ master.queue + master.next < MaxBlocks
  /\ master' = [master EXCEPT !.queue = @ + 1]
  /\ UNCHANGED <<slave, air, answer, ladder, heard>>

\* The frames of a transmission, in order, each with how many follow it.
Frames(tx, kind, indices) ==
  [i \in 1 .. Len(indices) |->
     [tx |-> tx, kind |-> kind, index |-> indices[i], measure |-> FALSE, count |-> 0,
      follows |-> Least(Len(indices) - i, MaxFollows)]]

Header(tx, measure, count) ==
  [tx |-> tx, kind |-> "header", index |-> 0, measure |-> measure, count |-> count, follows |-> 0]

\* New blocks are numbered on from the last.
Cut(m, n) == m.next .. (m.next + n - 1)

\* The blocks one transmission may carry, in their order.
Runs == {q \in UNION {[1 .. n -> Blocks] : n \in 0 .. MaxFrames} :
           \A i, j \in DOMAIN q : i < j => q[i] < q[j]}

\* What is unacknowledged, as much of it as any, and so many new blocks.
Carried(m) ==
  {c \in [blocks : Runs, new : 0 .. MaxFrames] :
     /\ c.new <= IF m.ask > 0 THEN 0 ELSE m.queue
     /\ \A i \in DOMAIN c.blocks : c.blocks[i] \in m.unacked \cup Cut(m, c.new)
     /\ \A b \in Cut(m, c.new) : \E i \in DOMAIN c.blocks : c.blocks[i] = b}

\* data_frames: a measurement alone, once nothing is unacknowledged; nothing while
\* one waits for its report; else what is unacknowledged, and new data unless a
\* measurement is asked for.  How much there is room for, and what is held, is any.
Choose(m, tx) ==
  IF m.out > 0 THEN {[master |-> m, frames |-> <<>>]}
  ELSE IF m.ask > 0 /\ m.unacked = {}
  THEN {[master |-> m, frames |-> <<>>]} \cup
       {[master |-> [m EXCEPT !.ask = 0, !.out = n, !.unheard = FALSE],
         frames |-> Frames(tx, "measure", [i \in 1 .. n |-> i - 1])] : n \in 1 .. m.ask}
  ELSE {[master |-> [m EXCEPT !.queue = @ - c.new, !.next = @ + c.new,
                              !.unacked = @ \cup Cut(m, c.new)],
         frames |-> Frames(tx, "data", c.blocks)] : c \in Carried(m)}

\* send_header, and what the driver makes of it: it is dropped, cut before its
\* header can be read, or radiates, whole or cut after some of its frames.
Transmit ==
  /\ master.up /\ ~master.slot.on /\ master.tx < MaxTx
  /\ LET tx == master.tx + 1
     IN  \E c \in Choose(master, tx) :
           LET measuring == c.master.out > 0
               header == Header(tx, measuring, Len(c.frames))
               m == [c.master EXCEPT !.tx = tx, !.slot = [NoSlot EXCEPT !.on = TRUE, !.tx = tx]]
               carried == measuring /\ c.frames # <<>>
               stopped == IF carried THEN AskAgain(m) ELSE m
           IN  \/ master' = stopped /\ UNCHANGED <<air, heard>>
               \/ /\ master' = [stopped EXCEPT !.slot = NoSlot]
                  /\ UNCHANGED <<air, heard>>
               \/ /\ master' = m
                  /\ \E elide \in BOOLEAN, n \in 0 .. Len(c.frames) :
                       /\ elide => ~measuring /\ n > 0 /\ Len(c.frames) <= MaxFollows + 1
                       /\ air' = air \o (IF elide THEN <<>> ELSE <<header>>)
                                     \o SubSeq(c.frames, 1, n)
                  /\ heard' = IF carried THEN [tx |-> tx, got |-> {}, joined |-> FALSE]
                              ELSE heard
  /\ UNCHANGED <<slave, answer, ladder>>

\* What the slave decoded of the last measurement; joined when it took it for
\* more of one before, whose end it never knew.
Noted(f) ==
  IF f.tx # heard.tx THEN heard
  ELSE [heard EXCEPT
          !.got = IF f.kind = "measure" THEN @ \cup {f.index} ELSE @,
          !.joined = @ \/ LET b == Begin(slave, f) IN b.of # 0 /\ b.of # f.tx]

ReadHeader ==
  /\ air # <<>> /\ Head(air).kind = "header"
  /\ LET f == Head(air)
     IN  /\ slave' = IF Placed(slave, f, TRUE) THEN TakeHeader(slave, f) ELSE slave
         /\ heard' = IF Placed(slave, f, TRUE) THEN Noted(f) ELSE heard
  /\ air' = Tail(air)
  /\ UNCHANGED <<master, answer, ladder>>

\* A data frame decodes, by itself.
ReadData ==
  /\ air # <<>> /\ Head(air).kind # "header"
  /\ LET f == Head(air)
     IN  slave' = IF Placed(slave, f, TRUE)
                  THEN Anchored(Accept(Begin(slave, f), f, FALSE), f, FALSE)
                  ELSE Accept(slave, f, TRUE)
  /\ heard' = Noted(Head(air))
  /\ air' = Tail(air)
  /\ UNCHANGED <<master, answer, ladder>>

\* A data frame does not decode by itself; with the copies before it it may.
ReadFailed ==
  /\ air # <<>> /\ Head(air).kind # "header"
  /\ LET f == Head(air)
         s == Begin(slave, f)
     IN  /\ Placed(slave, f, FALSE)
         /\ \E guess \in Guesses(s), over \in BOOLEAN :
              \/ slave' = Combined(s, f, guess, over) /\ UNCHANGED heard
              \/ /\ s.of = 0 /\ guess \in DOMAIN s.harq /\ s.harq[guess] = f.kind
                 /\ slave' = Accept(s, f, FALSE)
                 /\ heard' = Noted(f)
  /\ air' = Tail(air)
  /\ UNCHANGED <<master, answer, ladder>>

Lose ==
  /\ air # <<>>
  /\ air' = Tail(air)
  /\ UNCHANGED <<master, slave, answer, ladder, heard>>

\* The slave answers the transmission it knows the end of: in the slot, or the
\* gate drops it or it forfeits.  Data of its own may follow.
Answer ==
  /\ master.up /\ slave.anchor > slave.answered
  /\ answer = <<>>
  /\ slave' = Answered(slave)
  /\ \/ /\ master.slot.on /\ master.slot.tx = slave.anchor
        /\ answer' = <<AckFields(slave)>>
     \/ UNCHANGED answer
  /\ UNCHANGED <<master, air, ladder, heard>>

\* master_control: the answer is read.
ReadAnswer ==
  /\ master.up /\ answer # <<>>
  /\ LET t == TakeAck(master, Head(answer))
     IN  /\ master' = [t.master EXCEPT !.slot.heard = TRUE]
         /\ ladder' = ladder \o t.rungs
  /\ answer' = <<>>
  /\ UNCHANGED <<slave, air, heard>>

\* It is not; data behind it may be.
LoseAnswer ==
  /\ answer # <<>>
  /\ \E data \in BOOLEAN : master' = [master EXCEPT !.slot.heard = data]
  /\ answer' = <<>>
  /\ UNCHANGED <<slave, air, ladder, heard>>

\* close_slot.
Close ==
  /\ master.up /\ master.slot.on /\ answer = <<>>
  /\ LET silent == IF master.slot.heard THEN 0 ELSE master.silent + 1
         m == [master EXCEPT !.slot = NoSlot, !.silent = silent, !.up = silent <= MaxRetries]
         u == Unheard(m)
     IN  IF master.slot.heard
         THEN master' = m /\ UNCHANGED ladder
         ELSE master' = u.master /\ ladder' = ladder \o u.rungs
  /\ UNCHANGED <<slave, air, answer, heard>>

Next ==
  \/ Measure
  \/ Send
  \/ Transmit
  \/ ReadHeader
  \/ ReadData
  \/ ReadFailed
  \/ Lose
  \/ Answer
  \/ ReadAnswer
  \/ LoseAnswer
  \/ Close

Spec == Init /\ [][Next]_vars

-----------------------------------------------------------------------------
\* The states of both ends; what was recorded was asked for.
TypeOK ==
  /\ master.ask \in 0 .. MaxFrames /\ master.out \in 0 .. MaxFrames
  /\ ~(master.ask > 0 /\ master.out > 0)
  /\ master.queue + master.next <= MaxBlocks
  /\ master.unacked \subseteq 0 .. (master.next - 1)
  /\ master.silent \in 0 .. (MaxRetries + 1)
  /\ slave.measured \in {{}} \cup {{frames} : frames \in SUBSET Index}
  /\ slave.answered <= slave.anchor \/ slave.anchor = 0
  /\ slave.anchor \in 0 .. master.tx /\ slave.of \in 0 .. master.tx
  /\ slave.got \subseteq 0 .. (master.next - 1)
  /\ \A g \in DOMAIN slave.harq : g \in Guesses(slave) /\ slave.harq[g] \in Buffers
  /\ Len(ladder) <= master.asks

\* A rung is credited with its own frames: what the report counts, the slave
\* decoded of that rung's last transmission, not of a rung before
\* (measurement_unheard).  Not so where the slave took it for more of a
\* measurement whose end it never knew.
LadderIsOwn ==
  \A i \in 1 .. Len(ladder) : ladder[i].joined \/ ladder[i].counted \subseteq ladder[i].heard

\* Data is never combined with a measurement's codeword (measurement_heard),
\* unless a measurement was given up that the slave may not know of.
CombinedIsData ==
  \A g \in DOMAIN slave.harq :
    slave.harq[g] = "mixed" => \E i \in 1 .. Len(ladder) : ~ladder[i].snr

\* A report and an acknowledgement share a bitmap, and neither is read as the
\* other: what is no longer unacknowledged arrived.
AckedIsReceived == 0 .. (master.next - 1) \ master.unacked \subseteq slave.got
=============================================================================
