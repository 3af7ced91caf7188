----------------------------- MODULE Transmitter -----------------------------
(***************************************************************************)
(* What the station does with what there is to transmit: a queue that the  *)
(* link engine, the operator and the KISS clients fill, the regulatory     *)
(* gate, the keying gate, the key, the sound card, and the account each    *)
(* client is given of what became of what it asked for.  The engine keeps  *)
(* a queue of its own of what it handed over, and takes reports for the    *)
(* oldest first.                                                           *)
(*                                                                         *)
(* The daemon's run loop goes round: commands, the card's clock and a      *)
(* block of capture, the card flushed, the card filled.  The card plays on *)
(* its own.  The port may refuse any keying command.                       *)
(*                                                                         *)
(* The engine itself is any: it hands over transmissions when it hears and *)
(* when it is asked.  What decides by a clock or by the channel (the slot, *)
(* its slack, busy, the rules, channel access) is a choice.                *)
(***************************************************************************)
EXTENDS Integers, Sequences, FiniteSets, Functions

CONSTANTS
    Asks,          \* the commands of the run: a subset of Commands

    MaxLink,       \* bound: transmissions of the engine's at a time
    MaxPending,    \* bound: the queue
    MaxDatagrams   \* bound: datagrams at a time

Commands == {"call", "abort", "beacon", "tune", "stop", "datagram"}

(* Outgoing::Link: an answer in a slot, a master's header or a DISC, its   *)
(* data with the header elided, an acceptance in its slot, a call or a     *)
(* probe, a closing identifier alone; and what the station queues itself.  *)
Link == {"answer", "header", "data", "accept", "call", "closing"}
Kinds == Link \cup {"beacon", "tone", "datagram"}

(* Those that begin with a control frame, the header; and those with a     *)
(* slot to be late for.                                                    *)
Headed == {"answer", "header"}
Slotted == {"answer", "accept"}

ASSUME Bounds == /\ Asks \subseteq Commands
                 /\ {MaxLink, MaxPending, MaxDatagrams} \subseteq Nat

VARIABLES
    pass,   \* where the run loop is
    card,   \* the sound card
    s       \* the station, the engine's account, and the truth of both

vars == <<pass, card, s>>

Items == [what : Kinds \cup {"nothing"}, id : Nat, last : BOOLEAN]
NoItem == [what |-> "nothing", id |-> 0, last |-> FALSE]
Item(what, id, last) == [what |-> what, id |-> id, last |-> last]

(* `current` is what was rendered last: waiting for its key (`playback`    *)
(* not empty), or transmitting.  What comes after `inFlight` is history:   *)
(* what of the current transmission has radiated; whether the engine's     *)
(* account is off, for an identifier was taken for a test that was over;   *)
(* datagrams not yet reported; those of them whose last burst the watchdog *)
(* ended, or a late flush took; and false reports.                         *)
Stations ==
    [pending : Seq(Items), current : Items,
     waiting : BOOLEAN, transmitting : BOOLEAN, keying : BOOLEAN,
     cutShort : BOOLEAN, flush : BOOLEAN, playingTest : BOOLEAN,
     queue : Seq([id : 1 .. MaxDatagrams, left : 1 .. 2]),
     onAir : 0 .. MaxDatagrams,
     engine : {"idle", "hold", "busy"}, inFlight : Seq(1 .. MaxLink),
     air : {"nothing", "header", "whole"}, mistaken : BOOLEAN,
     open : SUBSET (1 .. MaxDatagrams), spoiled : SUBSET (1 .. MaxDatagrams),
     lies : SUBSET {"done", "twice", "sent"}]

Cards == [at : {"empty", "lead", "frames", "end"}, of : Items,
          guard : BOOLEAN, dropped : BOOLEAN]

Init ==
    /\ pass = "commands"
    /\ card = [at |-> "empty", of |-> NoItem, guard |-> FALSE, dropped |-> FALSE]
    /\ s = [pending |-> <<>>, current |-> NoItem,
            waiting |-> FALSE, transmitting |-> FALSE, keying |-> FALSE,
            cutShort |-> FALSE, flush |-> FALSE, playingTest |-> FALSE,
            queue |-> <<>>, onAir |-> 0, engine |-> "idle", inFlight |-> <<>>,
            air |-> "nothing", mistaken |-> FALSE,
            open |-> {}, spoiled |-> {}, lies |-> {}]

IsLink(item) == item.what \in Link

(* What of a queue is of these kinds, in its order.                        *)
Of(items, whats) ==
    LET kept[n \in 0 .. Len(items)] ==
          IF n = 0 THEN <<>>
          ELSE IF items[n].what \in whats THEN Append(kept[n - 1], items[n])
          ELSE kept[n - 1]
    IN  kept[Len(items)]

LinkIds(items) ==
    LET links == Of(items, Link)
    IN  [i \in 1 .. Len(links) |-> links[i].id]

-----------------------------------------------------------------------------
(* What the engine and the clients are told. *)

(* Whether "done" (on_tx_done, of a transmission played or cut) is true:   *)
(* the oldest is the current one, and it radiated.  Without a header it    *)
(* counts as over wherever it was cut, and an identifier however it ended. *)
IsTrue(t, how) ==
    /\ IsLink(t.current) /\ t.current.id = Head(t.inFlight)
    /\ \/ t.air # "nothing"
       \/ how = "cut" /\ t.current.what \notin Headed
       \/ t.current.what = "closing"

(* on_tx_done ("done", "cut"), on_tx_cut_unread and on_tx_dropped ("not"): *)
(* of the oldest handed over.                                              *)
Told(t, how) ==
    IF t.inFlight = <<>> THEN t
    ELSE [t EXCEPT !.inFlight = Tail(@),
                   !.lies = @ \cup IF how = "not" \/ t.mistaken \/ IsTrue(t, how)
                                   THEN {} ELSE {"done"}]

(* report_cut: nothing granted if it has a header that could not be read.  *)
ReportCut(t) ==
    [Told(t, IF t.current.what \in Headed /\ t.air = "nothing"
             THEN "not" ELSE "cut") EXCEPT !.keying = FALSE]

(* drop_link_pending: one report for each still queued. *)
DropLinkPending(t) ==
    [t EXCEPT !.pending = Of(@, Kinds \ Link),
              !.inFlight = SubSeq(@, Len(LinkIds(t.pending)) + 1, Len(@))]

(* The current transmission is over, however much of it went out. *)
Gone(t) ==
    [t EXCEPT !.current = NoItem, !.air = "nothing",
              !.mistaken = @ /\ t.inFlight # LinkIds(t.pending)]

(* discard_waiting_link *)
DiscardWaiting(t) ==
    [Gone(Told(t, "not")) EXCEPT !.keying = FALSE, !.waiting = FALSE]

(* DatagramReport: what became of a datagram, which was sent if its last   *)
(* burst has just gone out whole.                                          *)
Report(t, id, sent) ==
    LET whole == t.air = "whole" /\ t.current = Item("datagram", id, TRUE)
    IN  [t EXCEPT !.open = @ \ {id}, !.spoiled = @ \ {id},
                  !.lies = @ \cup (IF id \in t.open THEN {} ELSE {"twice"})
                             \cup (IF sent /\ ~whole /\ id \notin t.spoiled
                                   THEN {"sent"} ELSE {})]

DatagramTransmitted(t, cut) ==
    IF t.onAir = 0 THEN t ELSE Report([t EXCEPT !.onAir = 0], t.onAir, ~cut)

(* The rest of the datagram goes too: it is the front of the queue. *)
RefuseDatagram(t, item) ==
    IF item.what # "datagram" THEN t
    ELSE IF ~item.last /\ t.queue # <<>>
    THEN Report([t EXCEPT !.queue = Tail(@)], Head(t.queue).id, FALSE)
    ELSE Report(t, item.id, FALSE)

(* Whatever waits is refused, in its order. *)
RefusePending(t) ==
    LET refused[n \in 0 .. Len(t.pending)] ==
          IF n = 0 THEN t ELSE RefuseDatagram(refused[n - 1], t.pending[n])
    IN  refused[Len(t.pending)]

-----------------------------------------------------------------------------
(* A transmission's ends. *)

\* Mutant: what the card still holds is not flushed.
AbandonUnflushed(t) ==
    LET told == IF ~t.keying THEN t
                ELSE IF t.transmitting THEN ReportCut(t) ELSE DiscardWaiting(t)
        queued == DatagramTransmitted(DropLinkPending(told), TRUE)
        refused == RefusePending(queued)
    IN  [Gone(refused) EXCEPT
            !.pending = <<>>, !.waiting = FALSE, !.transmitting = FALSE,
            !.cutShort = FALSE, !.playingTest = FALSE]

\* Mutant: the datagram on the air is not given up with its transmission.
AbandonOnAir(t) ==
    LET told == IF ~t.keying THEN t
                ELSE IF t.transmitting THEN ReportCut(t) ELSE DiscardWaiting(t)
        queued == DropLinkPending(told)
        refused == RefusePending(queued)
    IN  [Gone(refused) EXCEPT
            !.pending = <<>>, !.waiting = FALSE, !.transmitting = FALSE,
            !.flush = TRUE, !.cutShort = FALSE, !.playingTest = FALSE]

(* abandon_tx: of any keying error, and of a card that stopped. *)
Abandon(t) ==
    LET told == IF ~t.keying THEN t
                ELSE IF t.transmitting THEN ReportCut(t) ELSE DiscardWaiting(t)
        queued == DatagramTransmitted(DropLinkPending(told), TRUE)
        refused == RefusePending(queued)
    IN  [Gone(refused) EXCEPT
            !.pending = <<>>, !.waiting = FALSE, !.transmitting = FALSE,
            !.flush = TRUE, !.cutShort = FALSE, !.playingTest = FALSE]

(* finish_transmission: an error of the release is the run loop's to take. *)
Finish(t, released) ==
    LET over == [t EXCEPT !.cutShort = FALSE, !.transmitting = FALSE,
                          !.playingTest = FALSE]
        reported == DatagramTransmitted(over, t.cutShort)
        told == IF t.keying THEN Told(reported, "done") ELSE reported
    IN  IF released THEN Gone([told EXCEPT !.keying = FALSE]) ELSE Abandon(over)

Finishes(t) == {Finish(t, released) : released \in BOOLEAN}

\* Mutant: the queue is emptied without a word to the engine.
TrippedUntold(t) ==
    LET told == IF t.keying THEN ReportCut(t) ELSE t
    IN  [Gone(told) EXCEPT !.pending = <<>>, !.waiting = FALSE,
            !.transmitting = FALSE, !.flush = TRUE, !.cutShort = FALSE,
            !.spoiled = @ \cup ({t.onAir} \ {0})]

(* capture: the watchdog brought the key down.  The test playing and the   *)
(* datagram on the air are left as they were.                              *)
Tripped(t) ==
    LET told == DropLinkPending(IF t.keying THEN ReportCut(t) ELSE t)
    IN  [Gone(told) EXCEPT !.pending = <<>>, !.waiting = FALSE,
            !.transmitting = FALSE, !.flush = TRUE, !.cutShort = FALSE,
            !.spoiled = @ \cup ({t.onAir} \ {0})]

(* card_dropped_late: the card did not play it. *)
CardDroppedLate(t, released) ==
    IF ~t.transmitting THEN t
    ELSE LET told == IF t.keying THEN Told(t, "not") ELSE t
             over == [Gone(told) EXCEPT
                         !.keying = FALSE, !.waiting = FALSE, !.cutShort = FALSE,
                         !.transmitting = FALSE, !.playingTest = FALSE]
         IN  IF released THEN over ELSE Abandon(over)

(* drop_late: it would start past its slack. *)
DropLate(t) == DiscardWaiting(t)

-----------------------------------------------------------------------------
(* What asks for a transmission. *)

Fresh(ids, bound) == CHOOSE id \in 1 .. bound : id \notin ids
Outside(t) == t.engine # "busy"

(* Action::Transmit: the engine hands one over, or nothing.  A name that   *)
(* is free again is not used again in the same step.                       *)
HandedOver(t) ==
    LET ids == Range(s.inFlight) \cup Range(t.inFlight)
        free == Cardinality(ids) < MaxLink /\ Len(t.pending) < MaxPending
    IN  {t} \cup {[t EXCEPT !.inFlight = Append(@, Fresh(ids, MaxLink)),
                            !.pending = Append(@, Item(what, Fresh(ids, MaxLink), FALSE))] :
                      what \in IF free THEN Link ELSE {}}

(* The engine takes what was heard, or the time: any session may begin,    *)
(* end, or leave the closing hold, and it may hand over a transmission.  A *)
(* report makes it hand over nothing.                                      *)
Engine(t) ==
    UNION {HandedOver([t EXCEPT !.engine = state]) : state \in {"idle", "hold", "busy"}}

\* Mutant: what waits is dropped first, and the one on the air after it.
AbortQueuedFirst(t) ==
    LET queued == DropLinkPending(t)
        cut == [queued EXCEPT !.waiting = FALSE, !.flush = TRUE, !.cutShort = TRUE]
        rest == IF t.transmitting /\ ~t.playingTest
                THEN IF t.keying THEN ReportCut(cut) ELSE cut
                ELSE IF t.keying /\ ~t.transmitting /\ t.waiting
                THEN DiscardWaiting(queued) ELSE queued
    IN  [rest EXCEPT !.pending = Of(@, Kinds \ {"beacon"})]

(* abort: what is on the air is cut, unless it is taken for a test; what   *)
(* waits is dropped, the oldest first, and beacons with it; the engine     *)
(* then sends what it must.                                                *)
Abort(t) ==
    LET cut == [t EXCEPT !.waiting = FALSE, !.flush = TRUE, !.cutShort = TRUE]
        oldest == IF t.transmitting /\ ~t.playingTest
                  THEN IF t.keying THEN ReportCut(cut) ELSE cut
                  ELSE IF t.keying /\ ~t.transmitting /\ t.waiting
                  THEN DiscardWaiting(t) ELSE t
        spared == t.transmitting /\ t.keying /\ t.playingTest
    IN  [DropLinkPending(oldest) EXCEPT
            !.pending = Of(@, Kinds \ {"beacon"}),
            !.mistaken = @ \/ (spared /\ LinkIds(t.pending) # <<>>)]

Waits(t, what) == \E i \in DOMAIN t.pending : t.pending[i].what = what

Beacon(t) ==
    IF Outside(t) /\ ~Waits(t, "beacon")
    THEN {[t EXCEPT !.pending = Append(@, Item("beacon", 0, FALSE))]} ELSE {}

Tune(t) ==
    IF Outside(t) THEN {[t EXCEPT !.pending = Append(@, Item("tone", 0, FALSE))]} ELSE {}

(* tune_stop: what is played, or waits for its key, is dropped when it is  *)
(* taken for a test, and the engine not told.                              *)
TuneStop(t) ==
    LET queued == [t EXCEPT !.pending = Of(@, Kinds \ {"tone"})]
    IN  IF t.playingTest
        THEN [queued EXCEPT !.waiting = FALSE, !.flush = TRUE, !.cutShort = TRUE,
                            !.playingTest = FALSE,
                            !.mistaken = @ \/ (t.waiting /\ t.keying)]
        ELSE queued

(* send_datagram: of one burst or two. *)
SendDatagram(t) ==
    LET id == Fresh(t.open, MaxDatagrams)
    IN  IF Cardinality(t.open) = MaxDatagrams THEN {}
        ELSE {[t EXCEPT !.queue = Append(@, [id |-> id, left |-> bursts]),
                        !.open = @ \cup {id}] : bursts \in 1 .. 2}

Asked(t, ask) ==
    CASE ask = "call" -> HandedOver([t EXCEPT !.engine = "busy"])
      [] ask = "abort" -> Engine(Abort(t))
      [] ask = "beacon" -> Beacon(t)
      [] ask = "tune" -> Tune(t)
      [] ask = "stop" -> {TuneStop(t)}
      [] ask = "datagram" -> SendDatagram(t)

Command ==
    /\ pass = "commands"
    /\ \E ask \in Asks :
          /\ ask \in {"beacon", "tune"} => Len(s.pending) < MaxPending
          /\ s' \in Asked(s, ask)
    /\ UNCHANGED <<pass, card>>

EndCommands ==
    /\ pass = "commands"
    /\ pass' = "capture"
    /\ UNCHANGED <<card, s>>

-----------------------------------------------------------------------------
(* The queue. *)

\* Mutant: a datagram whose last burst is fed stays in the queue.
FedKeepsFront(t) ==
    IF t.pending # <<>> \/ t.queue = <<>> \/ ~Outside(t) THEN {t}
    ELSE LET front == Head(t.queue)
         IN  {t, [t EXCEPT !.pending = <<Item("datagram", front.id, front.left = 1)>>,
                           !.queue = [@ EXCEPT ![1].left = front.left - 1]]}

(* feed_datagram: with nothing else queued, and no session.                *)
Fed(t) ==
    IF t.pending # <<>> \/ t.queue = <<>> \/ ~Outside(t) THEN {t}
    ELSE LET front == Head(t.queue)
             last == front.left = 1
         IN  {t, [t EXCEPT !.pending = <<Item("datagram", front.id, last)>>,
                           !.queue = IF last THEN Tail(@)
                                     ELSE [@ EXCEPT ![1].left = front.left - 1]]}

(* drop_beacons_in_session *)
BeaconsDropped(t) ==
    IF Outside(t) THEN t
    ELSE [t EXCEPT !.pending = Of(@, Kinds \ {"beacon"})]

(* held_for_busy: beacons and datagrams wait out the closing hold; what is *)
(* not in turn may find the channel busy.                                  *)
MustHold(t) ==
    t.engine = "hold" /\ Head(t.pending).what \in {"beacon", "datagram"}
MayHold(t) == Head(t.pending).what \in {"call", "closing", "beacon", "tone"}

(* refuse: the rules forbid it.  What it ends of a session is abort's to   *)
(* take up in the engine.                                                  *)
Refused(t) ==
    LET item == Head(t.pending)
        rest == [t EXCEPT !.pending = Tail(@)]
        told == Told(rest, "not")
    IN  IF IsLink(item)
        THEN IF Outside(t) THEN {told} ELSE Engine(DropLinkPending(told))
        ELSE {RefuseDatagram(rest, item)}

(* render_next: a closing identifier with nothing to say is done at once.  *)
(* It does not touch playing_test.                                         *)
Rendered(t) ==
    LET item == Head(t.pending)
        rest == [t EXCEPT !.pending = Tail(@)]
    IN  {[rest EXCEPT !.current = item, !.waiting = TRUE,
                      !.keying = IsLink(item),
                      !.onAir = IF item.last THEN item.id ELSE @,
                      !.playingTest = IF item.what = "closing" THEN @
                                      ELSE item.what = "tone"]}
        \cup IF item.what = "closing" THEN {Told(rest, "not")} ELSE {}

(* start_pending, when nothing is on the air or waiting to be keyed: what  *)
(* it leaves, and whether the channel and the rules let what was next go.  *)
Started(t) ==
    IF t.transmitting \/ t.waiting THEN {t}
    ELSE UNION {IF u.pending = <<>> THEN {u}
                ELSE LET v == BeaconsDropped(u)
                     IN  IF v.pending = <<>> \/ MustHold(v) THEN {v}
                         ELSE Rendered(v) \cup Refused(v)
                                \cup IF MayHold(v) THEN {v} ELSE {} : u \in Fed(t)}

-----------------------------------------------------------------------------
(* The rest of a pass. *)

(* read_card: a drop the card made. *)
Read(t) ==
    IF card.dropped THEN {CardDroppedLate(t, released) : released \in BOOLEAN} ELSE {t}

(* capture: the transmission that left the card is finished, the engine    *)
(* hears and its timers run, the watchdog looks at the key; an error of    *)
(* the port ends it there.                                                 *)
Heard(t) ==
    LET over == t.transmitting /\ card.at = "end" /\ ~t.waiting
    IN  (UNION {Engine(u) : u \in IF over THEN Finishes(t) ELSE {t}})
        \cup IF t.transmitting /\ ~over
             THEN UNION {Engine(v) : v \in {Abandon(t), Tripped(t), Abandon(Tripped(t))}}
             ELSE {}

(* A card that delivers nothing while the key is down: release_on_stall.   *)
Stalled(t) == IF t.transmitting THEN {Abandon(t)} ELSE {t}

Capture ==
    /\ pass = "capture"
    /\ \E t \in Read(s) : s' \in Heard(t) \cup Stalled(t)
    /\ card' = [card EXCEPT !.dropped = FALSE]
    /\ pass' = "flush"

(* take_device_flush, and the card read again. *)
Flush ==
    /\ pass = "flush"
    /\ s' \in Read([s EXCEPT !.flush = FALSE])
    /\ card' = IF s.flush THEN [card EXCEPT !.at = "empty", !.of = NoItem,
                                            !.guard = FALSE, !.dropped = FALSE]
                          ELSE [card EXCEPT !.dropped = FALSE]
    /\ pass' = "fill"

(* playback, in the pass that finds it not transmitting: held for its      *)
(* slot; past it; not keyed; keyed too late and let go; or started.        *)
Held(t) == t.waiting /\ t.keying
Late(t) == t.waiting /\ t.current.what \in Slotted

NotStarted(t) ==
    IF ~t.waiting THEN {t}
    ELSE {Abandon(t)} \cup (IF Held(t) THEN {t} ELSE {})
                      \cup (IF Late(t) THEN {DropLate(t)} ELSE {})

Keyed(t) ==
    [t EXCEPT !.waiting = FALSE, !.transmitting = TRUE, !.cutShort = FALSE,
              !.air = "nothing",
              !.spoiled = @ \cup IF t.flush THEN {t.onAir} \ {0} ELSE {}]

(* The whole transmission goes to the card, which is held to its slot.     *)
FillTransmission ==
    /\ pass = "fill" /\ ~s.transmitting
    /\ \E t \in Started(s) :
          \/ s' \in NotStarted(t) /\ UNCHANGED card
          \/ /\ t.waiting
             /\ s' = Keyed(t)
             /\ card' = [card EXCEPT !.at = "lead", !.of = t.current,
                                     !.guard = (t.current.what \in Slotted)]
    /\ pass' = "commands"

(* playback, transmitting: released when all of it has left the card, or   *)
(* was cut.                                                                *)
FillRelease ==
    /\ pass = "fill" /\ s.transmitting
    /\ IF s.cutShort \/ card.at = "end"
       THEN s' \in Finishes(s)
       ELSE s' = s
    /\ pass' = "commands"
    /\ UNCHANGED card

Pass == EndCommands \/ Capture \/ Flush \/ FillTransmission \/ FillRelease

-----------------------------------------------------------------------------
(* The card.  What is cut is taken to stop where it was cut.               *)

Plays == s.transmitting /\ ~s.cutShort /\ ~card.dropped

CardStarts ==
    /\ Plays /\ card.at = "lead"
    /\ card' = [card EXCEPT !.at = "frames", !.guard = FALSE]
    /\ s' = [s EXCEPT !.air = "header"]
    /\ UNCHANGED pass

(* hold_to_onset *)
CardDrops ==
    /\ Plays /\ card.at = "lead" /\ card.guard
    /\ card' = [card EXCEPT !.at = "empty", !.of = NoItem, !.guard = FALSE,
                            !.dropped = TRUE]
    /\ UNCHANGED <<pass, s>>

(* Its clock reaches where the transmission ends, flushed or not.          *)
CardDrains ==
    /\ Plays /\ card.at \in {"frames", "empty"}
    /\ card' = [card EXCEPT !.at = "end", !.of = NoItem]
    /\ s' = [s EXCEPT !.air = IF card.at = "frames" THEN "whole" ELSE @]
    /\ UNCHANGED pass

Card == CardStarts \/ CardDrops \/ CardDrains

Next == Command \/ Pass \/ Card

Spec == Init /\ [][Next]_vars

-----------------------------------------------------------------------------
TypeOK ==
    /\ pass \in {"commands", "capture", "flush", "fill"}
    /\ card \in Cards
    /\ s \in Stations

(* The engine is told of every transmission it handed over, once, and in   *)
(* the order it handed them over: what it waits for word of is what is     *)
(* keyed or on the air, then what is queued, and nothing else.  Excepted   *)
(* is a closing identifier taken for a test, which a trip of the watchdog  *)
(* left marked as playing: an abort spares it on the air, and counts what  *)
(* it drops behind it off the wrong end; tune_stop drops it waiting for    *)
(* its key, and tells nobody.                                              *)
AccountMatches ==
    LET due == (IF s.keying THEN <<s.current.id>> ELSE <<>>) \o LinkIds(s.pending)
    IN  ~s.mistaken => s.inFlight = due

(* The engine is told that a transmission is over only when it is the one  *)
(* that was keyed, and its header, or all of it, went out: it takes the    *)
(* word for the moment its slot begins.  A call, an acceptance, data whose *)
(* header is elided have none: cut, they are over whether they radiated or *)
(* not.  An identifier has no slot; and AccountMatches has its exception   *)
(* here too.                                                               *)
DoneMeansRadiated == "done" \notin s.lies

(* What is keyed is what the card plays: nothing of a transmission that    *)
(* was cut, dropped or abandoned is left in the card for the next key, and *)
(* a flush that is still to come takes nothing that was keyed after it.    *)
CardIsTheKeys ==
    /\ card.at \in {"lead", "frames"} /\ ~s.flush =>
           s.transmitting /\ card.of = s.current
    /\ s.flush /\ s.transmitting /\ IsLink(s.current) => s.cutShort

(* A client hears once of each datagram it sent, however it ended, and     *)
(* that it was sent only if its last burst went out whole; until then the  *)
(* station still has some of it.  Excepted are those whose last burst the  *)
(* watchdog ended, which are still taken to be on the air, and those keyed *)
(* with the flush of what went before still to come.                       *)
DatagramsAccounted ==
    LET has == {s.queue[i].id : i \in DOMAIN s.queue}
                 \cup {s.pending[i].id : i \in {j \in DOMAIN s.pending : s.pending[j].last}}
                 \cup ({s.onAir} \ {0})
    IN  /\ s.lies \cap {"twice", "sent"} = {}
        /\ has \subseteq s.open /\ s.open \subseteq has \cup s.spoiled

====
