------------------------------- MODULE Session -------------------------------
(***************************************************************************)
(* The life of a session: calls and acceptances, leaving from either end,  *)
(* sessions one end has left, and the closing Morse identifiers.           *)
(*                                                                         *)
(* Two link engines (core/aether-link/src/granted.rs) on one frequency,    *)
(* each with its armed timers, and each one's driver.  Either may call     *)
(* the other, or a station that does not answer.  An exchange inside a     *)
(* session is a header and an answer with no data: what slots of several   *)
(* lengths, levels and families add is in SlotTiming.                      *)
(*                                                                         *)
(* Time is an integer number of ticks.  Timers fire on time and the driver *)
(* keys on time: the run loop ticks the engine every few milliseconds.     *)
(* Frames are lost, and read up to ReadDelay after they end.               *)
(***************************************************************************)
EXTENDS Integers, Sequences, FiniteSets, SequencesExt, TLC

CONSTANTS
  Stations,         \* the two engines
  First,            \* the one with the higher callsign
  Other,            \* a callsign nobody answers to
  Frame,            \* air time of a frame: a call, an acceptance, a control frame
  Gap,              \* from a transmission's end to the slot it grants (slot_start)
  Slack,            \* SLACK_S
  Wait,             \* from a transmission's end to the other's next (after)
  Ident,            \* [Stations -> Nat]: a station's Morse identifier, 0 for none
  Exchange,         \* exchange_s: one whole exchange
  LinkTimeout,      \* link_timeout
  Drain,            \* DISC_DRAIN_S: what is queued goes first for no longer
  ConnectRetries,   \* tries of a call
  MaxRetries,       \* silent slots in a row before the session ends
  DiscRetries,      \* DISCs before a master closes without a DISC_ACK
  LeaveRepeats,     \* DISCs of an aborting master
  Jitter,           \* what a call's next try is put off by: a set
  Unreadable,       \* how much of a control frame, cut short, nobody can read
  ReadDelay,        \* how long after its end a frame may still be decoded
  Fades,            \* when the band may close for a station: a set of ticks
  Calls,            \* which calls are made: a set of <<caller, called>>
  Leavers,          \* the stations whose operator may disconnect
  Aborters,         \* the stations whose operator may abort
  LastCall,         \* the last tick a call is placed at
  LastOrder,        \* the last tick an operator disconnects or aborts at
  MaxSession,       \* sessions in one behaviour
  MaxLost,          \* frames not read, and answers not keyed, in one behaviour
  MaxTime           \* the last tick TLC explores

ASSUME StationAssumption ==
  /\ \E a, b \in Stations : a # b /\ Stations = {a, b}
  /\ First \in Stations /\ Other \notin Stations
  /\ Calls \subseteq {p \in Stations \X (Stations \cup {Other}) : p[1] # p[2]}
  /\ Leavers \subseteq Stations /\ Aborters \subseteq Stations

ASSUME TimeAssumption ==
  /\ Frame \in Nat \ {0} /\ Gap \in Nat /\ Slack \in Nat /\ Wait \in Nat
  /\ Ident \in [Stations -> Nat] /\ Fades \subseteq Nat
  /\ Unreadable \in 0 .. Frame
  /\ Exchange \in Nat /\ LinkTimeout \in Nat /\ Drain \in Nat /\ ReadDelay \in Nat
  /\ Jitter \subseteq Nat

ASSUME CountAssumption ==
  /\ ConnectRetries \in Nat \ {0} /\ DiscRetries \in Nat \ {0}
  /\ MaxRetries \in Nat /\ LeaveRepeats \in Nat
  /\ MaxSession \in Nat /\ MaxLost \in Nat /\ MaxTime \in Nat

Peer(s) == CHOOSE p \in Stations : p # s
Timers == {"connect", "proceed", "leave", "ident", "link"}

NoTime == -1
NoSlot == [kind |-> "none", final |-> FALSE, txEnd |-> 0, endMax |-> 0, room |-> 0,
           stated |-> NoTime]
NoLeft == [session |-> 0, until |-> 0, discHeard |-> FALSE, wasSlave |-> FALSE]

NewEngine ==
  [state |-> "idle", role |-> "none", session |-> 0, remote |-> Other, tries |-> 0,
   jitter |-> 0, deadlines |-> <<>>, slot |-> NoSlot, hold |-> 0, silent |-> 0,
   heardAt |-> 0, asked |-> FALSE, since |-> NoTime, discTries |-> 0,
   peerLeft |-> FALSE, slaveLeaves |-> FALSE, reached |-> FALSE, peerIdent |-> 0,
   left |-> NoLeft, repeats |-> 0, owed |-> 0, alone |-> FALSE, listen |-> FALSE,
   out |-> <<>>]

VARIABLES
  now,      \* the clock
  eng,      \* [Stations -> engine]; out is what its driver has of it, oldest first
  air,      \* [Stations -> frames it may still read]
  session,  \* the last session number drawn
  fade,     \* [Stations -> tick]: from when it hears nothing
  lost,     \* frames and answers lost so far
  apart,    \* for how long one station has been in a session the other has left
  said      \* [Stations -> what went out]: met, the last session that came up, and
            \* closed, the sessions whose identifier was sent

vars == <<now, eng, air, session, fade, lost, apart, said>>

Max2(a, b) == IF a >= b THEN a ELSE b

-----------------------------------------------------------------------------
(***************************************************************************)
(* Timers: armed in order; one armed again keeps its place.                *)
(***************************************************************************)
Armed(e, timer) == \E i \in DOMAIN e.deadlines : e.deadlines[i].timer = timer

Place(e, timer) == CHOOSE i \in DOMAIN e.deadlines : e.deadlines[i].timer = timer

Due(e, timer) == e.deadlines[Place(e, timer)].due

Disarm(e, timer) ==
  IF Armed(e, timer) THEN [e EXCEPT !.deadlines = RemoveAt(@, Place(e, timer))] ELSE e

Arm(e, timer, due) ==
  IF Armed(e, timer)
  THEN [e EXCEPT !.deadlines[Place(e, timer)] = [timer |-> timer, due |-> due]]
  ELSE [e EXCEPT !.deadlines = Append(@, [timer |-> timer, due |-> due])]

\* The order tick takes them in: by due time, equal ones as they were armed.
Order(e) ==
  SortSeq([i \in DOMAIN e.deadlines |-> i],
          LAMBDA i, j : \/ e.deadlines[i].due < e.deadlines[j].due
                        \/ e.deadlines[i].due = e.deadlines[j].due /\ i < j)

-----------------------------------------------------------------------------
(***************************************************************************)
(* Transmissions and the slots they grant.                                 *)
(***************************************************************************)
Up(e) == e.state \in {"connected", "disconnecting"}

Message(kind, number, to, flag, ident) ==
  [kind |-> kind, session |-> number, to |-> to, flag |-> flag, ident |-> ident]
NoMessage == Message("none", 0, Other, FALSE, 0)

\* An answer radiates in its slot; the rest at once.
InItsSlot(msg, ident, start) ==
  [msg |-> msg, ident |-> ident, from |-> start, until |-> start + Slack,
   listen |-> FALSE, grants |-> FALSE, start |-> NoTime]
AtOnce(msg, ident, listen, grants) ==
  [msg |-> msg, ident |-> ident, from |-> now, until |-> NoTime,
   listen |-> listen, grants |-> grants, start |-> NoTime]

Hand(e, tx) == [e EXCEPT !.out = Append(@, tx)]

SlotStart(end) == end + Gap
After(end) == end + Wait
SlotClose(slot) == After(IF slot.stated # NoTime THEN slot.stated ELSE slot.endMax)

ArmWait(e) ==
  LET due  == SlotClose(e.slot)
      held == [e EXCEPT !.hold = due]
  IN  IF e.slot = NoSlot THEN e
      ELSE IF e.slot.kind = "connect" /\ e.state = "connecting"
           THEN Arm(held, "connect", due + e.jitter)
           ELSE IF e.role = "master" /\ Up(e)
                THEN Arm(held, "proceed", Max2(now, due))
                ELSE held

OpenSlot(e, end) ==
  ArmWait([e EXCEPT !.slot.txEnd = end,
                    !.slot.endMax = SlotStart(end) + e.slot.room + Slack])

\* A transmission that grants a slot: no earlier one's is waited for any more.
KeyGranting(e, kind, room, msg) ==
  LET alone == [e EXCEPT !.slot = [NoSlot EXCEPT !.kind = kind, !.room = room],
                         !.out = [i \in DOMAIN @ |-> [@[i] EXCEPT !.grants = FALSE]]]
  IN  OpenSlot(Hand(alone, AtOnce(msg, 0, FALSE, TRUE)), now + Frame)

\* A frame is of the slot if it began after the granting transmission.
InSlot(e, f) == e.slot.final /\ f.start >= e.slot.txEnd

StateEnd(e, end) ==
  IF e.slot = NoSlot THEN e
  ELSE ArmWait([e EXCEPT !.slot.stated = IF end >= @ THEN end ELSE @])

Heard(e) == Arm([e EXCEPT !.heardAt = now], "link", now + LinkTimeout)

\* Owed in a slot, decided at once, or too late for it.
TooLate(start) == now > start + Slack
AnswerIn(e, msg, ident, start) ==
  IF TooLate(start) THEN e ELSE Hand(e, InItsSlot(msg, ident, start))

-----------------------------------------------------------------------------
(***************************************************************************)
(* The end of a session, and the identifier it owes.                       *)
(***************************************************************************)
DropIdentifier(e) == Disarm([e EXCEPT !.owed = 0], "ident")

ResetSession(e) ==
  LET clear == [e EXCEPT !.slot = NoSlot, !.silent = 0, !.heardAt = now, !.asked = FALSE,
                         !.since = NoTime, !.discTries = 0, !.peerLeft = FALSE,
                         !.slaveLeaves = FALSE, !.reached = FALSE, !.peerIdent = 0]
  IN  Disarm(Disarm(clear, "proceed"), "link")

LeftUnheard == {"aborted", "closed (no DISC_ACK)", "no response", "link timeout"}

\* Mutant: a slave that timed out identifies as one that heard the end does.
PlaceIdentifierSoon(e, reason, wasMaster) ==
  LET at == IF wasMaster THEN Max2(now, e.hold)
            ELSE IF e.left = NoLeft \/ reason = "link timeout" THEN now ELSE now + Exchange
  IN  IF wasMaster /\ reason = "aborted" THEN e ELSE Arm(e, "ident", at)

\* Where the closing identifier of a session that came up goes: the master's
\* after the last slot it granted (an aborting one's after its leaving); a
\* slave's alone once the other end has had an exchange to close properly.
PlaceIdentifier(e, reason, wasMaster) ==
  LET at == CASE wasMaster -> Max2(now, e.hold)
              [] ~wasMaster /\ reason = "link timeout" -> now + Exchange + e.peerIdent
              [] ~wasMaster /\ reason # "link timeout" ->
                   IF e.left = NoLeft THEN now ELSE now + Exchange
  IN  IF wasMaster /\ reason = "aborted" THEN e ELSE Arm(e, "ident", at)

EndSession(e, s, reason, discHeard) ==
  LET up        == e.state # "connecting"
      wasMaster == e.role = "master"
      owes      == up /\ Ident[s] > 0 /\ reason # "called again"
      left      == IF up /\ (reason \in LeftUnheard \/ discHeard)
                   THEN [session |-> e.session, until |-> now + LinkTimeout,
                         discHeard |-> discHeard, wasSlave |-> e.role = "slave"]
                   ELSE NoLeft
      idle      == ResetSession(Disarm(Disarm(
                     [e EXCEPT !.state = "idle", !.role = "none"], "connect"), "ident"))
      ended     == [idle EXCEPT !.peerIdent = e.peerIdent, !.left = left,
                                !.owed = IF owes THEN Ident[s] ELSE 0]
  IN  IF ~owes THEN ended
      ELSE PlaceIdentifier(
             [ended EXCEPT !.alone = ~wasMaster,
                           !.listen = \/ ~wasMaster
                                      \/ reason \in {"no response", "link timeout"}],
             reason, wasMaster)

\* Every DISC unanswered: the other end is unread.
EndUnread(e, s, reason) ==
  LET ended == EndSession(e, s, reason, FALSE)
  IN  IF ended.owed > 0 THEN [ended EXCEPT !.listen = TRUE] ELSE ended

IdentifyAfterLeaving(e) ==
  IF e.owed > 0 /\ ~e.alone /\ e.state = "idle"
  THEN Arm(e, "ident", Max2(now, e.hold)) ELSE e

\* Mutants: it waits for the next DISC, or is forgotten.
OweAgainUntimed(e, ident) ==
  IF ident = 0 \/ e.state # "idle" \/ e.owed > 0 THEN e
  ELSE [e EXCEPT !.owed = ident, !.alone = TRUE, !.listen = TRUE]
OweAgainNever(e, ident) == e

\* The identifier behind a DISC_ACK that did not go out is owed again.
OweAgain(e, ident) ==
  IF ident = 0 \/ e.state # "idle" \/ e.owed > 0 THEN e
  ELSE Arm([e EXCEPT !.owed = ident, !.alone = TRUE, !.listen = TRUE],
           "ident", now + Exchange)

SendIdentifier(e) ==
  IF \/ e.owed = 0
     \/ e.state # "idle" /\ ~(e.state = "connecting" /\ e.tries = 0)
  THEN e
  ELSE IF now < e.hold THEN Arm(e, "ident", e.hold)
  ELSE LET sent == Hand(e, AtOnce(NoMessage, e.owed, e.listen, FALSE))
       IN  [sent EXCEPT !.owed = 0, !.hold = Max2(@, now + e.owed)]

\* The latest the other station's closing identifier can be on the air.
ClosingHold(e, s, start) ==
  start + Slack + Frame + Ident[s] + Wait + Slack + e.peerIdent

\* A DISC_ACK, with the identifier behind it, to a DISC; a DISC to a header.
AnswerDisc(e, s, f, kind) ==
  LET start == SlotStart(f.end)
      ident == IF kind = "ack" THEN Ident[s] ELSE 0
      msg   == Message(kind, f.msg.session, Peer(s), FALSE, 0)
      sent  == AnswerIn(e, msg, ident, start)
  IN  IF TooLate(start) \/ ident = 0 THEN sent
      ELSE Disarm([sent EXCEPT !.owed = 0, !.hold = Max2(@, ClosingHold(e, s, start))],
                  "ident")

-----------------------------------------------------------------------------
(***************************************************************************)
(* The call.                                                               *)
(***************************************************************************)
SendConnect(e, s, jitter) ==
  KeyGranting([e EXCEPT !.tries = @ + 1, !.jitter = jitter], "connect", Frame,
              Message("call", e.session, e.remote, FALSE, Ident[s]))

Connect(e, s, remote, number, jitter) ==
  LET owing == IF e.owed = 0 THEN e
               ELSE IF remote = e.remote THEN DropIdentifier(e)
               ELSE Arm(e, "ident", Max2(now, e.hold))
      call  == ResetSession(Disarm(
                 [owing EXCEPT !.remote = remote, !.session = number,
                               !.state = "connecting", !.role = "none", !.tries = 0,
                               !.left = NoLeft], "leave"))
  IN  IF now >= call.hold /\ ~Armed(call, "ident")
      THEN SendConnect(call, s, jitter)
      ELSE Arm(call, "connect", call.hold)

\* Mutant: one try too many.
RetryConnectMore(e, s, jitter) ==
  IF e.state # "connecting" THEN e
  ELSE IF e.tries > ConnectRetries THEN EndSession(e, s, "no answer", FALSE)
  ELSE SendConnect(e, s, jitter)

RetryConnect(e, s, jitter) ==
  IF e.state # "connecting" THEN e
  ELSE IF e.tries >= ConnectRetries THEN EndSession(e, s, "no answer", FALSE)
  ELSE SendConnect(e, s, jitter)

ScheduleAcceptance(e, s, f) ==
  AnswerIn(e, Message("accept", e.session, Peer(s), FALSE, Ident[s]), 0,
           SlotStart(f.end))

AcceptCall(e, s, f) ==
  LET slave == [ResetSession(Disarm(
                  [DropIdentifier(e) EXCEPT !.remote = Peer(s), !.session = f.msg.session,
                                            !.left = NoLeft], "leave"))
                EXCEPT !.peerIdent = f.msg.ident, !.state = "connected", !.role = "slave"]
  IN  ScheduleAcceptance(Heard(slave), s, f)

\* The peer calls again. Under a new number it has given the session up; under
\* this one's it has not read the acceptance. [e, answer]: answered as from idle?
CalledAgain(e, s, f) ==
  IF f.msg.session # e.session
  THEN [e |-> EndSession(e, s, "called again", FALSE), answer |-> TRUE]
  ELSE [e |-> IF e.role = "slave" /\ ~e.reached
              THEN ScheduleAcceptance(Heard(e), s, f) ELSE e,
        answer |-> FALSE]

\* Whether a station with a call of its own out takes the other's: in
\* simultaneous calls the higher callsign keeps calling.
Yields(e, s) == e.state # "connecting" \/ e.remote # Peer(s) \/ s # First

\* Mutant: a call is answered whatever slot of its own the station waits for.
OnRequestAnyTime(e, s, f) ==
  LET again == IF Up(e) THEN CalledAgain(e, s, f) ELSE [e |-> e, answer |-> TRUE]
  IN  IF f.msg.to # s THEN e
      ELSE IF \/ ~again.answer
              \/ ~Yields(again.e, s)
           THEN again.e
           ELSE AcceptCall(Disarm(again.e, "connect"), s, f)

OnRequest(e, s, f) ==
  LET again == IF Up(e) THEN CalledAgain(e, s, f) ELSE [e |-> e, answer |-> TRUE]
  IN  IF f.msg.to # s THEN e
      ELSE IF \/ ~again.answer
              \/ SlotStart(f.end) < again.e.hold
              \/ ~Yields(again.e, s)
           THEN again.e
           ELSE AcceptCall(Disarm(again.e, "connect"), s, f)

\* Mutants: an acceptance of any call of this station's is taken for the last one's;
\* only an acceptance read in its slot has the master wait for it.
OnAcceptanceOfAny(e, s, f) ==
  IF e.state # "connecting" \/ f.msg.to # s THEN e
  ELSE LET master == Heard([Disarm(e, "connect") EXCEPT
                       !.peerIdent = f.msg.ident, !.state = "connected", !.role = "master"])
       IN  IF InSlot(master, f) THEN StateEnd(master, f.end) ELSE ArmWait(master)

OnAcceptanceInSlot(e, s, f) ==
  IF e.state # "connecting" \/ f.msg.session # e.session \/ f.msg.to # s THEN e
  ELSE LET master == Heard([Disarm(e, "connect") EXCEPT
                       !.peerIdent = f.msg.ident, !.state = "connected", !.role = "master"])
       IN  IF InSlot(master, f) THEN StateEnd(master, f.end) ELSE master

OnAcceptance(e, s, f) ==
  IF e.state # "connecting" \/ f.msg.session # e.session \/ f.msg.to # s THEN e
  ELSE LET master == Heard([Disarm(e, "connect") EXCEPT
                       !.peerIdent = f.msg.ident, !.state = "connected", !.role = "master"])
       IN  IF InSlot(master, f) THEN StateEnd(master, f.end) ELSE ArmWait(master)

-----------------------------------------------------------------------------
(***************************************************************************)
(* Control frames.                                                         *)
(***************************************************************************)
\* A control frame of a session this station left.
AnswerLeft(e, s, f) ==
  LET kind  == f.msg.kind
      later == IF e.owed > 0 /\ e.alone THEN Arm(e, "ident", now + Exchange) ELSE e
      gone  == Disarm([e EXCEPT !.left = NoLeft], "leave")
  IN  CASE e.left = NoLeft -> e
        [] e.left # NoLeft /\ now > e.left.until -> [e EXCEPT !.left = NoLeft]
        [] OTHER ->
             IF f.msg.session # e.left.session THEN e
             ELSE IF kind = "ack"
             THEN IdentifyAfterLeaving(
                    IF e.slot.kind = "leave" /\ InSlot(e, f)
                    THEN StateEnd(gone, f.end + e.peerIdent) ELSE gone)
             ELSE IF e.state = "connecting" THEN e
             ELSE IF kind = "disc" THEN AnswerDisc(later, s, f, "ack")
             ELSE IF kind = "header" /\ e.left.wasSlave /\ ~e.left.discHeard
             THEN AnswerDisc(later, s, f, "disc")
             ELSE later

MasterControl(e, s, f) ==
  LET heard == Heard(e)
  IN  IF ~InSlot(e, f) THEN e
      ELSE CASE f.msg.kind = "ack" ->
                  IF e.state # "disconnecting" THEN heard
                  ELSE EndSession(StateEnd(heard, f.end + e.peerIdent), s,
                         IF e.peerLeft THEN "peer disconnected" ELSE "closed", FALSE)
             [] f.msg.kind = "disc" ->
                  StateEnd([heard EXCEPT !.peerLeft = TRUE, !.state = "disconnecting"], f.end)
             [] f.msg.kind = "answer" ->
                  StateEnd([heard EXCEPT !.slaveLeaves = f.msg.flag,
                              !.since = IF f.msg.flag /\ @ = NoTime THEN now ELSE @], f.end)
             [] OTHER -> heard

SlaveControl(e, s, f) ==
  LET heard == Heard(e)
  IN  CASE f.msg.kind = "disc" ->
             AnswerDisc(EndSession(heard, s, "peer disconnected", TRUE), s, f, "ack")
        [] f.msg.kind = "header" ->
             AnswerIn([heard EXCEPT !.reached = TRUE],
                      Message("answer", e.session, Peer(s), e.asked, 0), 0, SlotStart(f.end))
        [] OTHER -> heard

OnControl(e, s, f) ==
  IF ~Up(e) THEN AnswerLeft(e, s, f)
  ELSE IF f.msg.session # e.session THEN e
  ELSE IF e.role = "master" THEN MasterControl(e, s, f)
  ELSE SlaveControl(e, s, f)

OnFrame(e, s, f) ==
  CASE f.msg.kind = "call"   -> OnRequest(e, s, f)
    [] f.msg.kind = "accept" -> OnAcceptance(e, s, f)
    [] OTHER                 -> OnControl(e, s, f)

-----------------------------------------------------------------------------
(***************************************************************************)
(* Timers.                                                                 *)
(***************************************************************************)
CloseSlot(e, s) ==
  LET closed == [e EXCEPT !.slot = NoSlot]
      silent == [closed EXCEPT !.silent = @ + 1]
  IN  CASE e.slot = NoSlot -> e
        [] e.slot # NoSlot /\ e.slot.stated # NoTime -> [closed EXCEPT !.silent = 0]
        [] OTHER -> IF silent.silent > MaxRetries
                    THEN EndSession(silent, s, "no response", FALSE) ELSE silent

SendHeader(e, s) ==
  KeyGranting(e, "header", Frame, Message("header", e.session, Peer(s), FALSE, 0))

\* Mutant: a slot with no room for the slave's identifier.
SendDiscBare(e, s) ==
  KeyGranting([e EXCEPT !.discTries = @ + 1], "disc", Frame,
              Message("disc", e.session, Peer(s), FALSE, 0))

SendDisc(e, s) ==
  KeyGranting([e EXCEPT !.discTries = @ + 1], "disc", Frame + e.peerIdent,
              Message("disc", e.session, Peer(s), FALSE, 0))

\* drained: nothing is left to send, or nothing moved for the patience.
CanLeave(e, drained) == drained \/ now >= e.since + Drain

Proceed(e, s, drained) ==
  LET closed == CloseSlot(e, s)
  IN  IF ~(e.role = "master" /\ Up(e)) THEN e
      ELSE IF closed.state = "idle" THEN closed
      ELSE IF closed.state = "disconnecting"
      THEN IF closed.discTries >= DiscRetries
           THEN EndUnread(closed, s,
                  IF closed.peerLeft THEN "peer disconnected" ELSE "closed (no DISC_ACK)")
           ELSE SendDisc(closed, s)
      ELSE IF (closed.asked \/ closed.slaveLeaves) /\ CanLeave(closed, drained)
      THEN SendDisc([closed EXCEPT !.state = "disconnecting"], s)
      ELSE SendHeader(closed, s)

\* An aborting master's DISC, from idle.
RepeatLeave(e, s) ==
  IF e.left = NoLeft \/ e.state # "idle" \/ e.repeats = 0 THEN IdentifyAfterLeaving(e)
  ELSE IF now < e.hold THEN Arm(e, "leave", e.hold)
  ELSE IF now > e.left.until THEN IdentifyAfterLeaving([e EXCEPT !.left = NoLeft])
  ELSE LET sent == KeyGranting([e EXCEPT !.repeats = @ - 1], "leave", Frame + e.peerIdent,
                     Message("disc", e.left.session, Peer(s), FALSE, 0))
       IN  IF sent.repeats > 0 THEN Arm(sent, "leave", sent.hold)
           ELSE IdentifyAfterLeaving(sent)

Expire(e, s, timer, choice) ==
  CASE timer = "link" ->
         IF e.heardAt + LinkTimeout > now THEN Arm(e, "link", e.heardAt + LinkTimeout)
         ELSE EndSession(e, s, "link timeout", FALSE)
    [] timer = "connect" ->
         IF now < e.hold THEN Arm(e, "connect", e.hold) ELSE RetryConnect(e, s, choice.jitter)
    [] timer = "proceed" -> Proceed(e, s, choice.drained)
    [] timer = "leave"   -> RepeatLeave(e, s)
    [] timer = "ident"   -> SendIdentifier(e)

Take(e, s, timer, choice) ==
  IF Armed(e, timer) /\ Due(e, timer) <= now
  THEN Expire(Disarm(e, timer), s, timer, choice) ELSE e

\* One pass: the timers due, in order; one re-armed on the way is not taken again.
Pass(e, s, choice) ==
  LET order == Order(e)
      passed[n \in 0 .. Len(e.deadlines)] ==
        IF n = 0 THEN e
        ELSE Take(passed[n - 1], s, e.deadlines[order[n]].timer, choice)
  IN  passed[Len(e.deadlines)]

Draws == [jitter : Jitter, drained : BOOLEAN]

-----------------------------------------------------------------------------
(***************************************************************************)
(* What the driver reports.                                                *)
(***************************************************************************)
OnTxDone(e, framesEnd) ==
  LET tx   == Head(e.out)
      done == [e EXCEPT !.out = Tail(@)]
  IN  IF tx.grants /\ e.slot # NoSlot /\ ~e.slot.final
      THEN OpenSlot([done EXCEPT !.slot.final = TRUE], framesEnd) ELSE done

OnTxCutUnread(e) ==
  LET tx  == Head(e.out)
      cut == OweAgain([e EXCEPT !.out = Tail(@)], tx.ident)
      free == [cut EXCEPT !.slot = NoSlot, !.hold = now]
  IN  IF ~(tx.grants /\ e.slot # NoSlot /\ ~e.slot.final) THEN cut
      ELSE IF e.role = "master" /\ Up(e) THEN Arm(free, "proceed", now) ELSE free

OnTxDropped(e) == OweAgain([e EXCEPT !.out = Tail(@)], Head(e.out).ident)

FramesEnd(tx) == tx.start + (IF tx.msg = NoMessage THEN 0 ELSE Frame)
Radiates(s, t) ==
  /\ eng[s].out # <<>> /\ Head(eng[s].out).start # NoTime
  /\ t < FramesEnd(Head(eng[s].out)) + Head(eng[s].out).ident

\* Once the band has closed for a station it neither reads nor hears the other.
Hears(s) == Radiates(Peer(s), now) /\ now < fade[s]

CanStart(s) ==
  /\ eng[s].out # <<>>
  /\ LET tx == Head(eng[s].out)
     IN  /\ tx.start = NoTime /\ now >= tx.from
         /\ tx.until # NoTime => now <= tx.until
         /\ tx.listen => ~Hears(s)

CutUnread(tx) ==
  /\ tx.msg.kind \in {"header", "answer", "disc", "ack"}
  /\ now < tx.start + Unreadable

\* The operator's abort: what is on the air ends here, what waits is dropped.
Flushed(e) ==
  LET on   == e.out # <<>> /\ Head(e.out).start # NoTime
      off  == IF ~on THEN e
              ELSE IF CutUnread(Head(e.out)) THEN OnTxCutUnread(e)
              ELSE OnTxDone(e, FramesEnd(Head(e.out)))
      dropped[n \in 0 .. Len(off.out)] ==
        IF n = 0 THEN off ELSE OnTxDropped(dropped[n - 1])
  IN  dropped[Len(off.out)]

\* Mutant: an aborting master says it once.
AbortOnce(e, s) ==
  LET wasMaster == e.role = "master"
      ended     == EndSession(e, s, "aborted", FALSE)
  IN  IF wasMaster /\ ended.left # NoLeft
      THEN Arm([ended EXCEPT !.repeats = 1], "leave", Max2(now, ended.hold))
      ELSE IF wasMaster THEN IdentifyAfterLeaving(ended) ELSE ended

Abort(e, s) ==
  LET wasMaster == e.role = "master"
      ended     == EndSession(e, s, "aborted", FALSE)
  IN  IF wasMaster /\ ended.left # NoLeft
      THEN Arm([ended EXCEPT !.repeats = LeaveRepeats], "leave", Max2(now, ended.hold))
      ELSE IF wasMaster THEN IdentifyAfterLeaving(ended) ELSE ended

-----------------------------------------------------------------------------
Init ==
  /\ now = 0 /\ session = 0 /\ lost = 0 /\ apart = 0
  /\ eng = [s \in Stations |-> NewEngine]
  /\ air = [s \in Stations |-> {}]
  /\ fade \in [Stations -> Fades]
  /\ said = [s \in Stations |-> [met |-> 0, closed |-> {}]]

\* The session an engine that came up is in; one called again goes on in it.
Met(s, e) ==
  said' = [said EXCEPT ![s].met =
             CASE Up(e) -> e.session
               [] ~Up(e) /\ (e.remote = Peer(s) /\ e.state = "connecting") -> 0
               [] OTHER -> @]

Call(s) ==
  /\ eng[s].state = "idle" /\ session < MaxSession /\ now <= LastCall
  /\ \E remote \in Stations \cup {Other}, jitter \in Jitter :
       /\ <<s, remote>> \in Calls
       /\ eng' = [eng EXCEPT ![s] = Connect(@, s, remote, session + 1, jitter)]
       /\ said' = IF remote = Peer(s) THEN [said EXCEPT ![s].met = 0] ELSE said
  /\ session' = session + 1
  /\ UNCHANGED <<fade, now, air, lost, apart>>

\* Bound: operators leave early, and where the band stays open.
Orders == now <= LastOrder /\ \A s \in Stations : fade[s] > MaxTime

Disconnect(s) ==
  /\ s \in Leavers /\ Orders /\ eng[s].state # "idle" /\ ~eng[s].asked
  /\ eng' = [eng EXCEPT ![s].asked = TRUE, ![s].since = IF @ = NoTime THEN now ELSE @]
  /\ UNCHANGED <<fade, now, air, session, said, lost, apart>>

OperatorAborts(s) ==
  /\ s \in Aborters /\ Orders /\ eng[s].state # "idle"
  /\ eng' = [eng EXCEPT ![s] = Abort(Flushed(@), s)]
  /\ LET tx == Head(eng[s].out)
     IN  air' = IF eng[s].out # <<>> /\ tx.start # NoTime /\ (CutUnread(tx) \/ now = tx.start)
                THEN [air EXCEPT ![Peer(s)] = {f \in @ : f.start # tx.start}]
                ELSE air
  /\ UNCHANGED <<fade, now, session, said, lost, apart>>

\* A frame is heard by a station that is not itself on the air.
Radiate(s) ==
  /\ CanStart(s)
  /\ LET tx == Head(eng[s].out)
         f  == [msg |-> tx.msg, start |-> now, end |-> now + Frame]
     IN  /\ eng' = [eng EXCEPT ![s].out[1].start = now]
         /\ air' = [air EXCEPT
                      ![s] = {g \in @ : g.end <= now},
                      ![Peer(s)] = IF \/ tx.msg = NoMessage \/ Radiates(Peer(s), now)
                                      \/ now >= fade[Peer(s)]
                                   THEN @ ELSE @ \cup {f}]
         /\ said' = IF tx.ident = 0 THEN said
                    ELSE [said EXCEPT ![s].closed = @ \cup
                            {IF tx.msg = NoMessage THEN said[s].met ELSE tx.msg.session}]
  /\ UNCHANGED <<fade, now, session, lost, apart>>

TxDone(s) ==
  /\ eng[s].out # <<>> /\ Head(eng[s].out).start # NoTime /\ ~Radiates(s, now)
  /\ eng' = [eng EXCEPT ![s] = OnTxDone(@, FramesEnd(Head(@.out)))]
  /\ UNCHANGED <<fade, now, air, session, said, lost, apart>>

\* The keying gate lets a slot pass.
TxDropped(s) ==
  /\ eng[s].out # <<>>
  /\ Head(eng[s].out).start = NoTime /\ Head(eng[s].out).until # NoTime
  /\ now >= Head(eng[s].out).from
  /\ lost < MaxLost /\ lost' = lost + 1
  /\ eng' = [eng EXCEPT ![s] = OnTxDropped(@)]
  /\ UNCHANGED <<fade, now, air, session, said, apart>>

\* A frame is read in order; those before it are lost.
Read(s) ==
  \E f \in air[s] :
    /\ f.end <= now
    /\ lost' = lost + Cardinality({g \in air[s] : g.start < f.start}) /\ lost' <= MaxLost
    /\ eng' = [eng EXCEPT ![s] = OnFrame(@, s, f)]
    /\ air' = [air EXCEPT ![s] = {g \in @ : g.start > f.start}]
    /\ Met(s, eng'[s])
    /\ UNCHANGED <<fade, now, session, apart>>

DueNow(s) == \E i \in DOMAIN eng[s].deadlines : eng[s].deadlines[i].due <= now

RunTimers(s) ==
  /\ DueNow(s)
  /\ \E choice \in Draws : eng' = [eng EXCEPT ![s] = Pass(@, s, choice)]
  /\ UNCHANGED <<fade, now, air, session, said, lost, apart>>

\* In a session the other station was in and has left.
LeftBehind(s) ==
  /\ Up(eng[s]) /\ said[Peer(s)].met = eng[s].session
  /\ eng[Peer(s)].state = "idle" \/ eng[Peer(s)].session # eng[s].session

\* A timer is due, a transmission over, the driver's next one to be keyed, or
\* its slot past.
MustAct(s) ==
  \/ DueNow(s)
  \/ /\ eng[s].out # <<>>
     /\ LET tx == Head(eng[s].out)
        IN  IF tx.start # NoTime THEN ~Radiates(s, now)
            ELSE IF tx.until # NoTime THEN now >= tx.until
            ELSE ~(tx.listen /\ Hears(s))

\* Everything due has been done; frames nobody read in time are lost.
Tick ==
  /\ now < MaxTime
  /\ \A s \in Stations : ~MustAct(s)
  /\ now' = now + 1
  /\ air' = [s \in Stations |-> {f \in air[s] : now < f.end + ReadDelay}]
  /\ lost' = lost + Cardinality(UNION {{s} \X (air[s] \ air'[s]) : s \in Stations})
  /\ lost' <= MaxLost
  /\ apart' = IF \E s \in Stations : LeftBehind(s) THEN apart + 1 ELSE 0
  /\ UNCHANGED <<fade, eng, session, said>>

Next ==
  \/ Tick
  \/ \E s \in Stations :
       \/ Call(s) \/ Disconnect(s) \/ OperatorAborts(s)
       \/ Radiate(s) \/ TxDone(s) \/ TxDropped(s) \/ Read(s) \/ RunTimers(s)

Spec == Init /\ [][Next]_vars

-----------------------------------------------------------------------------
(***************************************************************************)
(* Properties.                                                             *)
(***************************************************************************)
Kinds == {"none", "call", "accept", "header", "answer", "disc", "ack"}
Numbers == 0 .. MaxSession

\* The engines' states, roles and clocks; at most one armed time per timer.
TypeOK ==
  /\ now \in 0 .. MaxTime /\ session \in Numbers /\ lost \in 0 .. MaxLost /\ apart \in Nat
  /\ \A s \in Stations :
       LET e == eng[s]
       IN  /\ e.state \in {"idle", "connecting", "connected", "disconnecting"}
           /\ e.role \in {"none", "master", "slave"}
           /\ e.role # "none" <=> Up(e)
           /\ e.session \in Numbers /\ e.remote \in Stations \cup {Other}
           /\ e.hold \in Nat /\ e.owed \in {0, Ident[s]} /\ e.peerIdent \in {0, Ident[Peer(s)]}
           /\ e.tries \in 0 .. ConnectRetries /\ e.discTries \in 0 .. DiscRetries
           /\ e.silent \in 0 .. MaxRetries /\ e.repeats \in 0 .. LeaveRepeats
           /\ \A i, j \in DOMAIN e.deadlines :
                e.deadlines[i].timer \in Timers
                /\ (i # j => e.deadlines[i].timer # e.deadlines[j].timer)
           /\ \A f \in air[s] : f.msg.kind \in Kinds

\* Simultaneous calls, calls again and late frames never leave two masters, or a
\* master and a slave that are in different sessions.
BothUp == \A s \in Stations : Up(eng[s])
OneMaster ==
  BothUp => /\ \E s \in Stations : eng[s].role # "master"
            /\ \A s \in Stations : eng[s].role # eng[Peer(s)].role =>
                                     eng[s].session = eng[Peer(s)].session

\* Nor two slaves, each waiting for the other to key.
SomeMaster == BothUp => \E s \in Stations : eng[s].role = "master"

\* Whatever a station waits for, a timer ends the wait: a call, a session, a
\* master's slot.
WaitIsTimed ==
  \A s \in Stations :
    /\ eng[s].state = "connecting" => Armed(eng[s], "connect")
    /\ Up(eng[s]) => Armed(eng[s], "link")
    /\ eng[s].role = "master" => Armed(eng[s], "proceed")

\* An idle station that owes its identifier has a timer that sends it.
IdentPlaced ==
  \A s \in Stations :
    eng[s].state = "idle" /\ eng[s].owed > 0 =>
      Armed(eng[s], "ident") \/ Armed(eng[s], "leave")

\* A session that came up ends with the station's identifier, unless the two go
\* on in another: sent, on its way, or owed; or the other is calling again.
EveryEndIdentified ==
  \A s \in Stations :
    \/ Ident[s] = 0 \/ eng[s].state # "idle" \/ said[s].met = 0
    \/ said[s].met \in said[s].closed \/ eng[s].owed > 0
    \/ \E i \in DOMAIN eng[s].out : eng[s].out[i].ident > 0
    \/ eng[Peer(s)].state = "connecting" /\ eng[Peer(s)].remote = s

Closed == \E s \in Stations : now >= fade[s]

\* An identifier that did not listen first has the channel to itself while the
\* band is open: it is in a granted slot, or after one that can no longer be in
\* use, and the other station starts nothing meanwhile.
OnAir(s) == Radiates(s, now)
IdentApart ==
  \A s \in Stations :
    OnAir(s) /\ OnAir(Peer(s)) =>
      LET tx == Head(eng[s].out)
      IN  tx.ident > 0 => tx.listen \/ Closed

\* The closing identifiers never meet, also where the band has closed and a
\* station that listens first hears nothing.
Identifying(s) == OnAir(s) /\ Head(eng[s].out).ident > 0
NeverMeet == \E s \in Stations : ~Identifying(s)

\* One station leaves, the other follows, while it can hear it: within four
\* exchanges and one more for every frame lost, long before either's link timeout.
Period == 2 * Frame + Gap + Slack + Wait
EndTogether == Closed \/ apart <= (4 + MaxLost) * Period

\* A call to another station waits for the identifier the last session owes.
IdentFirst ==
  [][\A s \in Stations :
       eng'[s].tries > eng[s].tries /\ eng'[s].state = "connecting" => eng'[s].owed = 0]_vars
=============================================================================
