------------------------------ MODULE SlotTiming ------------------------------
(***************************************************************************)
(* The granted slots of a session: when the master and the slave may key.  *)
(*                                                                         *)
(* Two link engines (core/aether-link/src/granted.rs) and the keying gate  *)
(* of each one's daemon share one frequency.  The master transmits; each   *)
(* transmission grants the slave one slot; the slave keys in it or not at  *)
(* all; the master keys again once the slot can no longer be in use.  The  *)
(* model keeps every clock comparison of the two engines.  What a frame    *)
(* carries besides timing (data, acknowledgements, readings) is in other   *)
(* modules; what the engine decides from it (the level, the families, the  *)
(* sizes) is any value here, so the results hold for every policy.         *)
(*                                                                         *)
(* Time is an integer number of ticks on a clock both stations share.      *)
(* Nothing is urgent except what KeyDelay and ReportDelay bound: a decode  *)
(* may reach an engine, and a timer may fire, arbitrarily late.            *)
(***************************************************************************)
EXTENDS Integers

CONSTANTS
  Budget,           \* [Families -> Nat]: DECODE_BUDGET_S
  Key,              \* KEY_S
  Guard,            \* GUARD_S
  Slack,            \* SLACK_S
  LevelGap,         \* [Levels -> Nat]: LEVELS_S
  MaxLevel,         \* the highest gap level
  Control,          \* [Families -> Nat]: air time of a control frame
  Unreadable,       \* [Families -> Nat]: HEADER_UNDECODABLE_SHARE of it
  Frame,            \* [Families -> Nat]: air time of a data frame
  OpenWindow,       \* [Families -> Nat]: OPEN_WINDOW_S
  MaxData,          \* data frames in one transmission
  MaxFollows,       \* the count that means "this many or more follow"
  MaxRetries,       \* silent slots in a row before the session ends
  MasterTurnaround, \* the master radio's turnaround, as it is configured
  MasterDeclared,   \* the same, as its connect body says it
  Step,             \* the step the connect body rounds a turnaround up to
  SlaveDeclared,    \* the slave's turnaround, as its connect body says it
  AnswerGap,        \* the master's answer gap
  MasterLatency,    \* from keying to radiation, the least the engine knows of
  SlaveLatency,
  KeyDelay,         \* how much later than that the master may radiate
  ReportDelay,      \* from its frames' end to on_tx_done reaching the engine
  Policies,         \* what send_header may decide: a subset of AllPolicies
  Choices,          \* what the slave may have to say: a subset of AllChoices
  MaxTime           \* the last tick TLC explores

Families == {"ordinary", "floor"}
Levels == 0 .. MaxLevel
Index == 0 .. 1                      \* window_doublings = 1

Max2(a, b) == IF a >= b THEN a ELSE b
Min2(a, b) == IF a <= b THEN a ELSE b

Air(n, f) == n * Frame[f]
Fit(room, f) == room \div Frame[f]
Window(f, index) == IF index = 0 THEN OpenWindow[f] ELSE 2 * OpenWindow[f]
LongestControl(fs) == IF "floor" \in fs THEN Control["floor"] ELSE Control["ordinary"]

ASSUME ClockAssumption ==
  /\ Budget \in [Families -> Nat]
  /\ Key \in Nat /\ Guard \in Nat /\ Slack \in Nat
  /\ MaxLevel \in Nat
  /\ LevelGap \in [Levels -> Nat]
  /\ LevelGap[0] = 0
  /\ MasterLatency \in Nat /\ SlaveLatency \in Nat
  /\ KeyDelay \in Nat /\ ReportDelay \in Nat
  /\ AnswerGap \in Nat

ASSUME FrameAssumption ==
  /\ Control \in [Families -> Nat \ {0}]
  /\ Control["ordinary"] <= Control["floor"]
  /\ Frame \in [Families -> Nat \ {0}]
  /\ Unreadable \in [Families -> Nat]
  /\ \A f \in Families : Unreadable[f] <= Control[f]
  /\ OpenWindow \in [Families -> Nat \ {0}]
  /\ MaxData \in Nat /\ MaxFollows \in Nat \ {0} /\ MaxRetries \in Nat

\* frames.rs rounds a turnaround up to Step; settings.rs keeps it in range.
\* What the rounding adds must fit in what the master waits past a slot.
ASSUME TurnaroundAssumption ==
  /\ MasterTurnaround \in Nat /\ MasterDeclared \in Nat /\ SlaveDeclared \in Nat
  /\ Step \in Nat \ {0}
  /\ MasterTurnaround <= MasterDeclared
  /\ MasterDeclared < MasterTurnaround + Step
  /\ \A f \in Families : Step <= Budget[f] + Guard

\* The driver reports a transmission done before the slot reckoned from the
\* engine's estimate of its end could begin.
ASSUME DriverAssumption ==
  \A f \in Families : KeyDelay + ReportDelay < Budget[f] + Key + Guard

\* What send_header decides: the size and family of the grant, an open window
\* and its index, the level, the families of header and answer, the data it
\* carries, no header.
AllPolicies ==
  [n : 0 .. MaxData, flag : BOOLEAN, index : Index, level : Levels,
   wanted : Families, sized : Families, hdrFloor : Families,
   count : 0 .. MaxData, dataFloor : Families, elide : BOOLEAN]

\* What the rest of the slave's engine decides: data for k frames of family g
\* queued, and whether there is anything to say in an open window.
AllChoices == [k : 0 .. MaxData, g : Families, work : BOOLEAN]

ASSUME PolicyAssumption ==
  Policies \subseteq AllPolicies /\ Choices \subseteq AllChoices

-----------------------------------------------------------------------------
NoTime == -1

NoCtl == [level |-> 0, n |-> 0, flag |-> FALSE, index |-> 0,
          fam |-> "ordinary", slotFloor |-> "ordinary"]
NoPlan == [opener |-> FALSE, floor |-> "ordinary", count |-> 0,
           dataFloor |-> "ordinary", ctl |-> NoCtl]
NoTx == [phase |-> "idle", ready |-> 0, notBefore |-> 0, notAfter |-> NoTime,
         start |-> 0, end |-> 0, plan |-> NoPlan]

\* A transmission handed over, to radiate between two bounds.
Handed(ready, notBefore, notAfter, end, plan) ==
  [phase |-> "wait", ready |-> ready, notBefore |-> notBefore, notAfter |-> notAfter,
   start |-> 0, end |-> end, plan |-> plan]

NoSlot == [on |-> FALSE, final |-> FALSE, txEnd |-> 0, start |-> 0, endMax |-> 0,
           grant |-> 0, lastFloor |-> "ordinary", level |-> 0, window |-> FALSE,
           answerFloors |-> {}, heard |-> FALSE, stated |-> NoTime,
           statedFloor |-> "ordinary"]
\* The slot a transmission grants, before that transmission's end is known.
NewSlot(grant, level, window, lastFloor, answerFloors) ==
  [on |-> TRUE, final |-> FALSE, txEnd |-> 0, start |-> 0, endMax |-> 0,
   grant |-> grant, lastFloor |-> lastFloor, level |-> level, window |-> window,
   answerFloors |-> answerFloors, heard |-> FALSE, stated |-> NoTime,
   statedFloor |-> "ordinary"]
NoGrant == [on |-> FALSE, floor |-> "ordinary", ctl |-> NoCtl]
NoGrid == [on |-> FALSE, t0 |-> 0, count |-> 0, floor |-> "ordinary"]
NoAnswer == [what |-> "none", start |-> 0, notAfter |-> 0, floor |-> "ordinary",
             anchor |-> 0, room |-> 0]
NoWindow == [on |-> FALSE, start |-> 0, end |-> 0, floor |-> "ordinary"]

VARIABLES
  now,       \* the clock
  master,    \* [slot, proceed, tx, possible, peerLate, silent, up]; tx keeps the
             \* last transmission once it is over
  slave,     \* [mEnd, mLast, grant, sticky, answered, answer, window, grid, rx, tx]
  toSlave,   \* frames the master radiated the slave may still read
  toMaster   \* frames the slave radiated the master may still read

vars == <<now, master, slave, toSlave, toMaster>>

-----------------------------------------------------------------------------
\* What both engines reckon.

SlotStart(end, floor, level, turnaround) ==
  end + Max2(Budget[floor] + Key, turnaround) + Guard + LevelGap[level]

\* Mutant: the slave's turnaround forgotten.
AfterBudget(end, floor) == end + Budget[floor] + Guard

After(end, floor) ==
  end + Max2(Budget[floor], Max2(SlaveDeclared, AnswerGap) - Min2(Key, MasterLatency))
      + Guard

AirTime(plan) ==
  (IF plan.opener THEN Control[plan.floor] ELSE 0) + Air(plan.count, plan.dataFloor)

\* Mutant: the data frames left out of the reckoning.
EstimateOfHeader(t, plan) == t + MasterLatency + Control[plan.floor]

\* Where the engine reckons a transmission it hands over at t will end.
Estimate(t, plan) == t + MasterLatency + AirTime(plan)

Follows(count, i) == Min2(count - 1 - i, MaxFollows)

\* The frames of a transmission that begins at `at': its control frame, if it
\* has one, and its data frames, each saying how many follow it.
FramesOf(plan, at) ==
  LET data == at + IF plan.opener THEN Control[plan.floor] ELSE 0
      control == [kind |-> "control", tStart |-> at, tEnd |-> data,
                  floor |-> plan.floor, count |-> plan.count,
                  dataFloor |-> plan.dataFloor, ctl |-> plan.ctl]
  IN  (IF plan.opener THEN {control} ELSE {})
      \cup
      {[kind |-> "data", tStart |-> data + Air(i, plan.dataFloor),
        tEnd |-> data + Air(i + 1, plan.dataFloor), floor |-> plan.dataFloor,
        follows |-> Follows(plan.count, i)] : i \in 0 .. (plan.count - 1)}

\* What a receiver may read of a data frame's count: the count itself when
\* the copy decoded alone, anything when HARQ rescued the block.
ReadCounts(f, outcome) ==
  IF outcome = "rescued" THEN 0 .. MaxFollows ELSE {f.follows}

\* A receiver reports frames in the order they were on the air (stream.rs
\* feed): what it has not read when it reads a later frame is lost.
Unread(frames, f) == {x \in frames : x.tStart > f.tStart}

\* Mutant: the count of a rescued copy believed.
BelievedRescued(outcome, read) == outcome # "undecoded" /\ read < MaxFollows

Believed(outcome, read) == outcome = "alone" /\ read < MaxFollows

-----------------------------------------------------------------------------
\* The master.

SlotClose(m) ==
  IF m.slot.stated # NoTime
  THEN After(m.slot.stated, m.slot.statedFloor)
  ELSE After(m.slot.endMax + m.peerLate,
             IF "floor" \in m.slot.answerFloors THEN "floor" ELSE "ordinary")

ArmWait(m, t) == [m EXCEPT !.proceed = Max2(t, SlotClose(m))]

OpenSlot(m, t, end) ==
  LET start == SlotStart(end, m.slot.lastFloor, m.slot.level, MasterTurnaround)
      endMax == start + m.slot.grant + IF m.slot.window THEN 0 ELSE Slack
  IN  ArmWait([m EXCEPT !.slot.txEnd = end, !.slot.start = start,
                        !.slot.endMax = endMax], t)

InSlot(m, f) == m.slot.on /\ m.slot.final /\ f.tStart >= m.slot.txEnd

StateEnd(m, t, end, floor) ==
  LET latest == m.slot.stated = NoTime \/ end >= m.slot.stated
  IN  ArmWait([m EXCEPT !.slot.heard = TRUE,
                        !.slot.stated = IF latest THEN end ELSE @,
                        !.slot.statedFloor = IF latest THEN floor ELSE @], t)

CloseSlot(m) ==
  LET silent == CASE ~m.slot.on -> m.silent
                  [] m.slot.on /\ m.slot.heard -> 0
                  [] m.slot.on /\ ~m.slot.heard /\ m.slot.window -> m.silent
                  [] OTHER -> m.silent + 1
  IN  [m EXCEPT !.slot = NoSlot, !.silent = silent, !.proceed = NoTime,
                !.up = silent <= MaxRetries]

MayElide(m, p) ==
  /\ ~p.flag
  /\ p.n = 0
  /\ m.silent = 0
  /\ p.level = 0
  /\ m.possible = {p.wanted}
  /\ p.count > 0
  /\ p.count <= MaxFollows + 1

Allowed(m, p) ==
  /\ p.flag => p.n = 0 /\ p.count = 0
  /\ ~p.flag => p.index = 0
  /\ p.elide => MayElide(m, p)

\* Mutant: the header reckoned read as soon as it is sent.
HoldsAsked(m, p) == {p.wanted}

\* The families the slave may hold for its answer once this is sent.
Holds(m, p) == IF p.elide THEN m.possible ELSE m.possible \cup {p.wanted}

SendHeader(m, t, p) ==
  LET possible == Holds(m, p)
      answers == possible \cup {p.wanted}
      grant == IF p.flag THEN Window(p.hdrFloor, p.index)
               ELSE LongestControl(answers) + Air(p.n, p.sized)
      ctl == [level |-> p.level, n |-> p.n, flag |-> p.flag, index |-> p.index,
              fam |-> p.wanted, slotFloor |-> p.sized]
      plan == [opener |-> ~p.elide, floor |-> p.hdrFloor, count |-> p.count,
               dataFloor |-> p.dataFloor, ctl |-> ctl]
      slot == NewSlot(grant, p.level, p.flag,
                      IF p.count > 0 THEN p.dataFloor ELSE p.hdrFloor,
                      IF p.n > 0 /\ ~p.flag THEN answers \cup {p.sized} ELSE answers)
      tx == Handed(t + MasterLatency, 0, NoTime, 0, plan)
  IN  OpenSlot([m EXCEPT !.slot = slot, !.tx = tx, !.possible = possible], t,
               Estimate(t, plan))

\* Mutant: an early answer moves the estimate below nothing.
LatenessUnclamped(m, late) ==
  IF m.slot.window THEN m.peerLate
  ELSE IF late > m.peerLate THEN late ELSE Max2(late, m.peerLate - 1)

\* What the master adds to a slot for a slave that has answered late: up at
\* once, down slowly, never below nothing.
Lateness(m, late) ==
  IF m.slot.window THEN m.peerLate
  ELSE IF late > m.peerLate THEN late
  ELSE Max2(Max2(0, late), m.peerLate - 1)

\* An answer the master reads: `Answer' of master_control.
TakeAnswer(m, t, f) ==
  LET peerLate == Lateness(m, f.tStart - m.slot.start - Slack)
      last == IF f.count > 0 THEN f.dataFloor ELSE f.floor
  IN  StateEnd([m EXCEPT !.peerLate = peerLate, !.possible = {f.floor}], t,
               f.tEnd + Air(f.count, f.dataFloor), last)

\* A data frame of the slave's that decoded: master_data.
TakeData(m, t, f, outcome, read) ==
  IF Believed(outcome, read)
  THEN StateEnd(m, t, f.tEnd + read * (f.tEnd - f.tStart), f.floor)
  ELSE [m EXCEPT !.slot.heard = TRUE]

-----------------------------------------------------------------------------
\* The slave.  Each operator is one function of the engine; a handler is the
\* composition the code makes of them.

RestartRx(s) == [s EXCEPT !.rx = {}, !.grid = NoGrid]

\* Mutant: the last header's grant outlives its transmission.
NextKeepsGrant(s) ==
  [RestartRx(s) EXCEPT !.mEnd = NoTime, !.window = NoWindow, !.answer = NoAnswer]

NextTransmission(s) ==
  [RestartRx(s) EXCEPT !.grant = NoGrant, !.mEnd = NoTime, !.window = NoWindow,
                       !.answer = NoAnswer]

\* placed: a frame of a transmission answered already, or an undecoded frame
\* past one still owed its answer.
Refused(s, f, decoded) ==
  \/ s.answered # NoTime /\ f.tEnd <= s.answered
  \/ s.mEnd # NoTime /\ f.tStart >= s.mEnd /\ s.answered # s.mEnd /\ ~decoded

Placed(s, f) ==
  IF s.mEnd # NoTime /\ f.tStart >= s.mEnd THEN NextTransmission(s) ELSE s

TooLate(t, start) == t > start - SlaveLatency + Slack

Forfeit(s, anchor) == [RestartRx(s) EXCEPT !.answered = anchor]

\* Mutant: the whole window to start in, not to end in.
StartsInWindow(end, plan) == end

EndsInWindow(end, plan) == end - AirTime(plan)

\* An answer and as many of the data frames queued as the room holds.  An
\* answer in an open window must end inside it (`windowEnd').
SendAnswer(s, t, c, floor, room, notBefore, notAfter, windowEnd) ==
  LET plan == [opener |-> TRUE, floor |-> floor,
               count |-> Min2(c.k, Fit(room, c.g)), dataFloor |-> c.g, ctl |-> NoCtl]
      latest == IF windowEnd # NoTime THEN EndsInWindow(windowEnd, plan) ELSE notAfter
  IN  [RestartRx(s) EXCEPT
         !.tx = Handed(t + SlaveLatency, notBefore, latest, s.tx.end, plan)]

\* Mutant: a window still open once it was used.
UsedOpen(s) == [s EXCEPT !.answered = s.mEnd]

Used(s) == [s EXCEPT !.window = NoWindow, !.answered = s.mEnd]

TryWindow(s, t, c) ==
  LET w == s.window
      onAir == t + SlaveLatency
      room == w.end - onAir - Control[w.floor]
  IN  CASE ~w.on -> s
        [] w.on /\ onAir < w.start ->
             [s EXCEPT !.answer = [what |-> "Window", start |-> w.start,
                                   notAfter |-> w.end, floor |-> w.floor,
                                   anchor |-> 0, room |-> 0]]
        [] w.on /\ onAir >= w.start /\ c.work /\ room >= 0 ->
             SendAnswer(Used(s), t, c, w.floor, room, 0, NoTime, w.end)
        [] OTHER -> s

KeyAnswer(s, t, c) ==
  LET a == s.answer
      free == [s EXCEPT !.answer = NoAnswer]
  IN  CASE a.what = "none" -> s
        [] a.what = "Window" -> TryWindow(free, t, c)
        [] a.what = "Ans" /\ TooLate(t, a.start) -> Forfeit(free, a.anchor)
        [] OTHER -> SendAnswer([free EXCEPT !.answered = a.anchor], t, c, a.floor,
                               a.room, a.start, a.notAfter, NoTime)

OnGrid(grid, x) ==
  \E k \in 0 .. (grid.count - 1) : x = grid.t0 + Air(k, grid.floor)

HeardAll(s) ==
  /\ s.grid.on
  /\ s.grant.on
  /\ \A k \in 0 .. (s.grid.count - 1) : (s.grid.t0 + Air(k, s.grid.floor)) \in s.rx

DecideIfFinal(s, t, c) ==
  IF s.answer.what = "Ans" /\ HeardAll(s) THEN KeyAnswer(s, t, c) ELSE s

Schedule(s, t, c, a) ==
  IF TooLate(t, a.start) THEN Forfeit(s, a.anchor)
  ELSE DecideIfFinal([s EXCEPT !.answer = a], t, c)

\* The slot of the transmission being received.  Without that transmission's
\* own header: level 0, an answer alone, the family last asked for.
ScheduleSlave(s, t, c) ==
  LET g == s.grant
      level == IF g.on THEN g.ctl.level ELSE 0
      start == SlotStart(s.mEnd, s.mLast, level, MasterDeclared)
      window == [on |-> TRUE, start |-> start,
                 end |-> start + Window(g.floor, g.ctl.index), floor |-> s.sticky]
      opened == [s EXCEPT !.window = window, !.answer = NoAnswer]
      answer == [what |-> "Ans", start |-> start, notAfter |-> start + Slack,
                 floor |-> s.sticky, anchor |-> s.mEnd,
                 room |-> IF g.on THEN Air(g.ctl.n, g.ctl.slotFloor) ELSE 0]
  IN  CASE s.mEnd = s.answered -> s
        [] s.mEnd # s.answered /\ g.on /\ g.ctl.flag ->
             IF c.work THEN TryWindow(opened, t, c) ELSE opened
        [] OTHER -> Schedule([s EXCEPT !.window = NoWindow], t, c, answer)

\* slave_control, of a header.
TakeHeader(s, t, c, f) ==
  IF Refused(s, f, TRUE) THEN s
  ELSE LET p == Placed(s, f)
           grid == [on |-> TRUE, t0 |-> f.tEnd, count |-> f.count, floor |-> f.dataFloor]
       IN  ScheduleSlave(
             [p EXCEPT !.grid = grid,
                       !.rx = {x \in p.rx : OnGrid(grid, x)},
                       !.sticky = f.ctl.fam,
                       !.grant = [on |-> TRUE, floor |-> f.floor, ctl |-> f.ctl],
                       !.mEnd = f.tEnd + Air(f.count, f.dataFloor),
                       !.mLast = IF f.count > 0 THEN f.dataFloor ELSE f.floor],
             t, c)

\* slave_data: a data frame that decoded alone, was rescued, or did not decode.
TakeCopy(s, t, c, f, outcome, read) ==
  IF Refused(s, f, outcome # "undecoded") THEN s
  ELSE LET p == Placed(s, f)
           counted == outcome # "undecoded" \/ ~p.grid.on \/ OnGrid(p.grid, f.tStart)
           q == IF counted THEN [p EXCEPT !.rx = @ \cup {f.tStart}] ELSE p
           anchored == [q EXCEPT !.mEnd = f.tEnd + read * (f.tEnd - f.tStart),
                                 !.mLast = f.floor]
       IN  DecideIfFinal(
             IF q.mEnd = NoTime /\ Believed(outcome, read)
             THEN ScheduleSlave(anchored, t, c) ELSE q,
             t, c)

-----------------------------------------------------------------------------
Init ==
  \E f \in Families :
    /\ now = 0
    /\ master = [slot |-> NoSlot, proceed |-> 0, tx |-> NoTx, possible |-> {f},
                 peerLate |-> 0, silent |-> 0, up |-> TRUE]
    /\ slave = [mEnd |-> NoTime, mLast |-> f, grant |-> NoGrant, sticky |-> f,
                answered |-> NoTime, answer |-> NoAnswer, window |-> NoWindow,
                grid |-> NoGrid, rx |-> {}, tx |-> NoTx]
    /\ toSlave = {}
    /\ toMaster = {}

\* Time passes, except past a bound of the driver's.
Tick ==
  /\ now < MaxTime
  /\ master.tx.phase = "wait" => now < master.tx.ready + KeyDelay
  /\ master.tx.phase = "air" => now < master.tx.end + ReportDelay
  /\ now' = now + 1
  /\ UNCHANGED <<master, slave, toSlave, toMaster>>

Proceed ==
  /\ master.up
  /\ master.tx.phase = "idle"
  /\ master.proceed # NoTime
  /\ now >= master.proceed
  /\ LET closed == CloseSlot(master)
     IN  \/ ~closed.up /\ master' = closed
         \/ /\ closed.up
            /\ \E p \in Policies :
                 Allowed(closed, p) /\ master' = SendHeader(closed, now, p)
  /\ UNCHANGED <<now, slave, toSlave, toMaster>>

MasterRadiates ==
  /\ master.tx.phase = "wait"
  /\ now >= master.tx.ready
  /\ master' = [master EXCEPT !.tx.phase = "air", !.tx.start = now,
                              !.tx.end = now + AirTime(master.tx.plan)]
  /\ toSlave' = toSlave \cup FramesOf(master.tx.plan, now)
  /\ UNCHANGED <<now, slave, toMaster>>

MasterTxDone ==
  /\ master.tx.phase = "air"
  /\ now >= master.tx.end
  /\ master' = OpenSlot([master EXCEPT !.tx.phase = "idle", !.slot.final = TRUE],
                        now, master.tx.end)
  /\ UNCHANGED <<now, slave, toSlave, toMaster>>

\* The key watchdog cuts the transmission before its header can be read ...
MasterCutUnread ==
  /\ master.tx.phase = "air"
  /\ master.tx.plan.opener
  /\ now < master.tx.start + Unreadable[master.tx.plan.floor]
  /\ master' = [master EXCEPT !.tx.phase = "idle", !.slot = NoSlot, !.proceed = now]
  /\ toSlave' = {f \in toSlave : f.tStart < master.tx.start}
  /\ UNCHANGED <<now, slave, toMaster>>

\* ... or later: the frames not begun are not radiated, the slot stays where
\* the header said.
MasterCutRead ==
  /\ master.tx.phase = "air"
  /\ now < master.tx.end
  /\ master.tx.plan.opener => now >= master.tx.start + Unreadable[master.tx.plan.floor]
  /\ master' = OpenSlot([master EXCEPT !.tx.phase = "idle", !.slot.final = TRUE],
                        now, master.tx.end)
  /\ toSlave' = {f \in toSlave : f.tStart < now}
  /\ UNCHANGED <<now, slave, toMaster>>

MasterReadsAnswer(f) ==
  /\ f.kind = "control"
  /\ master' = IF InSlot(master, f) THEN TakeAnswer(master, now, f) ELSE master

MasterReadsData(f) ==
  /\ f.kind = "data"
  /\ \E outcome \in {"alone", "rescued"} : \E read \in ReadCounts(f, outcome) :
       master' = IF InSlot(master, f) THEN TakeData(master, now, f, outcome, read)
                 ELSE master

MasterReads ==
  \E f \in toMaster :
    /\ now >= f.tEnd
    /\ MasterReadsAnswer(f) \/ MasterReadsData(f)
    /\ toMaster' = Unread(toMaster, f)
    /\ UNCHANGED <<now, slave, toSlave>>

SlaveReadsHeader(f, c) ==
  /\ f.kind = "control"
  /\ slave' = TakeHeader(slave, now, c, f)

SlaveReadsData(f, c) ==
  /\ f.kind = "data"
  /\ \E outcome \in {"alone", "rescued", "undecoded"} :
       \E read \in ReadCounts(f, outcome) :
         slave' = TakeCopy(slave, now, c, f, outcome, read)

\* The keying gate settles a transmission that is over, or past its slack,
\* before the engine is given anything else.
GateSettled ==
  /\ slave.tx.phase = "wait" => now <= slave.tx.notAfter
  /\ slave.tx.phase = "air" => now < slave.tx.end

SlaveReads ==
  /\ GateSettled
  /\ \E f \in toSlave, c \in Choices :
       /\ now >= f.tEnd
       /\ SlaveReadsHeader(f, c) \/ SlaveReadsData(f, c)
       /\ toSlave' = Unread(toSlave, f)
  /\ UNCHANGED <<now, master, toMaster>>

SlaveAnswerTimer ==
  /\ GateSettled
  /\ slave.answer.what # "none"
  /\ now >= slave.answer.start - SlaveLatency
  /\ \E c \in Choices : slave' = KeyAnswer(slave, now, c)
  /\ UNCHANGED <<now, master, toSlave, toMaster>>

\* The host gives the slave something to say while a window is open.
SlaveSend ==
  /\ GateSettled
  /\ slave.window.on
  /\ \E c \in Choices : c.work /\ slave' = TryWindow(slave, now, c)
  /\ UNCHANGED <<now, master, toSlave, toMaster>>

SlaveRadiates ==
  /\ slave.tx.phase = "wait"
  /\ now >= slave.tx.ready
  /\ now >= slave.tx.notBefore
  /\ now <= slave.tx.notAfter
  /\ slave' = [slave EXCEPT !.tx.phase = "air", !.tx.start = now,
                            !.tx.end = now + AirTime(slave.tx.plan)]
  /\ toMaster' = toMaster \cup FramesOf(slave.tx.plan, now)
  /\ UNCHANGED <<now, master, toSlave>>

SlaveDropped ==
  /\ slave.tx.phase = "wait"
  /\ slave' = [slave EXCEPT !.tx = [NoTx EXCEPT !.end = slave.tx.end]]
  /\ UNCHANGED <<now, master, toSlave, toMaster>>

SlaveTxDone ==
  /\ slave.tx.phase = "air"
  /\ now >= slave.tx.end
  /\ slave' = [slave EXCEPT !.tx.phase = "idle"]
  /\ UNCHANGED <<now, master, toSlave, toMaster>>

Next ==
  \/ Tick
  \/ Proceed
  \/ MasterRadiates
  \/ MasterTxDone
  \/ MasterCutUnread
  \/ MasterCutRead
  \/ MasterReads
  \/ SlaveReads
  \/ SlaveAnswerTimer
  \/ SlaveSend
  \/ SlaveRadiates
  \/ SlaveDropped
  \/ SlaveTxDone

Spec == Init /\ [][Next]_vars

-----------------------------------------------------------------------------
MaybeTime == Nat \cup {NoTime}
Headers == [level : Levels, n : 0 .. MaxData, flag : BOOLEAN, index : Index,
            fam : Families, slotFloor : Families]
Plans == [opener : BOOLEAN, floor : Families, count : 0 .. MaxData,
          dataFloor : Families, ctl : Headers]
Transmissions == [phase : {"idle", "wait", "air"}, ready : Nat, notBefore : Nat,
                  notAfter : Int, start : Nat, end : Nat, plan : Plans]
Slots == [on : BOOLEAN, final : BOOLEAN, txEnd : Nat, start : Nat, endMax : Nat,
          grant : Nat, lastFloor : Families, level : Levels, window : BOOLEAN,
          answerFloors : SUBSET Families, heard : BOOLEAN, stated : MaybeTime,
          statedFloor : Families]
Masters == [slot : Slots, proceed : MaybeTime, tx : Transmissions,
            possible : SUBSET Families, peerLate : Nat,
            silent : 0 .. (MaxRetries + 1), up : BOOLEAN]
Slaves == [mEnd : MaybeTime, mLast : Families,
           grant : [on : BOOLEAN, floor : Families, ctl : Headers],
           sticky : Families, answered : MaybeTime,
           answer : [what : {"none", "Ans", "Window"}, start : Nat, notAfter : Nat,
                     floor : Families, anchor : Nat, room : Nat],
           window : [on : BOOLEAN, start : Nat, end : Nat, floor : Families],
           grid : [on : BOOLEAN, t0 : Nat, count : 0 .. MaxData, floor : Families],
           rx : SUBSET Nat, tx : Transmissions]
ControlFrames == [kind : {"control"}, tStart : Nat, tEnd : Nat, floor : Families,
                  count : 0 .. MaxData, dataFloor : Families, ctl : Headers]
DataFrames == [kind : {"data"}, tStart : Nat, tEnd : Nat, floor : Families,
               follows : 0 .. MaxFollows]

\* The states of the two engines and what is on the air between them: every
\* clock reckoned is a clock, every count fits its field.
TypeOK ==
  /\ now \in Nat
  /\ master \in Masters
  /\ slave \in Slaves
  /\ toSlave \subseteq ControlFrames \cup DataFrames
  /\ toMaster \subseteq ControlFrames \cup DataFrames

\* What the connect body's rounding adds to the master's turnaround.
Rounding == MasterDeclared - MasterTurnaround

MasterOnAir == master.tx.phase = "air" /\ now < master.tx.end
SlaveOnAir == slave.tx.phase = "air" /\ now < slave.tx.end

\* The two stations never radiate together (granted.rs:20-35, ADR-0069).
NoOverlap == ~(MasterOnAir /\ SlaveOnAir)

\* Whatever the slave radiates lies in the slot of the master's latest
\* transmission, past the master's turnaround, and ends where the master
\* reckons the slot's latest end, give or take the rounding of the turnaround.
SlaveInSlot ==
  SlaveOnAir =>
    /\ master.slot.on /\ master.slot.final
    /\ slave.tx.start >= master.slot.txEnd + MasterTurnaround
    /\ slave.tx.end <= master.slot.endMax + Rounding

\* The end the master takes from a frame of the slot is the end: past it the
\* slave neither radiates nor has anything keyed that the gate would let out.
StatedIsTheEnd ==
  master.slot.stated # NoTime =>
    /\ SlaveOnAir => slave.tx.end <= master.slot.stated
    /\ slave.tx.phase = "wait" => now > slave.tx.notAfter

\* The master's next key never falls due on an estimate of where its own
\* transmission ended.
DueMeansDone ==
  master.proceed # NoTime /\ now >= master.proceed => master.tx.phase = "idle"

\* What was keyed and can still radiate is never keyed over: one answer a slot.
NeverKeysTwice ==
  [][slave.tx.phase # "idle" => slave'.tx.plan = slave.tx.plan \/ slave'.tx.phase = "idle"]_vars

\* The master radiates only once the slave hears again.
SlaveHearsNext ==
  [][MasterRadiates /\ slave.tx.end > 0 => now + Rounding >= slave.tx.end + SlaveDeclared]_vars

\* The slave holds no family for its answers that the master does not reckon with.
FamilyIsPossible == slave.sticky \in master.possible
=============================================================================
