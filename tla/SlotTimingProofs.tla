--------------------------- MODULE SlotTimingProofs ---------------------------
(***************************************************************************)
(* Proofs about SlotTiming, for every value of its constants.              *)
(***************************************************************************)
EXTENDS SlotTiming, TLAPS

-----------------------------------------------------------------------------
\* The operators: what each returns.

LEMMA ProductNat ==
  ASSUME NEW a \in Nat, NEW b \in Nat
  PROVE  a * b \in Nat
OBVIOUS

LEMMA ProductStep ==
  ASSUME NEW a \in Int, NEW b \in Int
  PROVE  (a + 1) * b = a * b + b
OBVIOUS

\* One more data frame takes the air of one more.
LEMMA AirStep ==
  ASSUME NEW n \in Nat, NEW f \in Families
  PROVE  Air(n + 1, f) = Air(n, f) + Frame[f]
<1> DEFINE b == Frame[f]
<1>1. b \in Int
  BY FrameAssumption
<1>2. (n + 1) * b = n * b + b
  <2> HIDE DEF b
  <2> QED
    BY <1>1, ProductStep
<1> QED
  BY <1>2 DEF Air

LEMMA AirNat ==
  ASSUME NEW n \in Nat, NEW f \in Families
  PROVE  Air(n, f) \in Nat
<1>1. Frame[f] \in Nat
  BY FrameAssumption
<1> QED
  BY <1>1, ProductNat DEF Air

LEMMA FitNat ==
  ASSUME NEW room \in Nat, NEW f \in Families
  PROVE  Fit(room, f) \in Nat
<1>1. Frame[f] \in Nat \ {0}
  BY FrameAssumption
<1> QED
  BY <1>1 DEF Fit

LEMMA AirTimeNat ==
  ASSUME NEW plan \in Plans
  PROVE  AirTime(plan) \in Nat
<1>1. plan.floor \in Families /\ plan.dataFloor \in Families /\ plan.count \in Nat
  BY FrameAssumption DEF Plans
<1>2. Control[plan.floor] \in Nat
  BY <1>1, FrameAssumption
<1>3. Air(plan.count, plan.dataFloor) \in Nat
  BY <1>1, AirNat
<1> QED
  BY <1>2, <1>3 DEF AirTime

LEMMA SlotStartNat ==
  ASSUME NEW end \in Nat, NEW f \in Families, NEW l \in Levels, NEW d \in Nat
  PROVE  SlotStart(end, f, l, d) \in Nat /\ SlotStart(end, f, l, d) >= end + d
<1>1. Budget[f] + Key \in Nat /\ Guard \in Nat /\ LevelGap[l] \in Nat
  BY ClockAssumption
<1> QED
  BY <1>1, ClockAssumption DEF SlotStart, Max2

LEMMA AfterNat ==
  ASSUME NEW end \in Nat, NEW f \in Families
  PROVE  After(end, f) \in Nat /\ After(end, f) >= end
<1>1. Budget[f] \in Nat /\ Guard \in Nat /\ Key \in Nat /\ MasterLatency \in Nat
  BY ClockAssumption
<1>2. SlaveDeclared \in Nat /\ AnswerGap \in Nat
  BY ClockAssumption, TurnaroundAssumption
<1> QED
  BY <1>1, <1>2 DEF After, Max2, Min2

\* The products and quotients of the model are naturals; from here on Air, Fit
\* and AirTime are opaque.

LEMMA FramesOfType ==
  ASSUME NEW plan \in Plans, NEW at \in Nat
  PROVE  /\ FramesOf(plan, at) \subseteq ControlFrames \cup DataFrames
         /\ \A f \in FramesOf(plan, at) : f.tStart <= f.tEnd
<1> DEFINE data == at + IF plan.opener THEN Control[plan.floor] ELSE 0
<1>1. /\ plan.floor \in Families /\ plan.dataFloor \in Families
      /\ plan.count \in 0 .. MaxData /\ plan.count \in Nat /\ plan.ctl \in Headers
  BY FrameAssumption DEF Plans
<1>2. data \in Nat /\ at <= data
  BY <1>1, FrameAssumption
<1>3. ASSUME NEW i \in 0 .. (plan.count - 1)
      PROVE  /\ Follows(plan.count, i) \in 0 .. MaxFollows
             /\ data + Air(i, plan.dataFloor) \in Nat
             /\ data + Air(i + 1, plan.dataFloor) \in Nat
             /\ data + Air(i, plan.dataFloor) <= data + Air(i + 1, plan.dataFloor)
  <2>1. Follows(plan.count, i) \in 0 .. MaxFollows
    BY <1>1, FrameAssumption DEF Follows, Min2
  <2>2. i \in Nat /\ i + 1 \in Nat /\ Frame[plan.dataFloor] \in Nat
    BY <1>1, FrameAssumption
  <2>3. Air(i, plan.dataFloor) \in Nat /\ Air(i + 1, plan.dataFloor) \in Nat
    BY <2>2, <1>1, AirNat
  <2>4. Air(i + 1, plan.dataFloor) = Air(i, plan.dataFloor) + Frame[plan.dataFloor]
    BY <2>2, <1>1, AirStep
  <2> HIDE DEF data
  <2> QED
    BY <2>1, <2>2, <2>3, <2>4, <1>2
<1>4. ASSUME NEW f \in FramesOf(plan, at)
      PROVE  f \in ControlFrames \cup DataFrames /\ f.tStart <= f.tEnd
  <2>1. CASE /\ plan.opener
             /\ f = [kind |-> "control", tStart |-> at, tEnd |-> data,
                     floor |-> plan.floor, count |-> plan.count,
                     dataFloor |-> plan.dataFloor, ctl |-> plan.ctl]
    <3> HIDE DEF data
    <3> QED
      BY <2>1, <1>1, <1>2 DEF ControlFrames
  <2>2. CASE \E i \in 0 .. (plan.count - 1) :
               f = [kind |-> "data", tStart |-> data + Air(i, plan.dataFloor),
                    tEnd |-> data + Air(i + 1, plan.dataFloor),
                    floor |-> plan.dataFloor, follows |-> Follows(plan.count, i)]
    <3> HIDE DEF data
    <3> QED
      BY <2>2, <1>1, <1>3 DEF DataFrames
  <2> QED
    BY <1>4, <2>1, <2>2 DEF FramesOf
<1> QED
  BY <1>4

-----------------------------------------------------------------------------
\* Type correctness.  TypeOK alone is not inductive: a master that is up has
\* room for one more silent slot, and no frame ends before it starts.

MasterOK(m) == m \in Masters /\ (m.up => m.silent <= MaxRetries)
FramesOK(frames) ==
  /\ frames \subseteq ControlFrames \cup DataFrames
  /\ \A f \in frames : f.tStart <= f.tEnd

TypeInv ==
  /\ TypeOK
  /\ MasterOK(master)
  /\ FramesOK(toSlave)
  /\ FramesOK(toMaster)

LEMMA ConstantTypes ==
  /\ Key \in Nat /\ Guard \in Nat /\ Slack \in Nat /\ MaxLevel \in Nat
  /\ MasterLatency \in Nat /\ SlaveLatency \in Nat /\ AnswerGap \in Nat
  /\ KeyDelay \in Nat /\ ReportDelay \in Nat
  /\ MaxData \in Nat /\ MaxFollows \in Nat \ {0} /\ MaxRetries \in Nat
  /\ MasterTurnaround \in Nat /\ MasterDeclared \in Nat /\ SlaveDeclared \in Nat
  /\ Families = {"ordinary", "floor"} /\ 0 \in Levels /\ Index = {0, 1}
BY ClockAssumption, FrameAssumption, TurnaroundAssumption
   DEF Families, Levels, Index

LEMMA NoTimeInt == NoTime \in Int /\ NoTime \in MaybeTime
BY DEF NoTime, MaybeTime

LEMMA WindowNat ==
  ASSUME NEW f \in Families, NEW i \in Index
  PROVE  Window(f, i) \in Nat
<1>1. OpenWindow[f] \in Nat
  BY FrameAssumption
<1> QED
  BY <1>1 DEF Window

LEMMA LongestControlNat ==
  ASSUME NEW fs
  PROVE  LongestControl(fs) \in Nat
<1>1. Control["floor"] \in Nat /\ Control["ordinary"] \in Nat
  BY FrameAssumption DEF Families
<1> QED
  BY <1>1 DEF LongestControl

LEMMA SlotCloseNat ==
  ASSUME NEW m \in Masters
  PROVE  SlotClose(m) \in Nat
<1>1. /\ m.slot.statedFloor \in Families /\ m.slot.endMax + m.peerLate \in Nat
      /\ m.slot.stated # NoTime => m.slot.stated \in Nat
      /\ (IF "floor" \in m.slot.answerFloors THEN "floor" ELSE "ordinary") \in Families
  BY DEF Masters, Slots, MaybeTime, Families
<1> QED
  BY <1>1, AfterNat DEF SlotClose

LEMMA ArmWaitType ==
  ASSUME NEW m, MasterOK(m), NEW t \in Nat
  PROVE  MasterOK(ArmWait(m, t))
<1>1. Max2(t, SlotClose(m)) \in Nat
  BY SlotCloseNat DEF MasterOK, Max2
<1> HIDE DEF SlotClose
<1> QED
  BY <1>1 DEF MasterOK, ArmWait, Masters, MaybeTime

LEMMA OpenSlotType ==
  ASSUME NEW m, MasterOK(m), NEW t \in Nat, NEW end \in Nat
  PROVE  MasterOK(OpenSlot(m, t, end))
<1> DEFINE start == SlotStart(end, m.slot.lastFloor, m.slot.level, MasterTurnaround)
           endMax == start + m.slot.grant + IF m.slot.window THEN 0 ELSE Slack
           n == [m EXCEPT !.slot.txEnd = end, !.slot.start = start,
                          !.slot.endMax = endMax]
<1>1. m \in Masters /\ m.slot \in Slots
  BY DEF MasterOK, Masters
<1>2. m.slot.lastFloor \in Families /\ m.slot.level \in Levels /\ m.slot.grant \in Nat
  BY <1>1 DEF Slots
<1>3. start \in Nat
  BY <1>2, SlotStartNat, ConstantTypes
<1>4. endMax \in Nat
  <2> HIDE DEF start
  <2> QED
    BY <1>2, <1>3, ConstantTypes
<1>5. MasterOK(n)
  <2> HIDE DEF start, endMax
  <2> QED
    BY <1>1, <1>3, <1>4 DEF MasterOK, Masters, Slots
<1> HIDE DEF n
<1>6. MasterOK(ArmWait(n, t))
  BY <1>5, ArmWaitType
<1> QED
  BY <1>6 DEF OpenSlot, n

LEMMA StateEndType ==
  ASSUME NEW m, MasterOK(m), NEW t \in Nat, NEW end \in Nat, NEW f \in Families
  PROVE  MasterOK(StateEnd(m, t, end, f))
<1> DEFINE latest == m.slot.stated = NoTime \/ end >= m.slot.stated
           n == [m EXCEPT !.slot.heard = TRUE,
                          !.slot.stated = IF latest THEN end ELSE @,
                          !.slot.statedFloor = IF latest THEN f ELSE @]
<1>1. MasterOK(n)
  <2> HIDE DEF latest
  <2> QED
    BY DEF MasterOK, Masters, Slots, MaybeTime
<1> HIDE DEF n
<1>2. MasterOK(ArmWait(n, t))
  BY <1>1, ArmWaitType
<1> QED
  BY <1>2 DEF StateEnd, n

LEMMA CloseSlotType ==
  ASSUME NEW m, MasterOK(m), m.up
  PROVE  MasterOK(CloseSlot(m))
<1>1. /\ m \in Masters /\ m.silent \in Nat /\ m.silent <= MaxRetries
      /\ NoSlot \in Slots /\ NoTime \in MaybeTime
  BY ConstantTypes DEF MasterOK, Masters, NoSlot, Slots, MaybeTime, NoTime
<1> DEFINE silent == CASE ~m.slot.on -> m.silent
                       [] m.slot.on /\ m.slot.heard -> 0
                       [] m.slot.on /\ ~m.slot.heard /\ m.slot.window -> m.silent
                       [] OTHER -> m.silent + 1
<1>2. silent \in 0 .. (MaxRetries + 1)
  BY <1>1, ConstantTypes
<1>3. CloseSlot(m) = [m EXCEPT !.slot = NoSlot, !.silent = silent,
                               !.proceed = NoTime, !.up = silent <= MaxRetries]
  BY DEF CloseSlot
<1> DEFINE up == silent <= MaxRetries
<1>4. up \in BOOLEAN
  OBVIOUS
<1>5. CloseSlot(m).silent = silent /\ CloseSlot(m).up = up
  <2> HIDE DEF silent, up
  <2> QED
    BY <1>1, <1>3 DEF Masters, up
<1>6. CloseSlot(m) \in Masters
  <2> HIDE DEF silent, up
  <2> QED
    BY <1>1, <1>2, <1>3, <1>4 DEF Masters, up
<1> HIDE DEF silent
<1> QED
  BY <1>5, <1>6 DEF MasterOK

LEMMA HandedType ==
  ASSUME NEW ready \in Nat, NEW notBefore \in Nat, NEW notAfter \in Int,
         NEW end \in Nat, NEW plan \in Plans
  PROVE  Handed(ready, notBefore, notAfter, end, plan) \in Transmissions
BY DEF Handed, Transmissions

\* The slot a header opens is a slot.
LEMMA NewSlotType ==
  ASSUME NEW grant \in Nat, NEW level \in Levels, NEW window \in BOOLEAN,
         NEW last \in Families, NEW floors \in SUBSET Families
  PROVE  NewSlot(grant, level, window, last, floors) \in Slots
<1>1. NoTime \in MaybeTime /\ "ordinary" \in Families
  BY NoTimeInt DEF Families
<1> QED
  BY <1>1 DEF NewSlot, Slots

LEMMA SendHeaderType ==
  ASSUME NEW m, MasterOK(m), NEW t \in Nat, NEW p \in AllPolicies
  PROVE  MasterOK(SendHeader(m, t, p))
<1> DEFINE possible == Holds(m, p)
           answers == possible \cup {p.wanted}
           grant == IF p.flag THEN Window(p.hdrFloor, p.index)
                    ELSE LongestControl(answers) + Air(p.n, p.sized)
           ctl == [level |-> p.level, n |-> p.n, flag |-> p.flag, index |-> p.index,
                   fam |-> p.wanted, slotFloor |-> p.sized]
           plan == [opener |-> ~p.elide, floor |-> p.hdrFloor, count |-> p.count,
                    dataFloor |-> p.dataFloor, ctl |-> ctl]
           last == IF p.count > 0 THEN p.dataFloor ELSE p.hdrFloor
           floors == IF p.n > 0 /\ ~p.flag THEN answers \cup {p.sized} ELSE answers
           slot == NewSlot(grant, p.level, p.flag, last, floors)
           tx == Handed(t + MasterLatency, 0, NoTime, 0, plan)
           n == [m EXCEPT !.slot = slot, !.tx = tx, !.possible = possible]
<1>1. /\ p.n \in 0 .. MaxData /\ p.n \in Nat /\ p.flag \in BOOLEAN /\ p.index \in Index
      /\ p.level \in Levels /\ p.wanted \in Families /\ p.sized \in Families
      /\ p.hdrFloor \in Families /\ p.count \in 0 .. MaxData /\ p.dataFloor \in Families
      /\ p.elide \in BOOLEAN
  BY ConstantTypes DEF AllPolicies
<1>2. possible \subseteq Families
  BY <1>1 DEF Holds, MasterOK, Masters
<1>3. grant \in Nat
  <2>1. Window(p.hdrFloor, p.index) \in Nat
    BY <1>1, WindowNat
  <2>2. LongestControl(answers) \in Nat
    BY LongestControlNat
  <2>3. Air(p.n, p.sized) \in Nat
    BY <1>1, AirNat
  <2> QED
    BY <2>1, <2>2, <2>3
<1>4. plan \in Plans
  BY <1>1 DEF Plans, Headers
<1>5. slot \in Slots
  <2>1. last \in Families /\ floors \in SUBSET Families
    BY <1>1, <1>2
  <2> HIDE DEF grant, last, floors
  <2> QED
    BY <1>1, <1>3, <2>1, NewSlotType
<1>6. tx \in Transmissions
  <2> HIDE DEF plan
  <2>1. t + MasterLatency \in Nat
    BY ConstantTypes
  <2> QED
    BY <1>4, <2>1, HandedType, NoTimeInt
<1>7. MasterOK(n)
  <2> HIDE DEF slot, tx, possible
  <2> QED
    BY <1>2, <1>5, <1>6 DEF MasterOK, Masters
<1>8. Estimate(t, plan) \in Nat
  <2> HIDE DEF plan
  <2> QED
    BY <1>4, AirTimeNat, ConstantTypes DEF Estimate
<1>9. MasterOK(OpenSlot(n, t, Estimate(t, plan)))
  <2> HIDE DEF n, plan
  <2> QED
    BY <1>7, <1>8, OpenSlotType
<1> QED
  BY <1>9 DEF SendHeader

LEMMA TakeAnswerType ==
  ASSUME NEW m, MasterOK(m), NEW t \in Nat, NEW f \in ControlFrames
  PROVE  MasterOK(TakeAnswer(m, t, f))
<1> DEFINE late == f.tStart - m.slot.start - Slack
           peerLate == Lateness(m, late)
           n == [m EXCEPT !.peerLate = peerLate, !.possible = {f.floor}]
           last == IF f.count > 0 THEN f.dataFloor ELSE f.floor
           end == f.tEnd + Air(f.count, f.dataFloor)
<1>1. /\ f.tStart \in Nat /\ f.tEnd \in Nat /\ f.floor \in Families
      /\ f.dataFloor \in Families /\ f.count \in Nat
  BY ConstantTypes DEF ControlFrames
<1>2. peerLate \in Nat
  <2>1. m.slot.start \in Nat /\ m.peerLate \in Nat
    BY DEF MasterOK, Masters, Slots
  <2>2. late \in Int
    BY <1>1, <2>1, ConstantTypes
  <2> HIDE DEF late
  <2> QED
    BY <2>1, <2>2 DEF Lateness, Max2
<1>3. MasterOK(n)
  <2> HIDE DEF peerLate
  <2> QED
    BY <1>1, <1>2 DEF MasterOK, Masters
<1>4. last \in Families
  BY <1>1
<1>5. end \in Nat
  <2>1. Air(f.count, f.dataFloor) \in Nat
    BY <1>1, AirNat
  <2> QED
    BY <1>1, <2>1
<1>6. MasterOK(StateEnd(n, t, end, last))
  <2> HIDE DEF n, last, end
  <2> QED
    BY <1>3, <1>4, <1>5, StateEndType
<1> QED
  BY <1>6 DEF TakeAnswer

LEMMA TakeDataType ==
  ASSUME NEW m, MasterOK(m), NEW t \in Nat, NEW f \in DataFrames, f.tStart <= f.tEnd,
         NEW outcome, NEW read \in 0 .. MaxFollows
  PROVE  MasterOK(TakeData(m, t, f, outcome, read))
<1> DEFINE d == f.tEnd - f.tStart
           end == f.tEnd + read * d
<1>1. f.tStart \in Nat /\ f.tEnd \in Nat /\ f.floor \in Families
  BY DEF DataFrames
<1>2. d \in Nat /\ read \in Nat
  BY <1>1
<1>3. end \in Nat
  <2> HIDE DEF d
  <2>1. read * d \in Nat
    BY <1>2, ProductNat
  <2> QED
    BY <1>1, <2>1
<1>4. MasterOK(StateEnd(m, t, end, f.floor))
  <2> HIDE DEF end
  <2> QED
    BY <1>1, <1>3, StateEndType
<1>5. MasterOK([m EXCEPT !.slot.heard = TRUE])
  BY DEF MasterOK, Masters, Slots
<1> QED
  BY <1>4, <1>5 DEF TakeData

LEMMA InitialTypes ==
  /\ NoCtl \in Headers /\ NoPlan \in Plans /\ NoTx \in Transmissions
  /\ NoSlot \in Slots
  /\ NoGrant \in [on : BOOLEAN, floor : Families, ctl : Headers]
  /\ NoGrid \in [on : BOOLEAN, t0 : Nat, count : 0 .. MaxData, floor : Families]
  /\ NoAnswer \in [what : {"none", "Ans", "Window"}, start : Nat, notAfter : Nat,
                   floor : Families, anchor : Nat, room : Nat]
  /\ NoWindow \in [on : BOOLEAN, start : Nat, end : Nat, floor : Families]
<1>1. NoCtl \in Headers
  BY ConstantTypes DEF NoCtl, Headers
<1>2. NoPlan \in Plans
  BY <1>1, ConstantTypes DEF NoPlan, Plans
<1>3. NoTx \in Transmissions
  BY <1>2, NoTimeInt DEF NoTx, Transmissions
<1>4. NoSlot \in Slots
  BY ConstantTypes DEF NoSlot, Slots, MaybeTime, NoTime
<1> QED
  BY <1>1, <1>2, <1>3, <1>4, ConstantTypes DEF NoGrant, NoGrid, NoAnswer, NoWindow

LEMMA NextTransmissionType ==
  ASSUME NEW s \in Slaves
  PROVE  RestartRx(s) \in Slaves /\ NextTransmission(s) \in Slaves
BY InitialTypes, NoTimeInt DEF Slaves, RestartRx, NextTransmission

LEMMA PlacedType ==
  ASSUME NEW s \in Slaves, NEW f
  PROVE  Placed(s, f) \in Slaves
BY NextTransmissionType DEF Placed

LEMMA UsedType ==
  ASSUME NEW s \in Slaves
  PROVE  Used(s) \in Slaves /\ Used(s).answer = s.answer /\ Used(s).window = NoWindow
BY InitialTypes DEF Slaves, Used

LEMMA ForfeitType ==
  ASSUME NEW s \in Slaves, NEW anchor \in Nat
  PROVE  Forfeit(s, anchor) \in Slaves
BY InitialTypes DEF Slaves, Forfeit, RestartRx, MaybeTime

LEMMA SendAnswerType ==
  ASSUME NEW s \in Slaves, NEW t \in Nat, NEW c \in AllChoices, NEW floor \in Families,
         NEW room \in Nat, NEW notBefore \in Nat, NEW notAfter \in Int,
         NEW windowEnd \in Nat \cup {NoTime}
  PROVE  SendAnswer(s, t, c, floor, room, notBefore, notAfter, windowEnd) \in Slaves
<1> DEFINE plan == [opener |-> TRUE, floor |-> floor,
                    count |-> Min2(c.k, Fit(room, c.g)), dataFloor |-> c.g,
                    ctl |-> NoCtl]
           latest == IF windowEnd # NoTime THEN EndsInWindow(windowEnd, plan) ELSE notAfter
           tx == Handed(t + SlaveLatency, notBefore, latest, s.tx.end, plan)
<1>1. Min2(c.k, Fit(room, c.g)) \in 0 .. MaxData
  <2>1. c.k \in 0 .. MaxData /\ c.g \in Families
    BY DEF AllChoices
  <2>2. Fit(room, c.g) \in Nat
    BY <2>1, FitNat
  <2> QED
    BY <2>1, <2>2, ConstantTypes DEF Min2
<1>2. plan \in Plans
  <2>1. c.g \in Families
    BY DEF AllChoices
  <2> QED
    BY <1>1, <2>1, InitialTypes DEF Plans
<1>3. latest \in Int
  <2>1. AirTime(plan) \in Nat
    BY <1>2, AirTimeNat
  <2> HIDE DEF plan
  <2> QED
    BY <2>1, NoTimeInt DEF EndsInWindow
<1>4. s.tx.end \in Nat
  BY DEF Slaves, Transmissions
<1>5. tx \in Transmissions
  <2> HIDE DEF plan, latest
  <2>1. t + SlaveLatency \in Nat
    BY ConstantTypes
  <2> QED
    BY <1>2, <1>3, <1>4, <2>1, HandedType
<1>6. [RestartRx(s) EXCEPT !.tx = tx] \in Slaves
  <2> HIDE DEF tx
  <2>1. RestartRx(s) \in Slaves
    BY NextTransmissionType
  <2> QED
    BY <1>5, <2>1 DEF Slaves
<1> QED
  BY <1>6 DEF SendAnswer

LEMMA TryWindowType ==
  ASSUME NEW s \in Slaves, NEW t \in Nat, NEW c \in AllChoices
  PROVE  TryWindow(s, t, c) \in Slaves
<1> DEFINE w == s.window
           onAir == t + SlaveLatency
           room == w.end - onAir - Control[w.floor]
           later == [s EXCEPT !.answer = [what |-> "Window", start |-> w.start,
                                          notAfter |-> w.end, floor |-> w.floor,
                                          anchor |-> 0, room |-> 0]]
<1>1. w.start \in Nat /\ w.end \in Nat /\ w.floor \in Families
  BY DEF Slaves
<1>2. later \in Slaves
  <2> HIDE DEF w
  <2> QED
    BY <1>1 DEF Slaves
<1>3. room \in Int
  BY <1>1, FrameAssumption, ConstantTypes
<1>4. ASSUME room >= 0
      PROVE  SendAnswer(Used(s), t, c, w.floor, room, 0, NoTime, w.end) \in Slaves
  <2>1. room \in Nat
    BY <1>3, <1>4
  <2>2. Used(s) \in Slaves
    BY UsedType
  <2> HIDE DEF room, w
  <2> QED
    BY <1>1, <2>1, <2>2, NoTimeInt, SendAnswerType
<1> QED
  BY <1>2, <1>4 DEF TryWindow

LEMMA KeyAnswerType ==
  ASSUME NEW s \in Slaves, NEW t \in Nat, NEW c \in AllChoices
  PROVE  KeyAnswer(s, t, c) \in Slaves
<1> DEFINE a == s.answer
           free == [s EXCEPT !.answer = NoAnswer]
           answered == [free EXCEPT !.answered = a.anchor]
<1>1. /\ a.anchor \in Nat /\ a.floor \in Families /\ a.room \in Nat
      /\ a.start \in Nat /\ a.notAfter \in Nat
  BY DEF Slaves
<1>2. free \in Slaves
  BY InitialTypes DEF Slaves
<1>3. answered \in Slaves
  <2> HIDE DEF free, a
  <2> QED
    BY <1>1, <1>2 DEF Slaves, MaybeTime
<1>4. TryWindow(free, t, c) \in Slaves
  <2> HIDE DEF free
  <2> QED
    BY <1>2, TryWindowType
<1>5. Forfeit(free, a.anchor) \in Slaves
  <2> HIDE DEF free, a
  <2> QED
    BY <1>1, <1>2, ForfeitType
<1>6. SendAnswer(answered, t, c, a.floor, a.room, a.start, a.notAfter, NoTime) \in Slaves
  <2> HIDE DEF answered, a
  <2> QED
    BY <1>1, <1>3, SendAnswerType, NoTimeInt
<1> QED
  BY <1>4, <1>5, <1>6 DEF KeyAnswer

LEMMA DecideIfFinalType ==
  ASSUME NEW s \in Slaves, NEW t \in Nat, NEW c \in AllChoices
  PROVE  DecideIfFinal(s, t, c) \in Slaves
BY KeyAnswerType DEF DecideIfFinal

LEMMA ScheduleSlaveType ==
  ASSUME NEW s \in Slaves, s.mEnd \in Nat, NEW t \in Nat, NEW c \in AllChoices
  PROVE  ScheduleSlave(s, t, c) \in Slaves
<1> DEFINE g == s.grant
           level == IF g.on THEN g.ctl.level ELSE 0
           start == SlotStart(s.mEnd, s.mLast, level, MasterDeclared)
           window == [on |-> TRUE, start |-> start,
                      end |-> start + Window(g.floor, g.ctl.index), floor |-> s.sticky]
           opened == [s EXCEPT !.window = window, !.answer = NoAnswer]
           answer == [what |-> "Ans", start |-> start, notAfter |-> start + Slack,
                      floor |-> s.sticky, anchor |-> s.mEnd,
                      room |-> IF g.on THEN Air(g.ctl.n, g.ctl.slotFloor) ELSE 0]
           closed == [s EXCEPT !.window = NoWindow]
<1>1. /\ g.floor \in Families /\ g.ctl.level \in Levels /\ g.ctl.index \in Index
      /\ g.ctl.n \in Nat /\ g.ctl.slotFloor \in Families
      /\ s.mLast \in Families /\ s.sticky \in Families
  BY ConstantTypes DEF Slaves, Headers
<1>2. start \in Nat
  <2>1. level \in Levels
    BY <1>1, ConstantTypes
  <2> HIDE DEF level
  <2> QED
    BY <1>1, <2>1, SlotStartNat, ConstantTypes
<1>3. window \in [on : BOOLEAN, start : Nat, end : Nat, floor : Families]
  <2>1. Window(g.floor, g.ctl.index) \in Nat
    BY <1>1, WindowNat
  <2> HIDE DEF start, g
  <2> QED
    BY <1>1, <1>2, <2>1
<1>4. opened \in Slaves
  <2> HIDE DEF window
  <2> QED
    BY <1>3, InitialTypes DEF Slaves
<1>5. answer \in [what : {"none", "Ans", "Window"}, start : Nat, notAfter : Nat,
                  floor : Families, anchor : Nat, room : Nat]
  <2>1. Air(g.ctl.n, g.ctl.slotFloor) \in Nat
    BY <1>1, AirNat
  <2> HIDE DEF start, g
  <2> QED
    BY <1>1, <1>2, <2>1, ConstantTypes
<1>6. closed \in Slaves
  BY InitialTypes DEF Slaves
<1>7. TryWindow(opened, t, c) \in Slaves
  <2> HIDE DEF opened
  <2> QED
    BY <1>4, TryWindowType
<1>8. Schedule(closed, t, c, answer) \in Slaves
  <2>1. answer.anchor = s.mEnd
    OBVIOUS
  <2> HIDE DEF closed, answer
  <2>2. Forfeit(closed, answer.anchor) \in Slaves
    BY <1>6, <2>1, ForfeitType
  <2>3. [closed EXCEPT !.answer = answer] \in Slaves
    BY <1>5, <1>6 DEF Slaves
  <2>4. DecideIfFinal([closed EXCEPT !.answer = answer], t, c) \in Slaves
    BY <2>3, DecideIfFinalType
  <2> QED
    BY <2>2, <2>4 DEF Schedule
<1> QED
  BY <1>4, <1>7, <1>8 DEF ScheduleSlave

LEMMA TakeHeaderType ==
  ASSUME NEW s \in Slaves, NEW t \in Nat, NEW c \in AllChoices, NEW f \in ControlFrames
  PROVE  TakeHeader(s, t, c, f) \in Slaves
<1> DEFINE p == Placed(s, f)
           grid == [on |-> TRUE, t0 |-> f.tEnd, count |-> f.count, floor |-> f.dataFloor]
           n == [p EXCEPT !.grid = grid,
                          !.rx = {x \in p.rx : OnGrid(grid, x)},
                          !.sticky = f.ctl.fam,
                          !.grant = [on |-> TRUE, floor |-> f.floor, ctl |-> f.ctl],
                          !.mEnd = f.tEnd + Air(f.count, f.dataFloor),
                          !.mLast = IF f.count > 0 THEN f.dataFloor ELSE f.floor]
<1>1. /\ f.tEnd \in Nat /\ f.floor \in Families /\ f.dataFloor \in Families
      /\ f.count \in 0 .. MaxData /\ f.count \in Nat
      /\ f.ctl \in Headers /\ f.ctl.fam \in Families
  BY ConstantTypes DEF ControlFrames, Headers
<1>2. p \in Slaves
  BY PlacedType
<1>3. f.tEnd + Air(f.count, f.dataFloor) \in Nat
  BY <1>1, AirNat
<1>4. n \in Slaves /\ n.mEnd \in Nat
  <2>1. grid \in [on : BOOLEAN, t0 : Nat, count : 0 .. MaxData, floor : Families]
    BY <1>1
  <2>2. {x \in p.rx : OnGrid(grid, x)} \in SUBSET Nat
    BY <1>2 DEF Slaves
  <2> HIDE DEF p, grid
  <2> QED
    BY <1>1, <1>2, <1>3, <2>1, <2>2 DEF Slaves, MaybeTime
<1>5. ScheduleSlave(n, t, c) \in Slaves
  <2> HIDE DEF n
  <2> QED
    BY <1>4, ScheduleSlaveType
<1> QED
  BY <1>5 DEF TakeHeader

LEMMA TakeCopyType ==
  ASSUME NEW s \in Slaves, NEW t \in Nat, NEW c \in AllChoices, NEW f \in DataFrames,
         f.tStart <= f.tEnd, NEW outcome, NEW read \in 0 .. MaxFollows
  PROVE  TakeCopy(s, t, c, f, outcome, read) \in Slaves
<1> DEFINE p == Placed(s, f)
           counted == outcome # "undecoded" \/ ~p.grid.on \/ OnGrid(p.grid, f.tStart)
           q == IF counted THEN [p EXCEPT !.rx = @ \cup {f.tStart}] ELSE p
           d == f.tEnd - f.tStart
           end == f.tEnd + read * d
           anchored == [q EXCEPT !.mEnd = end, !.mLast = f.floor]
           n == IF q.mEnd = NoTime /\ Believed(outcome, read)
                THEN ScheduleSlave(anchored, t, c) ELSE q
<1>1. f.tStart \in Nat /\ f.tEnd \in Nat /\ f.floor \in Families
  BY DEF DataFrames
<1>2. p \in Slaves
  BY PlacedType
<1>3. q \in Slaves
  <2> HIDE DEF p, counted
  <2>1. [p EXCEPT !.rx = @ \cup {f.tStart}] \in Slaves
    BY <1>1, <1>2 DEF Slaves
  <2> QED
    BY <1>2, <2>1
<1>4. end \in Nat
  <2>1. d \in Nat /\ read \in Nat
    BY <1>1
  <2> HIDE DEF d
  <2>2. read * d \in Nat
    BY <2>1, ProductNat
  <2> QED
    BY <1>1, <2>2
<1>5. anchored \in Slaves /\ anchored.mEnd \in Nat
  <2> HIDE DEF q, end
  <2> QED
    BY <1>1, <1>3, <1>4 DEF Slaves, MaybeTime
<1>6. n \in Slaves
  <2> HIDE DEF q, anchored
  <2>1. ScheduleSlave(anchored, t, c) \in Slaves
    BY <1>5, ScheduleSlaveType
  <2> QED
    BY <1>3, <2>1
<1>7. DecideIfFinal(n, t, c) \in Slaves
  <2> HIDE DEF n
  <2> QED
    BY <1>6, DecideIfFinalType
<1> QED
  BY <1>7 DEF TakeCopy

-----------------------------------------------------------------------------
LEMMA TypeInvInit == Init => TypeInv
<1> SUFFICES ASSUME NEW f \in Families,
                    now = 0,
                    master = [slot |-> NoSlot, proceed |-> 0, tx |-> NoTx,
                              possible |-> {f}, peerLate |-> 0, silent |-> 0,
                              up |-> TRUE],
                    slave = [mEnd |-> NoTime, mLast |-> f, grant |-> NoGrant,
                             sticky |-> f, answered |-> NoTime,
                             answer |-> NoAnswer, window |-> NoWindow,
                             grid |-> NoGrid, rx |-> {}, tx |-> NoTx],
                    toSlave = {}, toMaster = {}
             PROVE  TypeInv
  BY DEF Init
<1>1. MasterOK(master)
  BY InitialTypes, ConstantTypes DEF MasterOK, Masters, MaybeTime
<1>2. slave \in Slaves
  BY InitialTypes, NoTimeInt DEF Slaves
<1> QED
  BY <1>1, <1>2 DEF TypeInv, TypeOK, MasterOK, FramesOK

LEMMA TypeInvNext == TypeInv /\ [Next]_vars => TypeInv'
<1> SUFFICES ASSUME TypeInv, [Next]_vars
             PROVE  TypeInv'
  OBVIOUS
<1> USE DEF TypeInv, TypeOK
<1>a. /\ now \in Nat /\ MasterOK(master) /\ master \in Masters /\ slave \in Slaves
      /\ FramesOK(toSlave) /\ FramesOK(toMaster)
  OBVIOUS
<1>b. /\ master.tx \in Transmissions /\ master.tx.plan \in Plans
      /\ master.tx.end \in Nat
      /\ slave.tx \in Transmissions /\ slave.tx.plan \in Plans /\ slave.tx.end \in Nat
  BY <1>a DEF Masters, Slaves, Transmissions
<1>c. SUFFICES now' \in Nat /\ MasterOK(master') /\ slave' \in Slaves
               /\ FramesOK(toSlave') /\ FramesOK(toMaster')
  BY DEF MasterOK, FramesOK
<1> USE DEF FramesOK
<1>1. CASE Tick
  BY <1>1, <1>a DEF Tick
<1>2. CASE Proceed
  <2>1. MasterOK(CloseSlot(master))
    BY <1>2, <1>a, CloseSlotType DEF Proceed
  <2>2. ASSUME NEW p \in Policies
        PROVE  MasterOK(SendHeader(CloseSlot(master), now, p))
    BY <1>a, <2>1, PolicyAssumption, SendHeaderType
  <2> QED
    BY <1>2, <1>a, <2>1, <2>2 DEF Proceed
<1>3. CASE MasterRadiates
  <2>1. /\ FramesOf(master.tx.plan, now) \subseteq ControlFrames \cup DataFrames
        /\ \A f \in FramesOf(master.tx.plan, now) : f.tStart <= f.tEnd
    BY <1>a, <1>b, FramesOfType
  <2>2. now + AirTime(master.tx.plan) \in Nat
    BY <1>a, <1>b, AirTimeNat
  <2>3. MasterOK(master')
    BY <1>3, <1>a, <1>b, <2>2 DEF MasterRadiates, MasterOK, Masters, Transmissions
  <2> QED
    BY <1>3, <1>a, <2>1, <2>3 DEF MasterRadiates
<1>4. ASSUME NEW m, m = [master EXCEPT !.tx.phase = "idle", !.slot.final = TRUE]
      PROVE  MasterOK(OpenSlot(m, now, master.tx.end))
  <2>1. MasterOK(m)
    BY <1>4, <1>a DEF MasterOK, Masters, Transmissions, Slots
  <2> QED
    BY <2>1, <1>a, <1>b, OpenSlotType
<1>5. CASE MasterTxDone
  BY <1>4, <1>5, <1>a DEF MasterTxDone
<1>6. CASE MasterCutUnread
  <2>1. MasterOK(master')
    BY <1>6, <1>a, InitialTypes
       DEF MasterCutUnread, MasterOK, Masters, Transmissions, MaybeTime
  <2> QED
    BY <1>6, <1>a, <2>1 DEF MasterCutUnread
<1>7. CASE MasterCutRead
  <2>1. MasterOK(master')
    BY <1>4, <1>7, <1>a DEF MasterCutRead
  <2> QED
    BY <1>7, <1>a, <2>1 DEF MasterCutRead
<1>8. CASE MasterReads
  <2> SUFFICES ASSUME NEW f \in toMaster,
                      MasterReadsAnswer(f) \/ MasterReadsData(f),
                      toMaster' = Unread(toMaster, f)
               PROVE  MasterOK(master') /\ FramesOK(toMaster')
    BY <1>8, <1>a DEF MasterReads
  <2>1. f \in ControlFrames \cup DataFrames /\ f.tStart <= f.tEnd
    BY <1>a
  <2>2. CASE MasterReadsAnswer(f)
    <3>1. f \in ControlFrames
      BY <2>1, <2>2 DEF MasterReadsAnswer, DataFrames
    <3>2. MasterOK(TakeAnswer(master, now, f))
      BY <3>1, <1>a, TakeAnswerType
    <3> QED
      BY <2>2, <3>2, <1>a DEF MasterReadsAnswer, Unread
  <2>3. CASE MasterReadsData(f)
    <3>1. f \in DataFrames
      BY <2>1, <2>3 DEF MasterReadsData, ControlFrames
    <3>2. ASSUME NEW outcome, NEW read \in ReadCounts(f, outcome)
          PROVE  MasterOK(TakeData(master, now, f, outcome, read))
      <4>1. read \in 0 .. MaxFollows
        BY <3>1 DEF ReadCounts, DataFrames
      <4> QED
        BY <3>1, <4>1, <2>1, <1>a, TakeDataType
    <3> QED
      BY <2>3, <3>2, <1>a DEF MasterReadsData, Unread
  <2> QED
    BY <2>2, <2>3
<1>9. CASE SlaveReads
  <2> SUFFICES ASSUME NEW f \in toSlave, NEW c \in AllChoices,
                      SlaveReadsHeader(f, c) \/ SlaveReadsData(f, c),
                      toSlave' = Unread(toSlave, f)
               PROVE  slave' \in Slaves /\ FramesOK(toSlave')
    BY <1>9, <1>a, PolicyAssumption DEF SlaveReads
  <2>1. f \in ControlFrames \cup DataFrames /\ f.tStart <= f.tEnd
    BY <1>a
  <2>2. CASE SlaveReadsHeader(f, c)
    <3>1. f \in ControlFrames
      BY <2>1, <2>2 DEF SlaveReadsHeader, DataFrames
    <3> QED
      BY <3>1, <2>2, <1>a, TakeHeaderType DEF SlaveReadsHeader, Unread
  <2>3. CASE SlaveReadsData(f, c)
    <3>1. f \in DataFrames
      BY <2>1, <2>3 DEF SlaveReadsData, ControlFrames
    <3>2. ASSUME NEW outcome, NEW read \in ReadCounts(f, outcome)
          PROVE  TakeCopy(slave, now, c, f, outcome, read) \in Slaves
      <4>1. read \in 0 .. MaxFollows
        BY <3>1 DEF ReadCounts, DataFrames
      <4> QED
        BY <3>1, <4>1, <2>1, <1>a, TakeCopyType
    <3> QED
      BY <2>3, <3>2, <1>a DEF SlaveReadsData, Unread
  <2> QED
    BY <2>2, <2>3
<1>10. CASE SlaveAnswerTimer
  <2>1. slave' \in Slaves
    BY <1>10, <1>a, PolicyAssumption, KeyAnswerType DEF SlaveAnswerTimer
  <2> QED
    BY <1>10, <1>a, <2>1 DEF SlaveAnswerTimer
<1>11. CASE SlaveSend
  <2>1. slave' \in Slaves
    BY <1>11, <1>a, PolicyAssumption, TryWindowType DEF SlaveSend
  <2> QED
    BY <1>11, <1>a, <2>1 DEF SlaveSend
<1>12. CASE SlaveRadiates
  <2>1. /\ FramesOf(slave.tx.plan, now) \subseteq ControlFrames \cup DataFrames
        /\ \A f \in FramesOf(slave.tx.plan, now) : f.tStart <= f.tEnd
    BY <1>a, <1>b, FramesOfType
  <2>2. now + AirTime(slave.tx.plan) \in Nat
    BY <1>a, <1>b, AirTimeNat
  <2>3. slave' \in Slaves
    BY <1>12, <1>a, <1>b, <2>2 DEF SlaveRadiates, Slaves, Transmissions
  <2> QED
    BY <1>12, <1>a, <2>1, <2>3 DEF SlaveRadiates
<1>13. CASE SlaveDropped
  <2>1. [NoTx EXCEPT !.end = slave.tx.end] \in Transmissions
    BY <1>b, InitialTypes DEF Transmissions
  <2>2. slave' \in Slaves
    BY <1>13, <1>a, <2>1 DEF SlaveDropped, Slaves
  <2> QED
    BY <1>13, <1>a, <2>2 DEF SlaveDropped
<1>14. CASE SlaveTxDone
  <2>1. slave' \in Slaves
    BY <1>14, <1>a DEF SlaveTxDone, Slaves, Transmissions
  <2> QED
    BY <1>14, <1>a, <2>1 DEF SlaveTxDone
<1>15. CASE UNCHANGED vars
  BY <1>15, <1>a DEF vars
<1> QED
  BY <1>1, <1>2, <1>3, <1>5, <1>6, <1>7, <1>8, <1>9, <1>10, <1>11, <1>12, <1>13,
     <1>14, <1>15 DEF Next

\* Every state the two engines and the air between them reach is of the types
\* TypeOK states, whatever the lengths, budgets and policies.
THEOREM TypeCorrect == Spec => []TypeOK
<1>1. TypeInv => TypeOK
  BY DEF TypeInv
<1> QED
  BY <1>1, TypeInvInit, TypeInvNext, PTL DEF Spec

-----------------------------------------------------------------------------
\* The master never keys on an estimate.  While its driver has a transmission,
\* the next key is armed past the last moment the driver may report it done, and
\* nothing read can move it: no frame is of a slot that is not final.

Armed(m) ==
  m.tx.phase # "idle" =>
    /\ ~m.slot.final
    /\ m.proceed # NoTime
    /\ m.proceed > m.tx.ready + AirTime(m.tx.plan) + KeyDelay + ReportDelay

\* Where the driver is with it: what bounds Tick.
Driven(m, t) ==
  /\ m.tx.phase = "wait" => t <= m.tx.ready + KeyDelay
  /\ m.tx.phase = "air" =>
       /\ m.tx.end <= m.tx.ready + AirTime(m.tx.plan) + KeyDelay
       /\ t <= m.tx.end + ReportDelay

DueInv == Armed(master) /\ Driven(master, now)

LEMMA WindowPositive ==
  ASSUME NEW f \in Families, NEW i \in Index
  PROVE  Window(f, i) > 0
<1>1. OpenWindow[f] \in Nat \ {0}
  BY FrameAssumption
<1> QED
  BY <1>1 DEF Window

LEMMA LongestControlPositive ==
  ASSUME NEW fs
  PROVE  LongestControl(fs) > 0
<1>1. Control["floor"] \in Nat \ {0} /\ Control["ordinary"] \in Nat \ {0}
  BY FrameAssumption DEF Families
<1> QED
  BY <1>1 DEF LongestControl

\* A slot opened at an estimate, of which nothing is heard, is waited for past
\* what the driver may add to the estimate.
LEMMA OpenSlotArms ==
  ASSUME NEW m, MasterOK(m), NEW t \in Nat, NEW end \in Nat,
         m.slot.stated = NoTime, m.slot.grant > 0
  PROVE  LET o == OpenSlot(m, t, end)
         IN  /\ o.tx = m.tx /\ o.slot.final = m.slot.final
             /\ o.proceed > end + KeyDelay + ReportDelay
             /\ o.proceed # NoTime
<1> DEFINE start == SlotStart(end, m.slot.lastFloor, m.slot.level, MasterTurnaround)
           endMax == start + m.slot.grant + IF m.slot.window THEN 0 ELSE Slack
           n == [m EXCEPT !.slot.txEnd = end, !.slot.start = start,
                          !.slot.endMax = endMax]
<1>1. m \in Masters /\ m.slot \in Slots
  BY DEF MasterOK, Masters
<1>2. /\ m.slot.lastFloor \in Families /\ m.slot.level \in Levels
      /\ m.slot.grant \in Nat /\ m.peerLate \in Nat
  BY <1>1 DEF Masters, Slots
<1>3. start \in Nat /\ start >= end + KeyDelay + ReportDelay
  <2>1. /\ Budget[m.slot.lastFloor] \in Nat /\ LevelGap[m.slot.level] \in Nat
        /\ KeyDelay + ReportDelay <= Budget[m.slot.lastFloor] + Key + Guard
    BY <1>2, ClockAssumption, DriverAssumption
  <2> QED
    BY <2>1, ConstantTypes DEF SlotStart, Max2
<1>4. endMax \in Nat /\ endMax > end + KeyDelay + ReportDelay
  <2> HIDE DEF start
  <2> QED
    BY <1>2, <1>3, ConstantTypes
<1>5. /\ n.slot.stated = NoTime /\ n.slot.endMax = endMax /\ n.peerLate = m.peerLate
      /\ n.tx = m.tx /\ n.slot.final = m.slot.final
  <2> HIDE DEF start, endMax
  <2> QED
    BY <1>1 DEF Masters, Slots
<1> HIDE DEF n
<1>6. SlotClose(n) \in Nat /\ SlotClose(n) >= endMax
  <2> DEFINE late == endMax + m.peerLate
             g == IF "floor" \in n.slot.answerFloors THEN "floor" ELSE "ordinary"
  <2>1. SlotClose(n) = After(late, g)
    BY <1>5 DEF SlotClose
  <2>2. late \in Nat /\ late >= endMax /\ g \in Families
    <3> HIDE DEF endMax
    <3> QED
      BY <1>2, <1>4 DEF Families
  <2>3. After(late, g) \in Nat /\ After(late, g) >= late
    <3> HIDE DEF late, g
    <3> QED
      BY <2>2, AfterNat
  <2> HIDE DEF late, endMax
  <2> QED
    BY <1>4, <2>1, <2>2, <2>3
<1> DEFINE due == Max2(t, SlotClose(n))
<1>7. due \in Nat /\ due >= SlotClose(n)
  <2> HIDE DEF endMax
  <2> QED
    BY <1>6 DEF Max2
<1>8. OpenSlot(m, t, end) = [n EXCEPT !.proceed = due]
  BY DEF OpenSlot, ArmWait, n
<1>9. n \in Masters
  <2>1. MasterOK(n)
    <3> HIDE DEF start, endMax
    <3> QED
      BY <1>1, <1>3, <1>4 DEF n, MasterOK, Masters, Slots
  <2> QED
    BY <2>1 DEF MasterOK
<1>10. /\ OpenSlot(m, t, end).tx = n.tx /\ OpenSlot(m, t, end).slot = n.slot
       /\ OpenSlot(m, t, end).proceed = due
  <2> HIDE DEF due
  <2> QED
    BY <1>8, <1>9 DEF Masters
<1> HIDE DEF due, endMax
<1> QED
  BY <1>4, <1>5, <1>6, <1>7, <1>10, ConstantTypes DEF NoTime

LEMMA SendHeaderArms ==
  ASSUME NEW m, MasterOK(m), NEW t \in Nat, NEW p \in AllPolicies
  PROVE  /\ Armed(SendHeader(m, t, p))
         /\ SendHeader(m, t, p).tx.phase = "wait"
         /\ SendHeader(m, t, p).tx.ready = t + MasterLatency
<1> DEFINE possible == Holds(m, p)
           answers == possible \cup {p.wanted}
           grant == IF p.flag THEN Window(p.hdrFloor, p.index)
                    ELSE LongestControl(answers) + Air(p.n, p.sized)
           ctl == [level |-> p.level, n |-> p.n, flag |-> p.flag, index |-> p.index,
                   fam |-> p.wanted, slotFloor |-> p.sized]
           plan == [opener |-> ~p.elide, floor |-> p.hdrFloor, count |-> p.count,
                    dataFloor |-> p.dataFloor, ctl |-> ctl]
           last == IF p.count > 0 THEN p.dataFloor ELSE p.hdrFloor
           floors == IF p.n > 0 /\ ~p.flag THEN answers \cup {p.sized} ELSE answers
           slot == NewSlot(grant, p.level, p.flag, last, floors)
           tx == Handed(t + MasterLatency, 0, NoTime, 0, plan)
           n == [m EXCEPT !.slot = slot, !.tx = tx, !.possible = possible]
           end == Estimate(t, plan)
<1>1. /\ p.n \in Nat /\ p.flag \in BOOLEAN /\ p.index \in Index
      /\ p.level \in Levels /\ p.wanted \in Families /\ p.sized \in Families
      /\ p.hdrFloor \in Families /\ p.count \in 0 .. MaxData /\ p.dataFloor \in Families
      /\ p.elide \in BOOLEAN
  BY ConstantTypes DEF AllPolicies
<1>2. grant \in Nat /\ grant > 0
  <2>1. Window(p.hdrFloor, p.index) \in Nat /\ Window(p.hdrFloor, p.index) > 0
    BY <1>1, WindowNat, WindowPositive
  <2>2. LongestControl(answers) \in Nat /\ LongestControl(answers) > 0
    BY LongestControlNat, LongestControlPositive
  <2>3. Air(p.n, p.sized) \in Nat
    BY <1>1, AirNat
  <2> QED
    BY <2>1, <2>2, <2>3
<1>3. plan \in Plans /\ AirTime(plan) \in Nat
  <2>1. plan \in Plans
    BY <1>1, ConstantTypes DEF Plans, Headers, AllPolicies
  <2> HIDE DEF plan
  <2> QED
    BY <2>1, AirTimeNat
<1>4. possible \subseteq Families
  BY <1>1 DEF Holds, MasterOK, Masters
<1>5. /\ slot \in Slots /\ slot.stated = NoTime /\ slot.grant = grant
      /\ slot.final = FALSE
  <2>1. last \in Families /\ floors \in SUBSET Families
    BY <1>1, <1>4
  <2> HIDE DEF grant, last, floors
  <2>2. slot \in Slots
    BY <1>1, <1>2, <2>1, NewSlotType
  <2> QED
    BY <2>2 DEF NewSlot
<1>6. /\ tx \in Transmissions /\ tx.phase = "wait" /\ tx.plan = plan
      /\ tx.ready = t + MasterLatency
  <2> HIDE DEF plan
  <2>1. t + MasterLatency \in Nat
    BY ConstantTypes
  <2>2. tx \in Transmissions
    BY <1>3, <2>1, HandedType, NoTimeInt
  <2> QED
    BY <2>2 DEF Handed
<1>7. MasterOK(n) /\ n.slot = slot /\ n.tx = tx
  <2> HIDE DEF slot, tx, possible
  <2> QED
    BY <1>4, <1>5, <1>6 DEF MasterOK, Masters
<1>8. end \in Nat /\ end = t + MasterLatency + AirTime(plan)
  <2> HIDE DEF plan
  <2> QED
    BY <1>3, ConstantTypes DEF Estimate
<1> DEFINE o == OpenSlot(n, t, end)
<1>9. /\ o.tx = tx /\ o.slot.final = FALSE
      /\ o.proceed > end + KeyDelay + ReportDelay
      /\ o.proceed # NoTime
  <2> HIDE DEF n, end, slot, tx
  <2> QED
    BY <1>2, <1>5, <1>7, <1>8, OpenSlotArms
<1>10. SendHeader(m, t, p) = o
  BY DEF SendHeader
<1> HIDE DEF o, end, tx, plan, slot
<1> QED
  BY <1>6, <1>8, <1>9, <1>10 DEF Armed

LEMMA DueInvInit == Init => DueInv
BY DEF Init, DueInv, Armed, Driven, NoTx

LEMMA DueInvNext == TypeInv /\ DueInv /\ [Next]_vars => DueInv'
<1> SUFFICES ASSUME TypeInv, DueInv, [Next]_vars
             PROVE  DueInv'
  OBVIOUS
<1>a. /\ now \in Nat /\ MasterOK(master) /\ master \in Masters
      /\ master.tx \in Transmissions /\ master.slot \in Slots
  BY DEF TypeInv, TypeOK, Masters
<1>b. /\ master.tx.plan \in Plans /\ AirTime(master.tx.plan) \in Nat
      /\ master.tx.ready \in Nat /\ master.tx.end \in Nat
  <2>1. master.tx.plan \in Plans /\ master.tx.ready \in Nat /\ master.tx.end \in Nat
    BY <1>a DEF Transmissions
  <2> QED
    BY <2>1, AirTimeNat
<1>c. Armed(master) /\ Driven(master, now)
  BY DEF DueInv
<1>1. CASE Tick
  <2>1. master' = master /\ now' = now + 1
    BY <1>1 DEF Tick
  <2>2. Driven(master, now + 1)
    BY <1>1, <1>a, <1>b, <1>c, ConstantTypes DEF Tick, Driven
  <2> QED
    BY <2>1, <2>2, <1>c DEF DueInv
<1>2. CASE Proceed
  <2> DEFINE closed == CloseSlot(master)
  <2>1. MasterOK(closed) /\ closed.tx = master.tx /\ now' = now
    BY <1>2, <1>a, CloseSlotType DEF Proceed, CloseSlot, Masters
  <2>2. CASE master' = closed
    BY <1>2, <2>1, <2>2 DEF Proceed, DueInv, Armed, Driven
  <2>3. ASSUME NEW p \in Policies, master' = SendHeader(closed, now, p)
        PROVE  DueInv'
    <3>1. /\ Armed(SendHeader(closed, now, p))
          /\ SendHeader(closed, now, p).tx.phase = "wait"
          /\ SendHeader(closed, now, p).tx.ready = now + MasterLatency
      BY <1>a, <2>1, PolicyAssumption, SendHeaderArms
    <3> HIDE DEF closed
    <3> QED
      BY <3>1, <2>1, <2>3, <1>a, ConstantTypes DEF DueInv, Driven
  <2> QED
    BY <1>2, <2>2, <2>3 DEF Proceed
<1>3. CASE MasterRadiates
  <2>1. /\ master'.tx.phase = "air" /\ master'.tx.plan = master.tx.plan
        /\ master'.tx.ready = master.tx.ready
        /\ master'.tx.end = now + AirTime(master.tx.plan)
        /\ master'.slot = master.slot /\ master'.proceed = master.proceed
        /\ now' = now /\ master.tx.phase = "wait"
    BY <1>3, <1>a DEF MasterRadiates, Masters, Transmissions
  <2>2. now <= master.tx.ready + KeyDelay
    BY <1>c, <2>1 DEF Driven
  <2>3. Armed(master')
    BY <1>c, <2>1 DEF Armed
  <2>4. Driven(master', now')
    BY <2>1, <2>2, <1>a, <1>b, ConstantTypes DEF Driven
  <2> QED
    BY <2>3, <2>4 DEF DueInv
<1>4. ASSUME NEW m, NEW t, m.tx.phase = "idle"
      PROVE  Armed(m) /\ Driven(m, t)
  BY <1>4 DEF Armed, Driven
<1>5. CASE MasterTxDone \/ MasterCutRead
  <2> DEFINE m == [master EXCEPT !.tx.phase = "idle", !.slot.final = TRUE]
             o == OpenSlot(m, now, master.tx.end)
  <2>1. master' = o
    BY <1>5 DEF MasterTxDone, MasterCutRead
  <2>2. m \in Masters /\ m.tx.phase = "idle"
    BY <1>a DEF Masters, Transmissions, Slots
  <2>3. o.tx = m.tx
    <3> HIDE DEF m
    <3> QED
      BY <2>2 DEF OpenSlot, ArmWait, Masters
  <2> HIDE DEF m, o
  <2> QED
    BY <2>1, <2>2, <2>3, <1>4 DEF DueInv
<1>6. CASE MasterCutUnread
  <2>1. master'.tx.phase = "idle"
    BY <1>6, <1>a DEF MasterCutUnread, Masters, Transmissions
  <2> QED
    BY <2>1, <1>4 DEF DueInv
<1>7. CASE MasterReads
  <2> SUFFICES ASSUME NEW f \in toMaster,
                      MasterReadsAnswer(f) \/ MasterReadsData(f), now' = now
               PROVE  DueInv'
    BY <1>7 DEF MasterReads
  <2>1. CASE ~InSlot(master, f)
    <3>1. master' = master
      BY <2>1 DEF MasterReadsAnswer, MasterReadsData
    <3> QED
      BY <3>1, <1>c DEF DueInv
  <2>2. CASE InSlot(master, f)
    <3>1. master.tx.phase = "idle"
      BY <2>2, <1>c DEF InSlot, Armed
    <3>2. master'.tx = master.tx
      BY <2>2, <1>a DEF MasterReadsAnswer, MasterReadsData, TakeAnswer, TakeData,
                        StateEnd, ArmWait, Masters
    <3> QED
      BY <3>1, <3>2, <1>4 DEF DueInv
  <2> QED
    BY <2>1, <2>2
<1>8. CASE SlaveReads \/ SlaveAnswerTimer \/ SlaveSend \/ SlaveRadiates
           \/ SlaveDropped \/ SlaveTxDone \/ UNCHANGED vars
  <2>1. master' = master /\ now' = now
    BY <1>8 DEF SlaveReads, SlaveAnswerTimer, SlaveSend, SlaveRadiates, SlaveDropped,
                SlaveTxDone, vars
  <2> QED
    BY <2>1, <1>c DEF DueInv
<1> QED
  BY <1>1, <1>2, <1>3, <1>5, <1>6, <1>7, <1>8 DEF Next

LEMMA DueInvSuffices == TypeInv /\ DueInv => DueMeansDone
<1> SUFFICES ASSUME TypeInv, DueInv, master.tx.phase # "idle"
             PROVE  now < master.proceed
  BY DEF DueMeansDone, TypeInv, TypeOK, Masters, MaybeTime, NoTime
<1>1. /\ now \in Nat /\ master \in Masters /\ master.tx \in Transmissions
  BY DEF TypeInv, TypeOK, Masters
<1>2. /\ AirTime(master.tx.plan) \in Nat /\ master.tx.ready \in Nat
      /\ master.tx.end \in Nat /\ master.tx.phase \in {"wait", "air"}
  <2>1. /\ master.tx.plan \in Plans /\ master.tx.ready \in Nat /\ master.tx.end \in Nat
        /\ master.tx.phase \in {"idle", "wait", "air"}
    BY <1>1 DEF Transmissions
  <2> QED
    BY <2>1, AirTimeNat
<1>3. master.proceed \in Int
  BY <1>1, NoTimeInt DEF Masters, MaybeTime
<1> QED
  BY <1>1, <1>2, <1>3, ConstantTypes DEF DueInv, Armed, Driven

\* The master's next key never falls due while its driver still has the last
\* transmission, whatever the lengths and policies, as long as the driver radiates
\* and reports within what a slot leaves room for (DriverAssumption).
THEOREM DueMeansDoneHolds == Spec => []DueMeansDone
<1>1. Init => TypeInv /\ DueInv
  BY TypeInvInit, DueInvInit
<1>2. TypeInv /\ DueInv /\ [Next]_vars => (TypeInv /\ DueInv)'
  BY TypeInvNext, DueInvNext
<1>3. TypeInv /\ DueInv => DueMeansDone
  BY DueInvSuffices
<1> QED
  BY <1>1, <1>2, <1>3, PTL DEF Spec

-----------------------------------------------------------------------------
(***************************************************************************)
(* The two stations share the frequency.  One invariant carries all of it: *)
(* each thing the slave has scheduled or handed over is either of the      *)
(* master's latest transmission, and lies in the slot that transmission    *)
(* granted, or of an earlier one, and can no longer be keyed.              *)
(***************************************************************************)

\* Its latest transmission has been radiated and its slot is not over.
Live(m) == m.tx.phase = "air" \/ (m.tx.phase = "idle" /\ m.slot.on)

\* No sooner than this does the slave radiate in that slot; no later than this
\* does it end: where the master reckons the slot's latest end, and the rounding.
Begins(m) == SlotStart(m.tx.end, m.slot.lastFloor, 0, MasterDeclared)
Latest(m) == SlotStart(m.tx.end, m.slot.lastFloor, m.slot.level, MasterTurnaround)
             + m.slot.grant + IF m.slot.window THEN 0 ELSE Slack
Bound(m) == Latest(m) + Rounding

\* The slot is the one the transmission's header states, and has room for an
\* answer in every family the slave may hold, until the answer is read.
SlotOfPlan(m) ==
  LET plan == m.tx.plan
  IN  /\ m.slot.level = plan.ctl.level /\ m.slot.window = plan.ctl.flag
      /\ m.slot.lastFloor = IF plan.count > 0 THEN plan.dataFloor ELSE plan.floor
      /\ plan.opener \/ plan.count > 0
      /\ plan.ctl.flag => /\ plan.opener /\ plan.count = 0
                          /\ m.slot.grant = Window(plan.floor, plan.ctl.index)
      /\ m.slot.stated = NoTime =>
           /\ plan.ctl.fam \in m.possible
           /\ ~plan.ctl.flag => \A g \in m.possible :
                Control[g] + Air(plan.ctl.n, plan.ctl.slotFloor) <= m.slot.grant

MasterInv(m, t) ==
  /\ m.slot.on => SlotOfPlan(m)
  /\ m.tx.phase # "idle" => m.slot.on /\ ~m.slot.final
  /\ m.tx.phase = "idle" /\ m.slot.on =>
       /\ m.slot.final /\ m.slot.txEnd = m.tx.end /\ m.slot.endMax = Latest(m)
       /\ m.proceed # NoTime /\ m.proceed >= SlotClose(m)
  /\ Live(m) => m.tx.end = m.tx.start + AirTime(m.tx.plan) /\ m.tx.start <= t
  /\ m.slot.stated # NoTime => m.tx.phase = "idle" /\ m.slot.on /\ m.slot.stated >= m.tx.end

-----------------------------------------------------------------------------
\* Where the transmission of a frame ends, as far as its count says, and where
\* the slot closes that the slave would take from the frame.
EndOf(f) == IF f.kind = "control" THEN f.tEnd + Air(f.count, f.dataFloor)
                                  ELSE f.tEnd + f.follows * (f.tEnd - f.tStart)
Closes(f) ==
  IF f.kind = "control"
  THEN SlotStart(EndOf(f), IF f.count > 0 THEN f.dataFloor ELSE f.floor, f.ctl.level,
                 MasterDeclared)
       + IF f.ctl.flag THEN Window(f.floor, f.ctl.index) ELSE Slack
  ELSE SlotStart(EndOf(f), f.floor, 0, MasterDeclared) + Slack

\* A frame of an earlier transmission: its slot is over, or the slave refuses it.
Stale(s, f, old, t) ==
  /\ EndOf(f) <= old
  /\ f.tEnd <= s.answered \/ Closes(f) < t

\* What the slave may still read, oldest first, is in order, and no header is of
\* the transmission it has anchored.
FrameShape(m, s, frames) ==
  /\ \A f \in frames :
       /\ f.tStart < f.tEnd /\ f.tEnd <= EndOf(f)
       /\ f.kind = "control" => /\ f.ctl.fam \in m.possible
                                /\ s.mEnd # NoTime => s.mEnd <= f.tStart
  /\ \A f, g \in frames : f.kind = "control" /\ g.tStart < f.tStart => EndOf(g) <= f.tStart

\* What the slave has scheduled is for the transmission it has anchored, and that
\* one is not answered.
SlaveShape(s) ==
  /\ s.mEnd = NoTime => ~s.grant.on /\ s.answer.what # "Ans" /\ ~s.window.on
  /\ s.mEnd # NoTime => s.answered <= s.mEnd
  /\ s.answer.what = "Ans" =>
       /\ s.answer.anchor = s.mEnd /\ s.answered < s.mEnd /\ ~s.window.on
       /\ s.answer.notAfter = s.answer.start + Slack
  /\ s.window.on => s.answered < s.mEnd /\ s.window.start <= s.window.end

\* Nothing the slave has scheduled, handed over or anchored is later than `old',
\* and nothing of it can be keyed any more.
NoneLeft(s, t) == s.tx.phase = "wait" => s.tx.notAfter < t
Spent(s, t, old) ==
  /\ s.mEnd <= old /\ s.answered <= old /\ s.tx.end <= old
  /\ s.answer.what = "Ans" => s.answer.start + Slack < t
  /\ s.window.on => s.window.end < t
  /\ NoneLeft(s, t)

HeaderEnd(m) == m.tx.start + IF m.tx.plan.opener THEN Control[m.tx.plan.floor] ELSE 0

\* It has anchored the latest transmission and owes it an answer ...
AnsFits(m, s) ==
  /\ s.answer.floor = s.sticky
  /\ s.answer.start >= Begins(m)
  /\ s.answer.start + Slack + Control[s.sticky] + s.answer.room <= Bound(m)
WindowFits(m, s) ==
  /\ s.window.floor = s.sticky
  /\ s.window.start >= Begins(m)
  /\ s.window.end <= Bound(m)
Owing(m, s, t) ==
  /\ s.mEnd = m.tx.end /\ HeaderEnd(m) <= t
  /\ s.answered <= m.tx.start /\ s.tx.end <= m.tx.start /\ NoneLeft(s, t)
  /\ s.answer.what = "Ans" => AnsFits(m, s)
  /\ s.window.on => WindowFits(m, s)

\* ... or it has given or forfeited it.
TxFits(m, s) ==
  /\ s.tx.plan.opener /\ s.tx.plan.floor = s.sticky
  /\ s.tx.ready >= Begins(m) \/ s.tx.notBefore >= Begins(m)
  /\ s.tx.notAfter + AirTime(s.tx.plan) <= Bound(m)
Given(m, s, t) ==
  /\ s.mEnd = m.tx.end /\ s.answered = m.tx.end /\ HeaderEnd(m) <= t
  /\ s.tx.phase = "wait" => s.tx.end <= m.tx.start /\ (TxFits(m, s) \/ s.tx.notAfter < t)
  /\ s.tx.end > t => s.tx.phase = "air" /\ Begins(m) <= s.tx.start /\ s.tx.start <= t
  /\ s.tx.end <= Bound(m)

\* How what the slave holds stands to the latest transmission, and every frame it
\* may still read.
Mode(m, s, t) ==
  IF Live(m) THEN Spent(s, t, m.tx.start) \/ Owing(m, s, t) \/ Given(m, s, t)
             ELSE Spent(s, t, t)
Settled(m, s, t, f) ==
  IF Live(m) THEN f \in FramesOf(m.tx.plan, m.tx.start) \/ Stale(s, f, m.tx.start, t)
             ELSE Stale(s, f, t, t)

SharedInv(m, s, t, frames) ==
  /\ \A f \in frames : Settled(m, s, t, f)
  /\ Mode(m, s, t)
  /\ Live(m) /\ m.slot.stated # NoTime =>
       Given(m, s, t) /\ s.tx.end = m.slot.stated /\ s.tx.phase # "wait"

RepliesInv(m, s, frames) ==
  \A f \in frames :
    /\ f.tStart < f.tEnd /\ f.tEnd <= s.tx.end
    /\ Live(m) /\ f.tStart >= m.tx.end =>
         /\ s.answered = m.tx.end /\ s.tx.phase # "wait"
         /\ s.tx.plan.opener /\ s.tx.plan.floor = s.sticky
         /\ f \in FramesOf(s.tx.plan, s.tx.start)
         /\ s.tx.end = s.tx.start + AirTime(s.tx.plan)

\* The slave hears again at t, as the master reckons its turnaround.
Hears(s, t) == s.tx.end > 0 => s.tx.end + SlaveDeclared <= t + Rounding
HearsInv(m, s, t) ==
  /\ m.tx.phase = "wait" => Hears(s, m.tx.ready)
  /\ m.tx.phase = "air" => Hears(s, m.tx.start) \/ t >= m.tx.end
  /\ m.tx.phase = "idle" /\ ~m.slot.on /\ m.proceed # NoTime => Hears(s, m.proceed)

-----------------------------------------------------------------------------
\* Air times add up.

LEMMA ProductSum ==
  ASSUME NEW a \in Int, NEW b \in Int, NEW c \in Int
  PROVE  (a + b) * c = a * c + b * c
OBVIOUS

LEMMA AirSum ==
  ASSUME NEW a \in Nat, NEW b \in Nat, NEW f \in Families
  PROVE  Air(a + b, f) = Air(a, f) + Air(b, f)
<1> DEFINE c == Frame[f]
<1>1. c \in Int
  BY FrameAssumption
<1>2. (a + b) * c = a * c + b * c
  <2> HIDE DEF c
  <2> QED
    BY <1>1, ProductSum
<1> QED
  BY <1>2 DEF Air

LEMMA AirOne ==
  ASSUME NEW n \in Nat, NEW f \in Families
  PROVE  Air(n, f) = n * Frame[f]
BY DEF Air

LEMMA AirMonotone ==
  ASSUME NEW a \in Nat, NEW b \in Nat, a <= b, NEW f \in Families
  PROVE  Air(a, f) <= Air(b, f)
<1>1. b - a \in Nat /\ a + (b - a) = b
  OBVIOUS
<1>2. Air(a + (b - a), f) = Air(a, f) + Air(b - a, f)
  BY <1>1, AirSum
<1>3. Air(a, f) \in Nat /\ Air(b - a, f) \in Nat
  BY <1>1, AirNat
<1> QED
  BY <1>1, <1>2, <1>3

LEMMA QuotientFits ==
  ASSUME NEW a \in Nat, NEW b \in Nat \ {0}
  PROVE  (a \div b) * b <= a
OBVIOUS

\* The frames a room holds fit in it.
LEMMA FitAir ==
  ASSUME NEW n \in Nat, NEW room \in Nat, NEW f \in Families, n <= Fit(room, f)
  PROVE  Air(n, f) <= room
<1>1. Fit(room, f) \in Nat
  BY FitNat
<1>2. Air(n, f) <= Air(Fit(room, f), f)
  BY <1>1, AirMonotone
<1>3. Air(Fit(room, f), f) <= room
  <2> DEFINE b == Frame[f]
  <2>1. b \in Nat \ {0}
    BY FrameAssumption
  <2>2. (room \div b) * b <= room
    <3> HIDE DEF b
    <3> QED
      BY <2>1, QuotientFits
  <2> QED
    BY <2>2 DEF Air, Fit
<1>4. Air(n, f) \in Nat /\ Air(Fit(room, f), f) \in Nat
  BY <1>1, AirNat
<1> QED
  BY <1>2, <1>3, <1>4

LEMMA AirTimeOf ==
  ASSUME NEW plan \in Plans
  PROVE  /\ AirTime(plan) = (IF plan.opener THEN Control[plan.floor] ELSE 0)
                            + Air(plan.count, plan.dataFloor)
         /\ Control[plan.floor] \in Nat \ {0} /\ Air(plan.count, plan.dataFloor) \in Nat
         /\ plan.opener \/ plan.count > 0 => AirTime(plan) > 0
<1>1. plan.floor \in Families /\ plan.dataFloor \in Families /\ plan.count \in Nat
  BY FrameAssumption DEF Plans
<1>2. Control[plan.floor] \in Nat \ {0} /\ Frame[plan.dataFloor] \in Nat \ {0}
  BY <1>1, FrameAssumption
<1>3. Air(plan.count, plan.dataFloor) \in Nat
  BY <1>1, AirNat
<1>4. plan.count > 0 => Air(plan.count, plan.dataFloor) > 0
  <2> SUFFICES ASSUME plan.count > 0
               PROVE  Air(plan.count, plan.dataFloor) > 0
    OBVIOUS
  <2>1. plan.count - 1 \in Nat /\ (plan.count - 1) + 1 = plan.count
    BY <1>1
  <2>2. Air((plan.count - 1) + 1, plan.dataFloor)
          = Air(plan.count - 1, plan.dataFloor) + Frame[plan.dataFloor]
    BY <1>1, <2>1, AirStep
  <2>3. Air(plan.count - 1, plan.dataFloor) \in Nat
    BY <1>1, <2>1, AirNat
  <2> QED
    BY <1>2, <2>1, <2>2, <2>3
<1> QED
  BY <1>2, <1>3, <1>4 DEF AirTime

\* Where the slave reckons the slot begins: not before the master's own reckoning
\* and at most the rounding of its turnaround later, sooner without a level.
LEMMA SlotStartFacts ==
  ASSUME NEW end \in Int, NEW f \in Families, NEW l \in Levels
  PROVE  /\ SlotStart(end, f, l, MasterDeclared) \in Int
         /\ SlotStart(end, f, l, MasterTurnaround) \in Int
         /\ SlotStart(end, f, 0, MasterDeclared) <= SlotStart(end, f, l, MasterDeclared)
         /\ SlotStart(end, f, l, MasterDeclared)
              <= SlotStart(end, f, l, MasterTurnaround) + Rounding
         /\ end + MasterTurnaround <= SlotStart(end, f, l, MasterDeclared)
         /\ end <= SlotStart(end, f, l, MasterTurnaround)
         /\ end + Budget[f] + Key + Guard <= SlotStart(end, f, l, MasterDeclared)
         /\ Budget[f] \in Nat
<1>1. Budget[f] \in Nat /\ Key \in Nat /\ Guard \in Nat /\ LevelGap[l] \in Nat /\ LevelGap[0] = 0
  BY ClockAssumption
<1>2. MasterDeclared \in Nat /\ MasterTurnaround \in Nat /\ MasterTurnaround <= MasterDeclared
  BY TurnaroundAssumption
<1> QED
  BY <1>1, <1>2 DEF SlotStart, Max2, Rounding

\* The same family and level: a later end, a later slot.
LEMMA SlotStartLater ==
  ASSUME NEW end \in Int, NEW end2 \in Int, end <= end2,
         NEW f \in Families, NEW l \in Levels
  PROVE  SlotStart(end, f, l, MasterDeclared) <= SlotStart(end2, f, l, MasterDeclared)
<1>1. Budget[f] \in Nat /\ Key \in Nat /\ Guard \in Nat /\ LevelGap[l] \in Nat
  BY ClockAssumption
<1> QED
  BY <1>1, TurnaroundAssumption DEF SlotStart, Max2

\* What the master waits past an end: more than the rounding, and what the slave's
\* radio takes to hear again.
LEMMA AfterFacts ==
  ASSUME NEW end \in Int, NEW f \in Families
  PROVE  /\ After(end, f) \in Int
         /\ end + Rounding < After(end, f)
         /\ end + SlaveDeclared <= After(end, f) + MasterLatency
         /\ Rounding \in Nat
<1>1. Budget[f] \in Nat /\ Guard \in Nat /\ Key \in Nat /\ MasterLatency \in Nat /\ AnswerGap \in Nat
  BY ClockAssumption
<1>2. /\ SlaveDeclared \in Nat /\ MasterDeclared \in Nat /\ MasterTurnaround \in Nat
      /\ Step \in Nat /\ MasterDeclared < MasterTurnaround + Step /\ Step <= Budget[f] + Guard
      /\ MasterTurnaround <= MasterDeclared
  BY TurnaroundAssumption
<1>3. Rounding \in Nat /\ Rounding < Step
  BY <1>2 DEF Rounding
<1> DEFINE gap == Max2(SlaveDeclared, AnswerGap) - Min2(Key, MasterLatency)
<1>4. gap \in Int /\ gap + MasterLatency >= SlaveDeclared
  BY <1>1, <1>2 DEF Max2, Min2
<1>5. After(end, f) = end + Max2(Budget[f], gap) + Guard
  BY DEF After
<1> HIDE DEF gap
<1> QED
  BY <1>1, <1>2, <1>3, <1>4, <1>5 DEF Max2
\* What a transmission radiates: where its frames lie, and where each one says it
\* ends.
FrameOf(plan, at, f) ==
  /\ at <= f.tStart /\ f.tStart < f.tEnd /\ f.tEnd <= EndOf(f)
  /\ EndOf(f) <= at + AirTime(plan)
  /\ plan.opener => at + Control[plan.floor] <= f.tEnd
  /\ f.kind = "control" =>
       /\ plan.opener /\ f.tStart = at /\ EndOf(f) = at + AirTime(plan)
       /\ f.floor = plan.floor /\ f.count = plan.count /\ f.dataFloor = plan.dataFloor
       /\ f.ctl = plan.ctl
  /\ f.kind # "control" =>
       /\ plan.count > 0 /\ f.floor = plan.dataFloor
       /\ f.follows < MaxFollows => EndOf(f) = at + AirTime(plan)
       /\ EndOf(f) \in Nat

LEMMA FramesOfFacts ==
  ASSUME NEW plan \in Plans, NEW at \in Nat, NEW f \in FramesOf(plan, at)
  PROVE  FrameOf(plan, at, f)
<1> DEFINE opening == IF plan.opener THEN Control[plan.floor] ELSE 0
           data == at + opening
           g == plan.dataFloor
           F == Frame[g]
<1>1. /\ plan.floor \in Families /\ g \in Families /\ plan.count \in Nat
      /\ F \in Nat \ {0} /\ Control[plan.floor] \in Nat \ {0} /\ MaxFollows \in Nat \ {0}
  BY FrameAssumption DEF Plans
<1>2. /\ AirTime(plan) = opening + Air(plan.count, g) /\ Air(plan.count, g) \in Nat
      /\ data \in Nat /\ at <= data /\ (plan.opener => data = at + Control[plan.floor])
  BY <1>1, AirTimeOf
<1>3. CASE /\ plan.opener
           /\ f = [kind |-> "control", tStart |-> at, tEnd |-> data,
                   floor |-> plan.floor, count |-> plan.count,
                   dataFloor |-> plan.dataFloor, ctl |-> plan.ctl]
  <2>1. /\ f.kind = "control" /\ f.tStart = at /\ f.tEnd = data /\ f.floor = plan.floor
        /\ f.count = plan.count /\ f.dataFloor = g /\ f.ctl = plan.ctl
    BY <1>3
  <2>2. EndOf(f) = data + Air(plan.count, g)
    BY <2>1 DEF EndOf
  <2> HIDE DEF data, g, F
  <2>3. EndOf(f) = at + AirTime(plan)
    BY <2>2, <1>1, <1>2 DEF data
  <2> QED
    BY <1>1, <1>2, <1>3, <2>1, <2>2, <2>3 DEF FrameOf, g
<1>4. CASE \E i \in 0 .. (plan.count - 1) :
             f = [kind |-> "data", tStart |-> data + Air(i, plan.dataFloor),
                  tEnd |-> data + Air(i + 1, plan.dataFloor),
                  floor |-> plan.dataFloor, follows |-> Follows(plan.count, i)]
  <2>1. PICK i \in 0 .. (plan.count - 1) :
               f = [kind |-> "data", tStart |-> data + Air(i, g),
                    tEnd |-> data + Air(i + 1, g),
                    floor |-> g, follows |-> Follows(plan.count, i)]
    BY <1>4
  <2> DEFINE k == Follows(plan.count, i)
             rest == plan.count - 1 - i
  <2>2. /\ f.kind = "data" /\ f.tStart = data + Air(i, g) /\ f.tEnd = data + Air(i + 1, g)
        /\ f.floor = g /\ f.follows = k
    BY <2>1
  <2>3. /\ i \in Nat /\ rest \in Nat /\ plan.count > 0 /\ i + 1 \in Nat
        /\ plan.count = (i + 1) + rest
    BY <1>1
  <2>4. k \in Nat /\ k <= rest /\ (k < MaxFollows => k = rest)
    <3> HIDE DEF g, data
    <3> QED
      BY <1>1, <2>3 DEF Follows, Min2
  <2> HIDE DEF k, rest, data, g, opening
  <2>5. Air(i + 1, g) = Air(i, g) + F
    BY <1>1, <2>3, AirStep DEF g
  <2>6. f.tEnd - f.tStart = F
    <3>1. Air(i, g) \in Nat
      BY <1>1, <2>3, AirNat
    <3> HIDE DEF F
    <3> QED
      BY <1>1, <1>2, <2>2, <2>5, <3>1
  <2>7. EndOf(f) = f.tEnd + Air(k, g)
    <3>1. Air(k, g) = k * F
      BY <1>1, <2>4, AirOne DEF g
    <3> HIDE DEF F
    <3> QED
      BY <2>2, <2>6, <3>1 DEF EndOf
  <2>8. Air(plan.count, g) = Air(i + 1, g) + Air(rest, g)
    <3>1. Air((i + 1) + rest, g) = Air(i + 1, g) + Air(rest, g)
      BY <1>1, <2>3, AirSum
    <3> QED
      BY <2>3, <3>1
  <2>9. /\ Air(i, g) \in Nat /\ Air(i + 1, g) \in Nat /\ Air(rest, g) \in Nat /\ Air(k, g) \in Nat
        /\ Air(k, g) <= Air(rest, g)
    <3>1. Air(i, g) \in Nat /\ Air(i + 1, g) \in Nat /\ Air(rest, g) \in Nat /\ Air(k, g) \in Nat
      BY <1>1, <2>3, <2>4, AirNat
    <3>2. Air(k, g) <= Air(rest, g)
      BY <1>1, <2>3, <2>4, AirMonotone
    <3> QED
      BY <3>1, <3>2
  <2> HIDE DEF F
  <2>10. /\ at <= f.tStart /\ f.tStart < f.tEnd /\ data <= f.tEnd
         /\ f.tEnd <= EndOf(f) /\ EndOf(f) \in Nat
    BY <1>1, <1>2, <2>2, <2>5, <2>7, <2>9
  <2>11. EndOf(f) <= data + Air(plan.count, g)
    BY <1>1, <1>2, <2>2, <2>7, <2>8, <2>9
  <2>12. k < MaxFollows => EndOf(f) = data + Air(plan.count, g)
    <3> SUFFICES ASSUME k < MaxFollows
                 PROVE  EndOf(f) = data + Air(plan.count, g)
      OBVIOUS
    <3>1. k = rest
      BY <2>4
    <3> QED
      BY <1>1, <1>2, <2>2, <2>7, <2>8, <2>9, <3>1
  <2>13. data + Air(plan.count, g) = at + AirTime(plan)
    BY <1>1, <1>2 DEF data, opening
  <2> QED
    BY <1>1, <1>2, <2>2, <2>3, <2>10, <2>11, <2>12, <2>13 DEF FrameOf, g
<1> QED
  BY <1>3, <1>4 DEF FramesOf

\* No frame of a transmission follows its header's beginning and is a header.
LEMMA FramesOfOrder ==
  ASSUME NEW plan \in Plans, NEW at \in Nat, NEW f \in FramesOf(plan, at),
         NEW g \in FramesOf(plan, at), f.kind = "control"
  PROVE  ~(g.tStart < f.tStart)
<1>1. FrameOf(plan, at, f) /\ FrameOf(plan, at, g)
  BY FramesOfFacts
<1>2. g.tStart \in Int /\ f.tStart \in Int
  BY FramesOfType DEF ControlFrames, DataFrames
<1> QED
  BY <1>1, <1>2 DEF FrameOf

-----------------------------------------------------------------------------
\* What the slave's functions do with what it has scheduled.

LEMMA SlaveFields ==
  ASSUME NEW s \in Slaves
  PROVE  /\ s.mEnd \in Int /\ s.mEnd >= NoTime /\ (s.mEnd # NoTime => s.mEnd \in Nat)
         /\ s.answered \in Int /\ s.answered >= NoTime
         /\ s.answer.start \in Nat /\ s.answer.notAfter \in Nat /\ s.answer.room \in Nat
         /\ s.answer.floor \in Families /\ s.answer.anchor \in Nat
         /\ s.window.on \in BOOLEAN /\ s.window.start \in Nat /\ s.window.end \in Nat
         /\ s.window.floor \in Families
         /\ s.grant.on \in BOOLEAN /\ s.grant.floor \in Families
         /\ s.grant.ctl \in Headers /\ s.sticky \in Families /\ s.mLast \in Families
         /\ s.tx \in Transmissions /\ s.tx.plan \in Plans
         /\ s.tx.ready \in Nat /\ s.tx.notBefore \in Nat /\ s.tx.notAfter \in Int
         /\ s.tx.start \in Nat /\ s.tx.end \in Nat
         /\ s.tx.phase \in {"idle", "wait", "air"}
BY DEF Slaves, Transmissions, MaybeTime, NoTime

\* Nothing was keyed: what is scheduled is what was, or less.
Quiet(s, r) ==
  /\ r \in Slaves
  /\ r.mEnd = s.mEnd /\ r.sticky = s.sticky /\ r.answered = s.answered /\ r.tx = s.tx
  /\ r.grant = s.grant /\ r.window = s.window
  /\ r.answer.what = "Ans" => r.answer = s.answer

\* The answer was forfeited, or handed over to radiate where it was scheduled.
AnswerKeyed(s, r) ==
  /\ s.answer.what = "Ans"
  /\ r.tx.plan.floor = s.answer.floor
  /\ r.tx.notBefore = s.answer.start /\ r.tx.notAfter = s.answer.notAfter
  /\ AirTime(r.tx.plan) <= Control[s.answer.floor] + s.answer.room
WindowKeyed(s, r) ==
  /\ s.window.on
  /\ r.tx.plan.floor = s.window.floor
  /\ r.tx.ready >= s.window.start /\ r.tx.notAfter + AirTime(r.tx.plan) = s.window.end
Keyed(s, r) ==
  /\ r \in Slaves
  /\ r.mEnd = s.mEnd /\ r.sticky = s.sticky /\ r.grant = s.grant
  /\ s.answered < s.mEnd /\ r.answered = s.mEnd
  /\ r.answer.what # "Ans" /\ ~r.window.on
  /\ \/ s.answer.what = "Ans" /\ r.tx = s.tx
     \/ /\ r.tx.phase = "wait" /\ r.tx.end = s.tx.end /\ r.tx.plan.opener
        /\ AnswerKeyed(s, r) \/ WindowKeyed(s, r)

\* A transmission handed over fits in the room it was reckoned for.
LEMMA SendAnswerFacts ==
  ASSUME NEW s \in Slaves, NEW t \in Nat, NEW c \in AllChoices, NEW floor \in Families,
         NEW room \in Nat, NEW notBefore \in Nat, NEW notAfter \in Int,
         NEW windowEnd \in Nat \cup {NoTime}
  PROVE  LET r == SendAnswer(s, t, c, floor, room, notBefore, notAfter, windowEnd)
         IN  /\ r \in Slaves
             /\ r.mEnd = s.mEnd /\ r.sticky = s.sticky /\ r.answered = s.answered
             /\ r.grant = s.grant /\ r.window = s.window /\ r.answer = s.answer
             /\ r.tx.phase = "wait" /\ r.tx.end = s.tx.end /\ r.tx.plan.opener
             /\ r.tx.plan \in Plans /\ r.tx.plan.floor = floor
             /\ r.tx.ready = t + SlaveLatency /\ r.tx.notBefore = notBefore
             /\ windowEnd = NoTime => r.tx.notAfter = notAfter
             /\ windowEnd # NoTime => r.tx.notAfter + AirTime(r.tx.plan) = windowEnd
             /\ AirTime(r.tx.plan) <= Control[floor] + room
<1> DEFINE plan == [opener |-> TRUE, floor |-> floor,
                    count |-> Min2(c.k, Fit(room, c.g)), dataFloor |-> c.g,
                    ctl |-> NoCtl]
           latest == IF windowEnd # NoTime THEN EndsInWindow(windowEnd, plan) ELSE notAfter
           tx == Handed(t + SlaveLatency, notBefore, latest, s.tx.end, plan)
           r == SendAnswer(s, t, c, floor, room, notBefore, notAfter, windowEnd)
<1>1. r \in Slaves
  BY SendAnswerType
<1>2. r = [RestartRx(s) EXCEPT !.tx = tx]
  BY DEF SendAnswer
<1>3. /\ c.k \in Nat /\ c.g \in Families /\ Fit(room, c.g) \in Nat
      /\ plan.count \in Nat /\ plan.count <= Fit(room, c.g)
  <2>1. c.k \in Nat /\ c.g \in Families
    BY ConstantTypes DEF AllChoices
  <2>2. Fit(room, c.g) \in Nat
    BY <2>1, FitNat
  <2> QED
    BY <2>1, <2>2 DEF Min2
<1>4. /\ r.mEnd = s.mEnd /\ r.sticky = s.sticky /\ r.answered = s.answered
      /\ r.grant = s.grant /\ r.window = s.window /\ r.answer = s.answer /\ r.tx = tx
  <2> HIDE DEF tx
  <2> QED
    BY <1>2 DEF Slaves, RestartRx
<1>5. /\ tx.phase = "wait" /\ tx.end = s.tx.end /\ tx.plan = plan
      /\ tx.ready = t + SlaveLatency /\ tx.notBefore = notBefore /\ tx.notAfter = latest
  <2> HIDE DEF plan, latest
  <2> QED
    BY DEF Handed
<1>6. plan.opener /\ plan.floor = floor /\ plan.dataFloor = c.g
  OBVIOUS
<1>7. plan \in Plans
  BY <1>1, <1>4, <1>5, SlaveFields
<1>8. Air(plan.count, plan.dataFloor) <= room
  <2> HIDE DEF plan
  <2> QED
    BY <1>3, <1>6, FitAir
<1>9. AirTime(plan) = Control[floor] + Air(plan.count, plan.dataFloor) /\ AirTime(plan) \in Nat
  <2> HIDE DEF plan
  <2> QED
    BY <1>6, <1>7, AirTimeOf, AirTimeNat
<1>10. AirTime(plan) <= Control[floor] + room
  <2> HIDE DEF plan
  <2>1. Control[floor] \in Nat /\ Air(plan.count, plan.dataFloor) \in Nat
    BY <1>7, <1>6, AirTimeOf
  <2> QED
    BY <1>8, <1>9, <2>1
<1>11. windowEnd # NoTime => latest + AirTime(plan) = windowEnd
  <2> HIDE DEF plan
  <2> QED
    BY <1>9, NoTimeInt DEF EndsInWindow
<1> HIDE DEF plan, tx, r
<1>12. windowEnd = NoTime => latest = notAfter
  OBVIOUS
<1> HIDE DEF latest
<1> QED
  BY <1>1, <1>4, <1>5, <1>6, <1>7, <1>10, <1>11, <1>12 DEF r

LEMMA TryWindowKeys ==
  ASSUME NEW s \in Slaves, NEW t \in Nat, NEW c \in AllChoices, SlaveShape(s)
  PROVE  \/ Quiet(s, TryWindow(s, t, c))
         \/ s.answer.what # "Ans" /\ Keyed(s, TryWindow(s, t, c))
<1> DEFINE w == s.window
           onAir == t + SlaveLatency
           room == w.end - onAir - Control[w.floor]
           r == TryWindow(s, t, c)
<1>1. r \in Slaves
  BY TryWindowType
<1>2. CASE ~w.on
  <2>1. r = s
    BY <1>2 DEF TryWindow
  <2> QED
    BY <2>1, <1>1 DEF Quiet
<1>3. CASE w.on /\ onAir < w.start
  <2> DEFINE a == [what |-> "Window", start |-> w.start, notAfter |-> w.end,
                   floor |-> w.floor, anchor |-> 0, room |-> 0]
  <2>1. r = [s EXCEPT !.answer = a]
    <3>1. ~(onAir >= w.start)
      BY <1>3, SlaveFields, ConstantTypes
    <3> QED
      BY <1>3, <3>1 DEF TryWindow
  <2>2. a.what # "Ans"
    OBVIOUS
  <2> HIDE DEF a
  <2>3. /\ r.mEnd = s.mEnd /\ r.sticky = s.sticky /\ r.answered = s.answered /\ r.tx = s.tx
        /\ r.grant = s.grant /\ r.window = s.window /\ r.answer = a
    BY <2>1 DEF Slaves
  <2> HIDE DEF r
  <2> QED
    BY <2>2, <2>3, <1>1 DEF Quiet, r
<1>4. CASE w.on /\ onAir >= w.start /\ c.work /\ room >= 0
  <2> DEFINE u == Used(s)
  <2>1. r = SendAnswer(u, t, c, w.floor, room, 0, NoTime, w.end)
    <3>1. ~(onAir < w.start)
      BY <1>4, SlaveFields, ConstantTypes
    <3> QED
      BY <1>4, <3>1 DEF TryWindow
  <2>2. /\ u \in Slaves /\ u.mEnd = s.mEnd /\ u.sticky = s.sticky /\ u.answered = s.mEnd
        /\ u.tx = s.tx /\ u.grant = s.grant /\ u.answer = s.answer /\ ~u.window.on
    BY UsedType DEF Used, Slaves, NoWindow
  <2>3. w.floor \in Families /\ w.end \in Nat /\ w.end # NoTime /\ onAir \in Nat
    BY SlaveFields, ConstantTypes DEF NoTime
  <2>4. room \in Nat
    <3>1. Control[w.floor] \in Nat
      BY <2>3, FrameAssumption
    <3> HIDE DEF w, onAir
    <3> QED
      BY <1>4, <2>3, <3>1
  <2> HIDE DEF u, r, room, w
  <2>5. /\ r.mEnd = u.mEnd /\ r.sticky = u.sticky /\ r.answered = u.answered
        /\ r.grant = u.grant /\ r.window = u.window /\ r.answer = u.answer
        /\ r.tx.phase = "wait" /\ r.tx.end = u.tx.end /\ r.tx.plan.opener
        /\ r.tx.plan.floor = w.floor /\ r.tx.ready = onAir
        /\ r.tx.notAfter + AirTime(r.tx.plan) = w.end
    BY <2>1, <2>2, <2>3, <2>4, NoTimeInt, SendAnswerFacts
  <2>6. s.answered < s.mEnd /\ s.answer.what # "Ans"
    BY <1>4 DEF SlaveShape, w
  <2>7. WindowKeyed(s, r)
    BY <1>4, <2>5 DEF WindowKeyed, w
  <2> QED
    BY <1>1, <2>2, <2>5, <2>6, <2>7 DEF Keyed, r
<1>5. CASE w.on /\ onAir >= w.start /\ ~(c.work /\ room >= 0)
  <2>1. ~(onAir < w.start)
    BY <1>5, SlaveFields, ConstantTypes
  <2>2. r = s
    <3> HIDE DEF room, onAir
    <3>1. (c.work /\ room >= 0) = FALSE
      BY <1>5
    <3> QED
      BY <1>5, <2>1, <3>1 DEF TryWindow, room, onAir
  <2> QED
    BY <2>2, <1>1 DEF Quiet
<1>6. onAir < w.start \/ onAir >= w.start
  BY SlaveFields, ConstantTypes
<1> HIDE DEF room, onAir, w, r
<1> QED
  BY <1>2, <1>3, <1>4, <1>5, <1>6 DEF r

LEMMA KeyAnswerKeys ==
  ASSUME NEW s \in Slaves, NEW t \in Nat, NEW c \in AllChoices, SlaveShape(s)
  PROVE  Quiet(s, KeyAnswer(s, t, c)) \/ Keyed(s, KeyAnswer(s, t, c))
<1> DEFINE a == s.answer
           free == [s EXCEPT !.answer = NoAnswer]
           r == KeyAnswer(s, t, c)
<1>1. r \in Slaves
  BY KeyAnswerType
<1>2. /\ free \in Slaves /\ free.mEnd = s.mEnd /\ free.sticky = s.sticky
      /\ free.answered = s.answered /\ free.tx = s.tx /\ free.grant = s.grant
      /\ free.window = s.window /\ free.answer.what = "none"
  BY InitialTypes DEF Slaves, NoAnswer
<1>3. a.what \in {"none", "Ans", "Window"}
  BY DEF Slaves
<1>4. CASE a.what = "none"
  <2>1. r = s
    BY <1>4 DEF KeyAnswer
  <2> QED
    BY <2>1, <1>1 DEF Quiet
<1>5. CASE a.what = "Window"
  <2>1. r = TryWindow(free, t, c)
    BY <1>5 DEF KeyAnswer
  <2> HIDE DEF free, r
  <2>2. SlaveShape(free)
    BY <1>2 DEF SlaveShape
  <2>3. Quiet(free, r) \/ Keyed(free, r)
    BY <1>2, <2>1, <2>2, TryWindowKeys
  <2>4. CASE Quiet(free, r)
    BY <1>2, <2>4 DEF Quiet, r
  <2>5. CASE Keyed(free, r)
    BY <1>2, <2>5 DEF Keyed, AnswerKeyed, WindowKeyed, r
  <2> QED
    BY <2>3, <2>4, <2>5
<1>6. ASSUME a.what = "Ans", TooLate(t, a.start)
      PROVE  Keyed(s, r)
  <2>1. r = Forfeit(free, a.anchor)
    BY <1>6 DEF KeyAnswer
  <2> HIDE DEF free
  <2>2. /\ r.mEnd = free.mEnd /\ r.sticky = free.sticky /\ r.answered = a.anchor
        /\ r.tx = free.tx /\ r.grant = free.grant /\ r.window = free.window
        /\ r.answer = free.answer
    BY <1>2, <2>1 DEF Forfeit, RestartRx, Slaves
  <2>3. a.anchor = s.mEnd /\ s.answered < s.mEnd /\ ~s.window.on
    BY <1>6 DEF SlaveShape
  <2> HIDE DEF r
  <2> QED
    BY <1>1, <1>2, <1>6, <2>2, <2>3 DEF Keyed
<1>7. ASSUME a.what = "Ans", ~TooLate(t, a.start)
      PROVE  Keyed(s, r)
  <2> DEFINE u == [free EXCEPT !.answered = a.anchor]
  <2>1. r = SendAnswer(u, t, c, a.floor, a.room, a.start, a.notAfter, NoTime)
    BY <1>7 DEF KeyAnswer
  <2>2. /\ a.anchor \in Nat /\ a.floor \in Families /\ a.room \in Nat /\ a.start \in Nat
        /\ a.notAfter \in Nat
    BY SlaveFields
  <2> HIDE DEF free, a
  <2>3. /\ u \in Slaves /\ u.mEnd = free.mEnd /\ u.sticky = free.sticky
        /\ u.answered = a.anchor /\ u.tx = free.tx /\ u.grant = free.grant
        /\ u.window = free.window /\ u.answer = free.answer
    BY <1>2, <2>2 DEF Slaves, MaybeTime
  <2> HIDE DEF u, r
  <2>4. /\ r.mEnd = u.mEnd /\ r.sticky = u.sticky /\ r.answered = u.answered
        /\ r.grant = u.grant /\ r.window = u.window /\ r.answer = u.answer
        /\ r.tx.phase = "wait" /\ r.tx.end = u.tx.end /\ r.tx.plan.opener
        /\ r.tx.plan.floor = a.floor /\ r.tx.notBefore = a.start
        /\ r.tx.notAfter = a.notAfter /\ AirTime(r.tx.plan) <= Control[a.floor] + a.room
    BY <2>1, <2>2, <2>3, NoTimeInt, SendAnswerFacts
  <2>5. a.anchor = s.mEnd /\ s.answered < s.mEnd /\ ~s.window.on
    BY <1>7 DEF SlaveShape, a
  <2>6. AnswerKeyed(s, r)
    BY <1>7, <2>4 DEF AnswerKeyed, a
  <2>7. Keyed(s, r)
    BY <1>1, <1>2, <2>3, <2>4, <2>5, <2>6 DEF Keyed
  <2> QED
    BY <2>7
<1> QED
  BY <1>3, <1>4, <1>5, <1>6, <1>7

LEMMA DecideKeys ==
  ASSUME NEW s \in Slaves, NEW t \in Nat, NEW c \in AllChoices, SlaveShape(s)
  PROVE  Quiet(s, DecideIfFinal(s, t, c)) \/ Keyed(s, DecideIfFinal(s, t, c))
<1>1. Quiet(s, s)
  BY DEF Quiet
<1> QED
  BY <1>1, KeyAnswerKeys DEF DecideIfFinal

\* Where the slave reckons the slot of the transmission it has anchored, and what
\* it schedules in it before it keys anything.
Opening(s) == s.grant.on /\ s.grant.ctl.flag
SlotBegins(s) ==
  SlotStart(s.mEnd, s.mLast, IF s.grant.on THEN s.grant.ctl.level ELSE 0, MasterDeclared)
Room(s) == IF s.grant.on THEN Air(s.grant.ctl.n, s.grant.ctl.slotFloor) ELSE 0

Scheduled(s, q) ==
  /\ q \in Slaves /\ SlaveShape(q)
  /\ q.mEnd = s.mEnd /\ q.sticky = s.sticky /\ q.tx = s.tx /\ q.grant = s.grant
  /\ q.answered = s.answered \/ q.answered = s.mEnd
  /\ q.answer.what = "Ans" => /\ ~Opening(s)
                              /\ q.answer.start = SlotBegins(s) /\ q.answer.room = Room(s)
                              /\ q.answer.floor = s.sticky
  /\ q.window.on => /\ Opening(s)
                    /\ q.window.start = SlotBegins(s) /\ q.window.floor = s.sticky
                    /\ q.window.end = SlotBegins(s) + Window(s.grant.floor, s.grant.ctl.index)

LEMMA ScheduleSlaveKeys ==
  ASSUME NEW s \in Slaves, NEW t \in Nat, NEW c \in AllChoices,
         s.mEnd \in Nat, s.answered < s.mEnd, s.answer.what # "Ans", ~s.window.on
  PROVE  \E q : /\ Scheduled(s, q)
                /\ Quiet(q, ScheduleSlave(s, t, c)) \/ Keyed(q, ScheduleSlave(s, t, c))
<1> DEFINE g == s.grant
           level == IF g.on THEN g.ctl.level ELSE 0
           start == SlotStart(s.mEnd, s.mLast, level, MasterDeclared)
           window == [on |-> TRUE, start |-> start,
                      end |-> start + Window(g.floor, g.ctl.index), floor |-> s.sticky]
           opened == [s EXCEPT !.window = window, !.answer = NoAnswer]
           answer == [what |-> "Ans", start |-> start, notAfter |-> start + Slack,
                      floor |-> s.sticky, anchor |-> s.mEnd,
                      room |-> IF g.on THEN Air(g.ctl.n, g.ctl.slotFloor) ELSE 0]
           closed == [s EXCEPT !.window = NoWindow]
           r == ScheduleSlave(s, t, c)
<1>1. /\ s.mEnd \in Int /\ s.answered \in Int /\ s.mEnd # s.answered /\ s.mEnd # NoTime
  BY SlaveFields DEF NoTime
<1>2. r \in Slaves
  BY ScheduleSlaveType
<1>3. start = SlotBegins(s) /\ start \in Nat /\ Slack \in Nat
  <2>1. level \in Levels /\ s.mLast \in Families
    BY ConstantTypes, SlaveFields DEF Headers
  <2> HIDE DEF level
  <2>2. start \in Nat
    BY <2>1, SlotStartNat, ConstantTypes
  <2> QED
    BY <2>2, ConstantTypes DEF SlotBegins, level
<1>4. CASE Opening(s)
  <2>1. r = IF c.work THEN TryWindow(opened, t, c) ELSE opened
    BY <1>1, <1>4 DEF ScheduleSlave, Opening
  <2>2. Window(g.floor, g.ctl.index) \in Nat
    BY WindowNat, SlaveFields DEF Headers
  <2>3. /\ opened.mEnd = s.mEnd /\ opened.sticky = s.sticky /\ opened.answered = s.answered
        /\ opened.tx = s.tx /\ opened.grant = s.grant /\ opened.answer.what = "none"
        /\ opened.window = window
    <3> HIDE DEF window
    <3> QED
      BY DEF Slaves, NoAnswer
  <2>4. opened \in Slaves
    <3>1. window \in [on : BOOLEAN, start : Nat, end : Nat, floor : Families]
      <4> HIDE DEF start, g
      <4> QED
        BY <1>3, <2>2, SlaveFields
    <3> HIDE DEF window
    <3> QED
      BY <3>1, InitialTypes DEF Slaves
  <2>5. /\ window.on /\ window.start = start /\ window.floor = s.sticky
        /\ window.end = start + Window(g.floor, g.ctl.index)
    OBVIOUS
  <2> HIDE DEF opened, window, start
  <2>6. SlaveShape(opened)
    BY <1>1, <1>3, <2>2, <2>3, <2>5 DEF SlaveShape
  <2>7. Scheduled(s, opened)
    BY <1>3, <1>4, <2>3, <2>4, <2>5, <2>6 DEF Scheduled
  <2>8. Quiet(opened, r) \/ Keyed(opened, r)
    BY <2>1, <2>4, <2>6, TryWindowKeys DEF Quiet
  <2> QED
    BY <2>7, <2>8
<1>5. CASE ~Opening(s)
  <2>1. r = Schedule(closed, t, c, answer)
    BY <1>1, <1>5 DEF ScheduleSlave, Opening
  <2>2. closed \in Slaves
    BY InitialTypes DEF Slaves
  <2>3. /\ closed.mEnd = s.mEnd /\ closed.sticky = s.sticky /\ closed.answered = s.answered
        /\ closed.tx = s.tx /\ closed.grant = s.grant /\ closed.answer = s.answer
        /\ ~closed.window.on
    BY DEF Slaves, NoWindow
  <2>4. /\ answer.what = "Ans" /\ answer.start = start /\ answer.notAfter = start + Slack
        /\ answer.floor = s.sticky /\ answer.anchor = s.mEnd /\ answer.room = Room(s)
    BY DEF Room
  <2>5. answer \in [what : {"none", "Ans", "Window"}, start : Nat, notAfter : Nat,
                    floor : Families, anchor : Nat, room : Nat]
    <3>1. Room(s) \in Nat
      BY AirNat, SlaveFields, ConstantTypes DEF Room, Headers
    <3>2. answer = [what |-> "Ans", start |-> start, notAfter |-> start + Slack,
                    floor |-> s.sticky, anchor |-> s.mEnd, room |-> Room(s)]
      BY DEF Room
    <3> HIDE DEF start, answer
    <3> QED
      BY <1>3, <3>1, <3>2, SlaveFields
  <2> HIDE DEF closed, answer, start
  <2>6. CASE TooLate(t, answer.start)
    <3>1. r = Forfeit(closed, s.mEnd)
      BY <2>1, <2>4, <2>6 DEF Schedule
    <3>2. /\ r.mEnd = closed.mEnd /\ r.sticky = closed.sticky /\ r.answered = s.mEnd
          /\ r.tx = closed.tx /\ r.grant = closed.grant /\ r.window = closed.window
          /\ r.answer = closed.answer
      BY <2>2, <3>1 DEF Forfeit, RestartRx, Slaves
    <3> HIDE DEF r
    <3>3. SlaveShape(r)
      BY <1>1, <2>3, <3>2 DEF SlaveShape
    <3>4. Scheduled(s, r)
      BY <1>2, <2>3, <3>2, <3>3 DEF Scheduled, r
    <3>5. Quiet(r, r)
      BY <1>2 DEF Quiet, r
    <3> QED
      BY <3>4, <3>5 DEF r
  <2>7. CASE ~TooLate(t, answer.start)
    <3> DEFINE q == [closed EXCEPT !.answer = answer]
    <3>1. r = DecideIfFinal(q, t, c)
      BY <2>1, <2>7 DEF Schedule
    <3>2. /\ q.mEnd = s.mEnd /\ q.sticky = s.sticky /\ q.answered = s.answered
          /\ q.tx = s.tx /\ q.grant = s.grant /\ q.answer = answer /\ q.window = closed.window
          /\ q \in Slaves
      BY <2>2, <2>3, <2>5 DEF Slaves
    <3> HIDE DEF q, r
    <3>3. SlaveShape(q)
      BY <1>1, <2>3, <2>4, <3>2 DEF SlaveShape
    <3>4. Scheduled(s, q)
      BY <1>3, <1>5, <2>3, <2>4, <3>2, <3>3 DEF Scheduled
    <3>5. Quiet(q, r) \/ Keyed(q, r)
      BY <3>1, <3>2, <3>3, DecideKeys
    <3> QED
      BY <3>4, <3>5 DEF r
  <2> QED
    BY <2>6, <2>7
<1> QED
  BY <1>4, <1>5

-----------------------------------------------------------------------------
\* What that does to the invariant.

LEMMA MasterFields ==
  ASSUME NEW m \in Masters
  PROVE  /\ m.tx \in Transmissions /\ m.tx.plan \in Plans /\ m.tx.start \in Nat
         /\ m.tx.end \in Nat /\ m.tx.ready \in Nat
         /\ m.tx.phase \in {"idle", "wait", "air"}
         /\ m.slot \in Slots /\ m.slot.on \in BOOLEAN /\ m.slot.final \in BOOLEAN
         /\ m.slot.txEnd \in Nat /\ m.slot.start \in Nat /\ m.slot.endMax \in Nat
         /\ m.slot.grant \in Nat /\ m.slot.lastFloor \in Families
         /\ m.slot.level \in Levels /\ m.slot.window \in BOOLEAN
         /\ m.slot.stated \in Int /\ m.slot.statedFloor \in Families
         /\ (m.slot.stated # NoTime => m.slot.stated \in Nat)
         /\ m.proceed \in Int /\ (m.proceed # NoTime => m.proceed \in Nat)
         /\ m.possible \subseteq Families /\ m.peerLate \in Nat
BY DEF Masters, Slots, Transmissions, MaybeTime, NoTime

\* The bounds of the slot lie past the end of the transmission that granted it.
LEMMA BoundFacts ==
  ASSUME NEW m \in Masters
  PROVE  /\ Begins(m) \in Int /\ Latest(m) \in Int /\ Bound(m) \in Int /\ HeaderEnd(m) \in Nat
         /\ Bound(m) = Latest(m) + Rounding /\ Rounding \in Nat
         /\ m.tx.end + MasterTurnaround <= Begins(m)
         /\ m.tx.end <= Latest(m) /\ m.tx.end <= Bound(m)
         /\ SlotStart(m.tx.end, m.slot.lastFloor, m.slot.level, MasterDeclared) \in Int
         /\ Begins(m) <= SlotStart(m.tx.end, m.slot.lastFloor, m.slot.level, MasterDeclared)
         /\ SlotStart(m.tx.end, m.slot.lastFloor, m.slot.level, MasterDeclared)
              + m.slot.grant + (IF m.slot.window THEN 0 ELSE Slack) <= Bound(m)
<1>1. /\ m.tx.end \in Int /\ m.slot.lastFloor \in Families /\ m.slot.level \in Levels
      /\ m.slot.grant \in Nat /\ Slack \in Nat /\ 0 \in Levels
      /\ m.tx.start \in Nat /\ m.tx.plan \in Plans
  BY MasterFields, ConstantTypes
<1> DEFINE S(l, d) == SlotStart(m.tx.end, m.slot.lastFloor, l, d)
<1>2. /\ S(m.slot.level, MasterDeclared) \in Int /\ S(m.slot.level, MasterTurnaround) \in Int
      /\ S(0, MasterDeclared) \in Int
      /\ S(0, MasterDeclared) <= S(m.slot.level, MasterDeclared)
      /\ S(m.slot.level, MasterDeclared) <= S(m.slot.level, MasterTurnaround) + Rounding
      /\ m.tx.end + MasterTurnaround <= S(0, MasterDeclared)
      /\ m.tx.end <= S(m.slot.level, MasterTurnaround)
  BY <1>1, SlotStartFacts
<1>3. Rounding \in Nat
  BY <1>1, AfterFacts
<1>4. HeaderEnd(m) \in Nat
  BY <1>1, AirTimeOf DEF HeaderEnd
<1>5. /\ Begins(m) = S(0, MasterDeclared)
      /\ Latest(m) = S(m.slot.level, MasterTurnaround) + m.slot.grant
                     + IF m.slot.window THEN 0 ELSE Slack
      /\ Bound(m) = Latest(m) + Rounding
  BY DEF Begins, Latest, Bound
<1>6. MasterTurnaround \in Nat
  BY ConstantTypes
<1> HIDE DEF S
<1>7. Latest(m) \in Int /\ m.tx.end <= Latest(m)
      /\ S(m.slot.level, MasterDeclared) + m.slot.grant + (IF m.slot.window THEN 0 ELSE Slack)
           <= Bound(m)
  BY <1>1, <1>2, <1>3, <1>5
<1> QED
  BY <1>1, <1>2, <1>3, <1>4, <1>5, <1>6, <1>7 DEF S

LEMMA KeysKeep ==
  ASSUME NEW m \in Masters, NEW t \in Nat, NEW q \in Slaves, NEW r, SlaveShape(q),
         m.tx.start <= t, m.tx.start <= m.tx.end, Quiet(q, r) \/ Keyed(q, r)
  PROVE  /\ r \in Slaves /\ SlaveShape(r)
         /\ r.mEnd = q.mEnd /\ r.sticky = q.sticky /\ r.tx.end = q.tx.end
         /\ q.answered <= r.answered
         /\ \A old \in Int : Spent(q, t, old) => Spent(r, t, old)
         /\ Owing(m, q, t) => Owing(m, r, t) \/ Given(m, r, t)
         /\ Given(m, q, t) => Given(m, r, t) /\ r.tx = q.tx /\ r.answered = q.answered
<1>0. /\ q.mEnd \in Int /\ q.answered \in Int /\ q.answered >= NoTime
      /\ q.tx.end \in Nat /\ q.tx.notAfter \in Int
      /\ q.answer.start \in Nat /\ q.answer.room \in Nat /\ q.window.start \in Nat
      /\ q.window.end \in Nat /\ q.answer.notAfter \in Nat
      /\ Slack \in Nat /\ m.tx.start \in Nat /\ m.tx.end \in Nat /\ Bound(m) \in Int
      /\ m.tx.end <= Bound(m) /\ Begins(m) \in Int
  BY SlaveFields, MasterFields, BoundFacts, ConstantTypes
<1>1. CASE Quiet(q, r)
  <2>1. /\ r \in Slaves
        /\ r.mEnd = q.mEnd /\ r.sticky = q.sticky /\ r.answered = q.answered /\ r.tx = q.tx
        /\ r.grant = q.grant /\ r.window = q.window
        /\ r.answer.what = "Ans" => r.answer = q.answer
    BY <1>1 DEF Quiet
  <2>2. SlaveShape(r)
    BY <2>1 DEF SlaveShape
  <2>3. \A old \in Int : Spent(q, t, old) => Spent(r, t, old)
    BY <2>1 DEF Spent, NoneLeft
  <2>4. Owing(m, q, t) => Owing(m, r, t)
    BY <2>1 DEF Owing, NoneLeft, AnsFits, WindowFits
  <2>5. Given(m, q, t) => Given(m, r, t)
    BY <2>1 DEF Given, TxFits
  <2> QED
    BY <1>0, <2>1, <2>2, <2>3, <2>4, <2>5
<1>2. CASE Keyed(q, r)
  <2>1. /\ r \in Slaves
        /\ r.mEnd = q.mEnd /\ r.sticky = q.sticky /\ r.grant = q.grant
        /\ q.answered < q.mEnd /\ r.answered = q.mEnd
        /\ r.answer.what # "Ans" /\ ~r.window.on
        /\ \/ q.answer.what = "Ans" /\ r.tx = q.tx
           \/ /\ r.tx.phase = "wait" /\ r.tx.end = q.tx.end /\ r.tx.plan.opener
              /\ AnswerKeyed(q, r) \/ WindowKeyed(q, r)
    BY <1>2 DEF Keyed
  <2>2. r.tx.end = q.tx.end
    BY <2>1
  <2>3. /\ AirTime(r.tx.plan) \in Nat /\ r.tx.notAfter \in Int /\ r.tx.ready \in Nat
        /\ r.tx.notBefore \in Nat
    BY <2>1, SlaveFields, AirTimeNat
  <2>4. q.mEnd # NoTime /\ ~(q.mEnd < NoTime)
    BY <1>0, <2>1 DEF NoTime
  <2>5. SlaveShape(r)
    BY <1>0, <2>1, <2>4 DEF SlaveShape
  <2>6. ASSUME NEW old \in Int, Spent(q, t, old)
        PROVE  Spent(r, t, old)
    <3>1. NoneLeft(r, t)
      <4>1. CASE r.tx = q.tx
        BY <2>6, <4>1 DEF Spent, NoneLeft
      <4>2. CASE AnswerKeyed(q, r)
        <5>1. q.answer.notAfter = q.answer.start + Slack /\ q.answer.start + Slack < t
          BY <2>6, <4>2 DEF AnswerKeyed, SlaveShape, Spent
        <5> QED
          BY <4>2, <5>1 DEF AnswerKeyed, NoneLeft
      <4>3. CASE WindowKeyed(q, r)
        <5>1. q.window.end < t /\ r.tx.notAfter + AirTime(r.tx.plan) = q.window.end
          BY <2>6, <4>3 DEF WindowKeyed, Spent
        <5> QED
          BY <5>1, <1>0, <2>3 DEF NoneLeft
      <4> QED
        BY <2>1, <4>1, <4>2, <4>3
    <3> QED
      BY <1>0, <2>1, <2>2, <2>6, <3>1 DEF Spent
  <2>7. ASSUME Owing(m, q, t)
        PROVE  Given(m, r, t)
    <3>1. /\ q.mEnd = m.tx.end /\ HeaderEnd(m) <= t
          /\ q.answered <= m.tx.start /\ q.tx.end <= m.tx.start /\ NoneLeft(q, t)
          /\ q.answer.what = "Ans" => AnsFits(m, q)
          /\ q.window.on => WindowFits(m, q)
      BY <2>7 DEF Owing
    <3>2. r.tx.phase = "wait" => TxFits(m, r) \/ r.tx.notAfter < t
      <4>1. CASE r.tx = q.tx
        BY <3>1, <4>1 DEF NoneLeft
      <4>2. CASE r.tx.plan.opener /\ AnswerKeyed(q, r)
        <5>1. /\ r.tx.plan.floor = q.answer.floor
              /\ r.tx.notBefore = q.answer.start /\ r.tx.notAfter = q.answer.notAfter
              /\ AirTime(r.tx.plan) <= Control[q.answer.floor] + q.answer.room
          BY <4>2 DEF AnswerKeyed
        <5>2. /\ q.answer.floor = q.sticky /\ q.answer.start >= Begins(m)
              /\ q.answer.start + Slack + Control[q.sticky] + q.answer.room <= Bound(m)
          BY <3>1, <4>2 DEF AnswerKeyed, AnsFits
        <5>3. q.answer.notAfter = q.answer.start + Slack
          BY <4>2 DEF AnswerKeyed, SlaveShape
        <5>4. Control[q.sticky] \in Nat
          BY FrameAssumption, SlaveFields
        <5>5. r.tx.notAfter + AirTime(r.tx.plan) <= Bound(m)
          BY <1>0, <2>3, <5>1, <5>2, <5>3, <5>4
        <5> QED
          BY <2>1, <4>2, <5>1, <5>2, <5>5 DEF TxFits
      <4>3. CASE r.tx.plan.opener /\ WindowKeyed(q, r)
        <5>1. /\ r.tx.plan.floor = q.window.floor
              /\ r.tx.ready >= q.window.start
              /\ r.tx.notAfter + AirTime(r.tx.plan) = q.window.end
          BY <4>3 DEF WindowKeyed
        <5>2. /\ q.window.floor = q.sticky /\ q.window.start >= Begins(m)
              /\ q.window.end <= Bound(m)
          BY <3>1, <4>3 DEF WindowKeyed, WindowFits
        <5>3. r.tx.ready >= Begins(m)
          BY <1>0, <2>3, <5>1, <5>2
        <5> QED
          BY <2>1, <4>3, <5>1, <5>2, <5>3 DEF TxFits
      <4> QED
        BY <2>1, <4>1, <4>2, <4>3
    <3>3. r.tx.end <= m.tx.start /\ ~(r.tx.end > t) /\ r.tx.end <= Bound(m)
      BY <1>0, <2>2, <3>1
    <3> QED
      BY <2>1, <3>1, <3>2, <3>3 DEF Given
  <2>8. ~Given(m, q, t)
    BY <1>0, <2>1 DEF Given
  <2> QED
    BY <1>0, <2>1, <2>2, <2>5, <2>6, <2>7, <2>8
<1> QED
  BY <1>1, <1>2

LEMMA LiveFacts ==
  ASSUME NEW m \in Masters, NEW t \in Nat, MasterInv(m, t), Live(m)
  PROVE  /\ m.slot.on /\ SlotOfPlan(m)
         /\ m.tx.end = m.tx.start + AirTime(m.tx.plan) /\ m.tx.start <= t
         /\ m.tx.start < m.tx.end
<1>1. m.slot.on /\ SlotOfPlan(m)
  BY DEF MasterInv, Live
<1>2. m.tx.end = m.tx.start + AirTime(m.tx.plan) /\ m.tx.start <= t
  BY DEF MasterInv
<1>3. AirTime(m.tx.plan) > 0 /\ AirTime(m.tx.plan) \in Nat
  BY <1>1, MasterFields, AirTimeOf, AirTimeNat DEF SlotOfPlan
<1> QED
  BY <1>1, <1>2, <1>3, MasterFields

LEMMA ScheduledPast ==
  ASSUME NEW s \in Slaves, NEW q, Scheduled(s, q), NEW t \in Nat, NEW old \in Int,
         s.mEnd <= old, s.answered <= old, s.tx.end <= old, NoneLeft(s, t),
         SlotBegins(s) + (IF Opening(s) THEN Window(s.grant.floor, s.grant.ctl.index)
                                        ELSE Slack) < t
  PROVE  Spent(q, t, old)
<1>1. NoneLeft(q, t)
  BY DEF NoneLeft, Scheduled
<1> QED
  BY <1>1 DEF Spent, Scheduled

LEMMA ScheduledNow ==
  ASSUME NEW m \in Masters, NEW s \in Slaves, NEW q, Scheduled(s, q), NEW t \in Nat,
         s.mEnd = m.tx.end, HeaderEnd(m) <= t, m.tx.start <= t,
         m.tx.start <= m.tx.end,
         s.answered <= m.tx.start, s.tx.end <= m.tx.start, NoneLeft(s, t),
         SlotBegins(s) \in Int, SlotBegins(s) >= Begins(m),
         SlotBegins(s) + (IF Opening(s) THEN Window(s.grant.floor, s.grant.ctl.index)
                          ELSE Slack + Control[s.sticky] + Room(s)) <= Bound(m)
  PROVE  Owing(m, q, t) \/ Given(m, q, t)
<1>1. /\ q.mEnd = m.tx.end /\ q.tx = s.tx /\ NoneLeft(q, t) /\ q.sticky = s.sticky
      /\ q.tx.end \in Nat /\ m.tx.start \in Nat /\ m.tx.end \in Nat /\ Bound(m) \in Int
      /\ m.tx.end <= Bound(m) /\ Slack \in Nat /\ Control[s.sticky] \in Nat
      /\ Room(s) \in Nat
  <2>1. Room(s) \in Nat
    BY AirNat, SlaveFields, ConstantTypes DEF Room, Headers
  <2> QED
    BY <2>1, SlaveFields, MasterFields, BoundFacts, ConstantTypes, FrameAssumption
       DEF Scheduled, NoneLeft
<1>2. CASE q.answered = s.answered
  <2>1. q.answer.what = "Ans" => AnsFits(m, q)
    <3> SUFFICES ASSUME q.answer.what = "Ans"
                 PROVE  AnsFits(m, q)
      OBVIOUS
    <3>1. /\ ~Opening(s) /\ q.answer.start = SlotBegins(s) /\ q.answer.room = Room(s)
          /\ q.answer.floor = s.sticky
      BY DEF Scheduled
    <3>2. SlotBegins(s) + (Slack + Control[s.sticky] + Room(s)) <= Bound(m)
      BY <3>1
    <3>3. SlotBegins(s) + Slack + Control[s.sticky] + Room(s) <= Bound(m)
      BY <1>1, <3>2
    <3> QED
      BY <1>1, <3>1, <3>3 DEF AnsFits
  <2>2. q.window.on => WindowFits(m, q)
    BY <1>1 DEF Scheduled, WindowFits
  <2> QED
    BY <1>1, <1>2, <2>1, <2>2 DEF Owing
<1>3. CASE q.answered = s.mEnd
  <2>1. ~(q.tx.end > t) /\ q.tx.end <= Bound(m) /\ q.tx.end <= m.tx.start
    BY <1>1
  <2> QED
    BY <1>1, <1>3, <2>1 DEF Given, NoneLeft
<1> QED
  BY <1>2, <1>3 DEF Scheduled

\* A step of the slave's engine: what it keeps of the invariant, and that it
\* changes nothing of an answer given.
Moved(m, s, r, t) ==
  /\ r \in Slaves /\ SlaveShape(r) /\ Mode(m, r, t) /\ r.sticky \in m.possible
  /\ s.answered <= r.answered /\ r.tx.end = s.tx.end
  /\ Live(m) /\ Given(m, s, t) =>
       /\ Given(m, r, t) /\ r.tx = s.tx /\ r.answered = s.answered /\ r.sticky = s.sticky

LEMMA KeysMove ==
  ASSUME NEW m \in Masters, NEW t \in Nat, MasterInv(m, t),
         NEW s \in Slaves, NEW q, Moved(m, s, q, t),
         NEW r, Quiet(q, r) \/ Keyed(q, r)
  PROVE  Moved(m, s, r, t) /\ r.mEnd = q.mEnd
<1>0. q \in Slaves /\ SlaveShape(q) /\ q.answered \in Int /\ s.answered \in Int
      /\ m.tx.start \in Int
  BY SlaveFields, MasterFields DEF Moved
<1>1. CASE Live(m)
  <2>1. m.tx.start <= t /\ m.tx.start <= m.tx.end
    BY <1>1, LiveFacts, MasterFields
  <2>2. /\ r \in Slaves /\ SlaveShape(r)
        /\ r.mEnd = q.mEnd /\ r.sticky = q.sticky /\ r.tx.end = q.tx.end
        /\ q.answered <= r.answered
        /\ Spent(q, t, m.tx.start) => Spent(r, t, m.tx.start)
        /\ Owing(m, q, t) => Owing(m, r, t) \/ Given(m, r, t)
        /\ Given(m, q, t) => Given(m, r, t) /\ r.tx = q.tx /\ r.answered = q.answered
    BY <1>0, <2>1, KeysKeep
  <2>3. Mode(m, r, t)
    BY <1>1, <2>2 DEF Moved, Mode
  <2>4. s.answered <= r.answered
    BY <1>0, <2>2, SlaveFields DEF Moved
  <2> QED
    BY <2>2, <2>3, <2>4 DEF Moved
<1>2. CASE ~Live(m)
  \* the same of a master whose transmission is read as nothing: only Spent counts
  <2> DEFINE n == [m EXCEPT !.tx = [m.tx EXCEPT !.start = 0]]
  <2>1. n \in Masters /\ n.tx.start = 0 /\ n.tx.end \in Nat
    BY MasterFields DEF Masters, Transmissions
  <2> HIDE DEF n
  <2>2. /\ r \in Slaves /\ SlaveShape(r)
        /\ r.mEnd = q.mEnd /\ r.sticky = q.sticky /\ r.tx.end = q.tx.end
        /\ q.answered <= r.answered
        /\ Spent(q, t, t) => Spent(r, t, t)
    BY <1>0, <2>1, KeysKeep
  <2>3. Mode(m, r, t)
    BY <1>2, <2>2 DEF Moved, Mode
  <2>4. s.answered <= r.answered
    BY <1>0, <2>2, SlaveFields DEF Moved
  <2> QED
    BY <1>2, <2>2, <2>3, <2>4 DEF Moved
<1> QED
  BY <1>1, <1>2

\* The slave anchors a transmission, an earlier one or the latest.
Horizon(m, t) == IF Live(m) THEN m.tx.start ELSE t
PastSlot(m, n, t) ==
  /\ n.mEnd <= Horizon(m, t)
  /\ SlotBegins(n) + (IF Opening(n) THEN Window(n.grant.floor, n.grant.ctl.index)
                                    ELSE Slack) < t
PresentSlot(m, n, t) ==
  /\ Live(m) /\ n.mEnd = m.tx.end /\ HeaderEnd(m) <= t
  /\ SlotBegins(n) \in Int /\ SlotBegins(n) >= Begins(m)
  /\ SlotBegins(n) + (IF Opening(n) THEN Window(n.grant.floor, n.grant.ctl.index)
                      ELSE Slack + Control[n.sticky] + Room(n)) <= Bound(m)

LEMMA AnchorMoves ==
  ASSUME NEW m \in Masters, NEW t \in Nat, MasterInv(m, t),
         NEW s \in Slaves, Spent(s, t, Horizon(m, t)), NEW c \in AllChoices,
         NEW n \in Slaves, n.mEnd \in Nat, n.answered = s.answered, n.tx = s.tx,
         n.answered < n.mEnd, n.answer.what # "Ans", ~n.window.on, n.sticky \in m.possible,
         PastSlot(m, n, t) \/ PresentSlot(m, n, t)
  PROVE  /\ Moved(m, s, ScheduleSlave(n, t, c), t)
         /\ ScheduleSlave(n, t, c).mEnd = n.mEnd
<1>1. PICK q : /\ Scheduled(n, q)
               /\ Quiet(q, ScheduleSlave(n, t, c)) \/ Keyed(q, ScheduleSlave(n, t, c))
  BY ScheduleSlaveKeys
<1>2. /\ Horizon(m, t) \in Int /\ s.answered <= Horizon(m, t) /\ s.tx.end <= Horizon(m, t)
      /\ NoneLeft(n, t) /\ s.answered \in Int /\ s.answered <= n.mEnd
  BY SlaveFields, MasterFields DEF Horizon, Spent, NoneLeft
<1>3. Mode(m, q, t)
  <2>1. CASE PastSlot(m, n, t)
    <3>1. Spent(q, t, Horizon(m, t))
      BY <1>1, <1>2, <2>1, ScheduledPast DEF PastSlot
    <3> QED
      BY <3>1 DEF Mode, Horizon
  <2>2. CASE PresentSlot(m, n, t)
    <3>1. Live(m) /\ m.tx.start <= t /\ m.tx.start <= m.tx.end /\ Horizon(m, t) = m.tx.start
      BY <2>2, LiveFacts, MasterFields DEF PresentSlot, Horizon
    <3>2. Owing(m, q, t) \/ Given(m, q, t)
      BY <1>1, <1>2, <2>2, <3>1, ScheduledNow DEF PresentSlot
    <3> QED
      BY <3>1, <3>2 DEF Mode
  <2> QED
    BY <2>1, <2>2
<1>4. Live(m) => ~Given(m, s, t)
  <2> SUFFICES ASSUME Live(m)
               PROVE  ~Given(m, s, t)
    OBVIOUS
  <2>1. m.tx.start < m.tx.end /\ s.answered <= m.tx.start
    BY <1>2, LiveFacts DEF Horizon
  <2> QED
    BY <1>2, <2>1, MasterFields DEF Given
<1>5. Moved(m, s, q, t)
  BY <1>1, <1>2, <1>3, <1>4 DEF Moved, Scheduled
<1>6. q.mEnd = n.mEnd
  BY <1>1 DEF Scheduled
<1> QED
  BY <1>1, <1>5, <1>6, KeysMove

\* A frame that follows what the slave has anchored takes its place.
LEMMA PlacedClears ==
  ASSUME NEW s \in Slaves, SlaveShape(s), NEW f,
         s.mEnd # NoTime => s.mEnd <= f.tStart
  PROVE  LET p == Placed(s, f)
         IN  /\ p \in Slaves /\ p.mEnd = NoTime /\ ~p.grant.on /\ p.answer.what # "Ans"
             /\ ~p.window.on /\ p.answered = s.answered /\ p.tx = s.tx /\ p.sticky = s.sticky
<1>1. CASE s.mEnd = NoTime
  BY <1>1 DEF Placed, SlaveShape
<1>2. CASE s.mEnd # NoTime
  <2>1. Placed(s, f) = NextTransmission(s)
    <3>1. f.tStart >= s.mEnd
      BY <1>2
    <3> QED
      BY <1>2, <3>1 DEF Placed
  <2>2. /\ NextTransmission(s).mEnd = NoTime /\ ~NextTransmission(s).grant.on
        /\ NextTransmission(s).answer.what # "Ans" /\ ~NextTransmission(s).window.on
        /\ NextTransmission(s).answered = s.answered /\ NextTransmission(s).tx = s.tx
        /\ NextTransmission(s).sticky = s.sticky
    BY DEF Slaves, NextTransmission, RestartRx, NoGrant, NoAnswer, NoWindow
  <2> QED
    BY <2>1, <2>2, NextTransmissionType
<1> QED
  BY <1>1, <1>2

LEMMA MovedNowhere ==
  ASSUME NEW m \in Masters, NEW t, NEW s \in Slaves, SlaveShape(s), Mode(m, s, t),
         s.sticky \in m.possible
  PROVE  Moved(m, s, s, t)
BY SlaveFields DEF Moved

\* A frame the slave does not refuse is of a transmission it has not answered: what
\* it holds is over, or it is the latest transmission, anchored and not answered.
LEMMA UnrefusedMeans ==
  ASSUME NEW m \in Masters, NEW t \in Nat, MasterInv(m, t),
         NEW s \in Slaves, Mode(m, s, t), NEW f \in ControlFrames \cup DataFrames,
         Settled(m, s, t, f), f.tEnd <= EndOf(f), EndOf(f) \in Int,
         ~(s.answered # NoTime /\ f.tEnd <= s.answered)
  PROVE  /\ s.answered < f.tEnd
         /\ Spent(s, t, Horizon(m, t)) \/ (Live(m) /\ Owing(m, s, t))
         /\ \/ EndOf(f) <= Horizon(m, t) /\ Closes(f) < t
            \/ Live(m) /\ f \in FramesOf(m.tx.plan, m.tx.start)
<1>1. f.tEnd \in Nat /\ s.answered \in Int
  BY SlaveFields DEF ControlFrames, DataFrames
<1>2. s.answered < f.tEnd
  BY <1>1 DEF NoTime
<1>3. \/ EndOf(f) <= Horizon(m, t) /\ Closes(f) < t
      \/ Live(m) /\ f \in FramesOf(m.tx.plan, m.tx.start)
  BY <1>1, <1>2 DEF Settled, Stale, Horizon
<1>4. ASSUME Live(m)
      PROVE  ~Given(m, s, t)
  <2>1. /\ m.tx.end = m.tx.start + AirTime(m.tx.plan) /\ m.tx.start < m.tx.end
        /\ m.tx.start \in Nat /\ m.tx.end \in Nat /\ m.tx.plan \in Plans
    BY <1>4, LiveFacts, MasterFields
  <2>2. EndOf(f) <= m.tx.end
    <3>1. CASE EndOf(f) <= Horizon(m, t)
      BY <1>4, <2>1, <3>1 DEF Horizon
    <3>2. CASE f \in FramesOf(m.tx.plan, m.tx.start)
      BY <2>1, <3>2, FramesOfFacts DEF FrameOf
    <3> QED
      BY <1>3, <3>1, <3>2
  <2>3. s.answered < m.tx.end
    BY <1>1, <1>2, <2>1, <2>2
  <2> QED
    BY <1>1, <2>1, <2>3 DEF Given
<1>5. Spent(s, t, Horizon(m, t)) \/ (Live(m) /\ Owing(m, s, t))
  BY <1>4 DEF Mode, Horizon
<1> QED
  BY <1>2, <1>3, <1>5

LEMMA TakeHeaderMoves ==
  ASSUME NEW m \in Masters, NEW t \in Nat, MasterInv(m, t),
         NEW s \in Slaves, SlaveShape(s), Mode(m, s, t), s.sticky \in m.possible,
         Live(m) /\ m.slot.stated # NoTime => Given(m, s, t),
         NEW c \in AllChoices, NEW f \in ControlFrames, f.kind = "control",
         Settled(m, s, t, f), f.tStart < f.tEnd, f.tEnd <= EndOf(f), f.tEnd <= t,
         f.ctl.fam \in m.possible, s.mEnd # NoTime => s.mEnd <= f.tStart
  PROVE  /\ Moved(m, s, TakeHeader(s, t, c, f), t)
         /\ TakeHeader(s, t, c, f).mEnd \in {s.mEnd, EndOf(f)}
<1> DEFINE p == Placed(s, f)
           grid == [on |-> TRUE, t0 |-> f.tEnd, count |-> f.count, floor |-> f.dataFloor]
           n == [p EXCEPT !.grid = grid,
                          !.rx = {x \in p.rx : OnGrid(grid, x)},
                          !.sticky = f.ctl.fam,
                          !.grant = [on |-> TRUE, floor |-> f.floor, ctl |-> f.ctl],
                          !.mEnd = f.tEnd + Air(f.count, f.dataFloor),
                          !.mLast = IF f.count > 0 THEN f.dataFloor ELSE f.floor]
           r == TakeHeader(s, t, c, f)
<1>1. CASE Refused(s, f, TRUE)
  <2>1. r = s
    BY <1>1 DEF TakeHeader
  <2> QED
    BY <2>1, MovedNowhere
<1>2. CASE ~Refused(s, f, TRUE)
  <2>1. r = ScheduleSlave(n, t, c)
    BY <1>2 DEF TakeHeader
  <2>2. /\ f.tStart \in Nat /\ f.tEnd \in Nat /\ f.floor \in Families /\ f.dataFloor \in Families
        /\ f.count \in 0 .. MaxData /\ f.count \in Nat
        /\ f.ctl \in Headers /\ f.ctl.fam \in Families /\ f.ctl.level \in Levels
        /\ f.ctl.n \in Nat /\ f.ctl.slotFloor \in Families /\ f.ctl.index \in Index
        /\ f.ctl.flag \in BOOLEAN
    BY ConstantTypes DEF ControlFrames, Headers
  <2>3. EndOf(f) = f.tEnd + Air(f.count, f.dataFloor) /\ EndOf(f) \in Nat
    BY <2>2, AirNat DEF EndOf
  <2>4. /\ p \in Slaves /\ p.mEnd = NoTime /\ ~p.grant.on /\ p.answer.what # "Ans"
        /\ ~p.window.on /\ p.answered = s.answered /\ p.tx = s.tx /\ p.sticky = s.sticky
    BY PlacedClears
  <2>5. n \in Slaves
    <3>1. grid \in [on : BOOLEAN, t0 : Nat, count : 0 .. MaxData, floor : Families]
      BY <2>2
    <3>2. {x \in p.rx : OnGrid(grid, x)} \in SUBSET Nat
      BY <2>4 DEF Slaves
    <3> HIDE DEF p, grid
    <3> QED
      BY <2>2, <2>3, <2>4, <3>1, <3>2, ZenonT(40) DEF Slaves, MaybeTime
  <2> DEFINE last == IF f.count > 0 THEN f.dataFloor ELSE f.floor
  <2>6. /\ n.mEnd = EndOf(f) /\ n.mLast = last /\ n.sticky = f.ctl.fam
        /\ n.answered = p.answered /\ n.tx = p.tx /\ n.answer = p.answer
        /\ n.window = p.window
        /\ n.grant = [on |-> TRUE, floor |-> f.floor, ctl |-> f.ctl]
    <3> HIDE DEF p, grid
    <3> QED
      BY <2>3, <2>4 DEF Slaves
  <2>7. n.grant.on /\ n.grant.floor = f.floor /\ n.grant.ctl = f.ctl
    <3> HIDE DEF n
    <3> QED
      BY <2>6
  <2> HIDE DEF n, p, r
  <2>8. /\ s.answered < f.tEnd
        /\ Spent(s, t, Horizon(m, t)) \/ (Live(m) /\ Owing(m, s, t))
        /\ \/ EndOf(f) <= Horizon(m, t) /\ Closes(f) < t
           \/ Live(m) /\ f \in FramesOf(m.tx.plan, m.tx.start)
    BY <1>2, <2>3, UnrefusedMeans DEF Refused
  <2>9. Spent(s, t, Horizon(m, t))
    <3> SUFFICES ASSUME Live(m), Owing(m, s, t)
                 PROVE  FALSE
      BY <2>8
    <3>1. /\ m.tx.start \in Nat /\ m.tx.end \in Nat /\ m.tx.start < m.tx.end
          /\ m.tx.plan \in Plans /\ m.tx.end = m.tx.start + AirTime(m.tx.plan)
          /\ Horizon(m, t) = m.tx.start
      BY LiveFacts, MasterFields DEF Horizon
    <3>2. EndOf(f) <= m.tx.end
      BY <2>3, <2>8, <3>1, FramesOfFacts DEF FrameOf
    <3>3. m.tx.end <= f.tStart
      BY <3>1 DEF Owing, NoTime
    <3> QED
      BY <2>2, <2>3, <3>1, <3>2, <3>3
  <2>10. n.answered < n.mEnd
    BY <2>2, <2>3, <2>4, <2>6, <2>8, SlaveFields
  <2>11. /\ SlotBegins(n) = SlotStart(EndOf(f), last, f.ctl.level, MasterDeclared)
         /\ Room(n) = Air(f.ctl.n, f.ctl.slotFloor)
         /\ Opening(n) <=> f.ctl.flag
    BY <2>6, <2>7 DEF SlotBegins, Opening, Room
  <2>12. ASSUME EndOf(f) <= Horizon(m, t), Closes(f) < t
         PROVE  PastSlot(m, n, t)
    <3>1. Closes(f) = SlotStart(EndOf(f), last, f.ctl.level, MasterDeclared)
                      + IF f.ctl.flag THEN Window(f.floor, f.ctl.index) ELSE Slack
      BY DEF Closes
    <3> QED
      BY <2>6, <2>7, <2>11, <2>12, <3>1 DEF PastSlot
  <2>13. ASSUME Live(m), f \in FramesOf(m.tx.plan, m.tx.start)
         PROVE  PresentSlot(m, n, t)
    <3>1. /\ m.tx.start \in Nat /\ m.tx.end \in Nat /\ m.tx.start < m.tx.end
          /\ m.tx.plan \in Plans /\ m.tx.end = m.tx.start + AirTime(m.tx.plan)
          /\ SlotOfPlan(m) /\ m.slot.window \in BOOLEAN /\ m.slot.grant \in Nat
      BY <2>13, LiveFacts, MasterFields
    <3>2. /\ m.tx.plan.opener /\ f.tStart = m.tx.start /\ EndOf(f) = m.tx.end
          /\ f.floor = m.tx.plan.floor /\ f.count = m.tx.plan.count
          /\ f.dataFloor = m.tx.plan.dataFloor /\ f.ctl = m.tx.plan.ctl
          /\ m.tx.start + Control[m.tx.plan.floor] <= f.tEnd
      BY <2>13, <3>1, FramesOfFacts DEF FrameOf
    <3>3. HeaderEnd(m) <= t
      <4>1. HeaderEnd(m) = m.tx.start + Control[m.tx.plan.floor]
        BY <3>2 DEF HeaderEnd
      <4>2. Control[m.tx.plan.floor] \in Nat
        BY <3>1, AirTimeOf
      <4> QED
        BY <2>2, <3>1, <3>2, <4>1, <4>2
    <3>4. last = m.slot.lastFloor /\ f.ctl.level = m.slot.level /\ m.slot.window = f.ctl.flag
      BY <3>1, <3>2 DEF SlotOfPlan
    <3> DEFINE S == SlotStart(m.tx.end, m.slot.lastFloor, m.slot.level, MasterDeclared)
    <3>5. SlotBegins(n) = S
      BY <2>11, <3>2, <3>4
    <3>6. /\ S \in Int /\ Begins(m) <= S
          /\ S + m.slot.grant + (IF m.slot.window THEN 0 ELSE Slack) <= Bound(m)
          /\ Bound(m) \in Int /\ Slack \in Nat
      BY BoundFacts, ConstantTypes
    <3>7. m.slot.stated = NoTime
      <4> SUFFICES ASSUME m.slot.stated # NoTime
                   PROVE  FALSE
        OBVIOUS
      <4>1. Given(m, s, t)
        BY <2>13
      <4>2. s.answered = m.tx.end /\ s.answered <= m.tx.start
        BY <2>9, <2>13, <4>1 DEF Given, Spent, Horizon
      <4> QED
        BY <3>1, <4>2
    <3> HIDE DEF S
    <3>8. CASE f.ctl.flag
      <4>1. m.slot.grant = Window(f.floor, f.ctl.index)
        BY <3>1, <3>2, <3>8 DEF SlotOfPlan
      <4>2. S + Window(f.floor, f.ctl.index) <= Bound(m)
        BY <3>1, <3>4, <3>6, <3>8, <4>1
      <4> QED
        BY <2>6, <2>7, <2>11, <2>13, <3>2, <3>3, <3>5, <3>6, <3>8, <4>2 DEF PresentSlot
    <3>9. CASE ~f.ctl.flag
      <4>1. Control[n.sticky] + Room(n) <= m.slot.grant
        BY <2>6, <2>11, <3>1, <3>2, <3>7, <3>9 DEF SlotOfPlan
      <4>2. Control[n.sticky] \in Nat /\ Room(n) \in Nat
        BY <2>2, <2>6, <2>11, AirNat, FrameAssumption
      <4>3. S + (Slack + Control[n.sticky] + Room(n)) <= Bound(m)
        BY <3>1, <3>4, <3>6, <3>9, <4>1, <4>2
      <4> QED
        BY <2>6, <2>7, <2>11, <2>13, <3>2, <3>3, <3>5, <3>6, <3>9, <4>3 DEF PresentSlot
    <3> QED
      BY <2>2, <3>8, <3>9
  <2>14. n.sticky \in m.possible
    BY <2>6
  <2>15. Moved(m, s, r, t) /\ r.mEnd = n.mEnd
    BY <2>1, <2>3, <2>4, <2>5, <2>6, <2>8, <2>9, <2>10, <2>12, <2>13, <2>14, AnchorMoves
  <2> QED
    BY <2>6, <2>15 DEF r
<1> QED
  BY <1>1, <1>2

LEMMA EndOfNat ==
  ASSUME NEW f \in ControlFrames \cup DataFrames, f.tStart <= f.tEnd
  PROVE  EndOf(f) \in Nat
<1>1. CASE f \in ControlFrames
  <2>1. f.kind = "control" /\ f.tEnd \in Nat /\ Air(f.count, f.dataFloor) \in Nat
    BY <1>1, AirNat, ConstantTypes DEF ControlFrames
  <2> QED
    BY <2>1 DEF EndOf
<1>2. CASE f \in DataFrames
  <2>1. /\ f.kind # "control" /\ f.tEnd \in Nat /\ f.tStart \in Nat /\ f.follows \in Nat
        /\ f.tEnd - f.tStart \in Nat
    BY <1>2, ConstantTypes DEF DataFrames
  <2>2. f.follows * (f.tEnd - f.tStart) \in Nat
    BY <2>1, ProductNat
  <2> QED
    BY <2>1, <2>2 DEF EndOf
<1> QED
  BY <1>1, <1>2

\* A data frame that is believed states where its transmission ends, and the slot
\* is the latest one's if the transmission is.
LEMMA DataAnchors ==
  ASSUME NEW m \in Masters, NEW t \in Nat, MasterInv(m, t),
         Live(m) => m.slot.stated = NoTime,
         NEW f \in DataFrames, f.tEnd <= t, f.follows < MaxFollows, EndOf(f) \in Nat,
         \/ EndOf(f) <= Horizon(m, t) /\ Closes(f) < t
         \/ Live(m) /\ f \in FramesOf(m.tx.plan, m.tx.start),
         NEW n \in Slaves, n.mEnd = EndOf(f), n.mLast = f.floor, ~n.grant.on,
         n.sticky \in m.possible
  PROVE  PastSlot(m, n, t) \/ PresentSlot(m, n, t)
<1>1. /\ f.kind # "control" /\ f.tEnd \in Nat /\ f.floor \in Families
  BY DEF DataFrames
<1>2. /\ SlotBegins(n) = SlotStart(EndOf(f), f.floor, 0, MasterDeclared)
      /\ ~Opening(n) /\ Room(n) = 0
  BY DEF SlotBegins, Opening, Room
<1>3. ASSUME EndOf(f) <= Horizon(m, t), Closes(f) < t
      PROVE  PastSlot(m, n, t)
  <2>1. Closes(f) = SlotStart(EndOf(f), f.floor, 0, MasterDeclared) + Slack
    BY <1>1 DEF Closes
  <2> QED
    BY <1>2, <1>3, <2>1 DEF PastSlot
<1>4. ASSUME Live(m), f \in FramesOf(m.tx.plan, m.tx.start)
      PROVE  PresentSlot(m, n, t)
  <2>1. /\ m.tx.start \in Nat /\ m.tx.end \in Nat /\ m.tx.start < m.tx.end
        /\ m.tx.plan \in Plans /\ m.tx.end = m.tx.start + AirTime(m.tx.plan)
        /\ SlotOfPlan(m) /\ m.slot.window \in BOOLEAN /\ m.slot.grant \in Nat
        /\ m.tx.start <= t
    BY <1>4, LiveFacts, MasterFields
  <2>2. /\ m.tx.plan.count > 0 /\ f.floor = m.tx.plan.dataFloor
        /\ EndOf(f) = m.tx.end
        /\ m.tx.plan.opener => m.tx.start + Control[m.tx.plan.floor] <= f.tEnd
    BY <1>1, <1>4, <2>1, FramesOfFacts DEF FrameOf
  <2>3. HeaderEnd(m) <= t
    <3>1. Control[m.tx.plan.floor] \in Nat
      BY <2>1, AirTimeOf
    <3>2. CASE m.tx.plan.opener
      BY <1>1, <2>1, <2>2, <3>1, <3>2 DEF HeaderEnd
    <3>3. CASE ~m.tx.plan.opener
      BY <2>1, <3>3 DEF HeaderEnd
    <3> QED
      BY <3>2, <3>3
  <2>4. f.floor = m.slot.lastFloor /\ ~m.slot.window /\ ~m.tx.plan.ctl.flag
    <3>1. m.tx.plan.ctl.flag \in BOOLEAN
      BY <2>1 DEF Plans, Headers
    <3> QED
      BY <2>1, <2>2, <3>1 DEF SlotOfPlan
  <2>5. SlotBegins(n) = Begins(m)
    BY <1>2, <2>2, <2>4 DEF Begins
  <2> DEFINE S == SlotStart(m.tx.end, m.slot.lastFloor, m.slot.level, MasterDeclared)
  <2>6. /\ S \in Int /\ Begins(m) <= S /\ Begins(m) \in Int
        /\ S + m.slot.grant + Slack <= Bound(m)
        /\ Bound(m) \in Int /\ Slack \in Nat
    BY <2>4, BoundFacts, ConstantTypes
  <2>7. Control[n.sticky] <= m.slot.grant /\ Control[n.sticky] \in Nat
    <3> DEFINE ctl == m.tx.plan.ctl
               a == Air(ctl.n, ctl.slotFloor)
    <3>1. ctl.n \in Nat /\ ctl.slotFloor \in Families
      BY <2>1, ConstantTypes DEF Plans, Headers
    <3>2. a \in Nat
      BY <3>1, AirNat
    <3>3. Control[n.sticky] + a <= m.slot.grant
      BY <1>4, <2>1, <2>4 DEF SlotOfPlan
    <3>4. Control[n.sticky] \in Nat
      BY SlaveFields, FrameAssumption
    <3> HIDE DEF a
    <3> QED
      BY <2>1, <3>2, <3>3, <3>4
  <2> HIDE DEF S
  <2>8. Begins(m) + (Slack + Control[n.sticky] + 0) <= Bound(m)
    BY <2>1, <2>6, <2>7
  <2> QED
    BY <1>2, <1>4, <2>2, <2>3, <2>5, <2>6, <2>8 DEF PresentSlot
<1> QED
  BY <1>3, <1>4

LEMMA TakeCopyMoves ==
  ASSUME NEW m \in Masters, NEW t \in Nat, MasterInv(m, t),
         NEW s \in Slaves, SlaveShape(s), Mode(m, s, t), s.sticky \in m.possible,
         Live(m) /\ m.slot.stated # NoTime => Given(m, s, t),
         NEW c \in AllChoices, NEW f \in DataFrames,
         Settled(m, s, t, f), f.tStart < f.tEnd, f.tEnd <= EndOf(f), f.tEnd <= t,
         NEW outcome, NEW read \in ReadCounts(f, outcome)
  PROVE  /\ Moved(m, s, TakeCopy(s, t, c, f, outcome, read), t)
         /\ TakeCopy(s, t, c, f, outcome, read).mEnd \in {s.mEnd, NoTime, EndOf(f)}
<1> DEFINE decoded == outcome # "undecoded"
           p == Placed(s, f)
           counted == decoded \/ ~p.grid.on \/ OnGrid(p.grid, f.tStart)
           q == IF counted THEN [p EXCEPT !.rx = @ \cup {f.tStart}] ELSE p
           anchored == [q EXCEPT !.mEnd = f.tEnd + read * (f.tEnd - f.tStart),
                                 !.mLast = f.floor]
           n == IF q.mEnd = NoTime /\ Believed(outcome, read)
                THEN ScheduleSlave(anchored, t, c) ELSE q
           r == TakeCopy(s, t, c, f, outcome, read)
<1>1. CASE Refused(s, f, decoded)
  <2>1. r = s
    BY <1>1 DEF TakeCopy
  <2> QED
    BY <2>1, MovedNowhere
<1>2. CASE ~Refused(s, f, decoded)
  <2>1. r = DecideIfFinal(n, t, c)
    BY <1>2 DEF TakeCopy
  <2>2. ~(s.answered # NoTime /\ f.tEnd <= s.answered)
    BY <1>2 DEF Refused
  <2>3. /\ f.tStart \in Nat /\ f.tEnd \in Nat /\ f.floor \in Families /\ f.follows \in Nat
        /\ f.kind # "control" /\ EndOf(f) \in Nat
    BY EndOfNat, ConstantTypes DEF DataFrames
  <2>4. /\ s.answered < f.tEnd
        /\ Spent(s, t, Horizon(m, t)) \/ (Live(m) /\ Owing(m, s, t))
        /\ \/ EndOf(f) <= Horizon(m, t) /\ Closes(f) < t
           \/ Live(m) /\ f \in FramesOf(m.tx.plan, m.tx.start)
    BY <2>2, <2>3, UnrefusedMeans
  <2>5. ASSUME Live(m)
        PROVE  /\ m.tx.start \in Nat /\ m.tx.end \in Nat /\ m.tx.start < m.tx.end
               /\ Horizon(m, t) = m.tx.start /\ EndOf(f) <= m.tx.end
    <3>1. /\ m.tx.start \in Nat /\ m.tx.end \in Nat /\ m.tx.start < m.tx.end
          /\ m.tx.plan \in Plans /\ m.tx.end = m.tx.start + AirTime(m.tx.plan)
          /\ Horizon(m, t) = m.tx.start
      BY <2>5, LiveFacts, MasterFields DEF Horizon
    <3>2. EndOf(f) <= m.tx.end
      BY <2>3, <2>4, <3>1, FramesOfFacts DEF FrameOf
    <3> QED
      BY <3>1, <3>2
  <2>6. p = s \/ (s.mEnd # NoTime /\ s.mEnd <= f.tStart)
    BY <2>3, SlaveFields DEF Placed
  <2>7. Live(m) /\ Owing(m, s, t) => p = s /\ s.mEnd # NoTime
    <3> SUFFICES ASSUME Live(m), Owing(m, s, t)
                 PROVE  p = s /\ s.mEnd # NoTime
      OBVIOUS
    <3>1. s.mEnd = m.tx.end /\ s.mEnd # NoTime
      BY <2>5 DEF Owing, NoTime
    <3>2. ~(s.mEnd <= f.tStart)
      BY <2>3, <2>5, <3>1
    <3> QED
      BY <2>6, <3>1, <3>2
  <2>8. Moved(m, s, p, t) /\ p.mEnd \in {s.mEnd, NoTime}
    <3>1. CASE p = s
      BY <3>1, MovedNowhere
    <3>2. CASE p # s
      <4>1. /\ p \in Slaves /\ p.mEnd = NoTime /\ ~p.grant.on /\ p.answer.what # "Ans"
            /\ ~p.window.on /\ p.answered = s.answered /\ p.tx = s.tx /\ p.sticky = s.sticky
        BY <2>6, <3>2, PlacedClears
      <4> HIDE DEF p
      <4>2. Spent(s, t, Horizon(m, t)) /\ Horizon(m, t) \in Nat
        BY <2>4, <2>7, <3>2, MasterFields DEF Horizon
      <4>3. Spent(p, t, Horizon(m, t))
        BY <4>1, <4>2 DEF Spent, NoneLeft, NoTime
      <4>4. Mode(m, p, t)
        BY <4>3 DEF Mode, Horizon
      <4>5. SlaveShape(p)
        BY <4>1 DEF SlaveShape
      <4>6. Live(m) => ~Given(m, s, t)
        <5> SUFFICES ASSUME Live(m)
                     PROVE  ~Given(m, s, t)
          OBVIOUS
        <5>1. s.answered <= m.tx.start /\ s.answered \in Int
          BY <2>5, <4>2, SlaveFields DEF Spent
        <5> QED
          BY <2>5, <5>1 DEF Given
      <4> QED
        BY <4>1, <4>4, <4>5, <4>6, SlaveFields DEF Moved
    <3> QED
      BY <3>1, <3>2
  <2>9. p.mEnd = NoTime => Spent(s, t, Horizon(m, t))
    BY <2>4, <2>7
  <2>10. q \in Slaves /\ Quiet(p, q)
    <3>1. p \in Slaves
      BY <2>8 DEF Moved
    <3> HIDE DEF p, counted
    <3>2. [p EXCEPT !.rx = @ \cup {f.tStart}] \in Slaves
      BY <2>3, <3>1 DEF Slaves
    <3>3. q \in Slaves
      BY <3>1, <3>2
    <3>4. /\ q.mEnd = p.mEnd /\ q.sticky = p.sticky /\ q.answered = p.answered
          /\ q.tx = p.tx /\ q.grant = p.grant /\ q.window = p.window /\ q.answer = p.answer
      BY <3>1 DEF Slaves
    <3> HIDE DEF q
    <3> QED
      BY <3>3, <3>4 DEF Quiet
  <2> HIDE DEF p, q
  <2>11. Moved(m, s, q, t) /\ q.mEnd = p.mEnd
    BY <2>8, <2>10, KeysMove
  <2>12. Moved(m, s, n, t) /\ n.mEnd \in {s.mEnd, NoTime, EndOf(f)}
    <3>1. CASE ~(q.mEnd = NoTime /\ Believed(outcome, read))
      <4>1. n = q
        BY <3>1
      <4> QED
        BY <2>8, <2>11, <4>1
    <3>2. CASE q.mEnd = NoTime /\ Believed(outcome, read)
      <4>1. n = ScheduleSlave(anchored, t, c)
        BY <3>2
      <4>2. read = f.follows /\ f.follows < MaxFollows
        BY <3>2 DEF Believed, ReadCounts
      <4> DEFINE end == f.tEnd + read * (f.tEnd - f.tStart)
      <4>3. end = EndOf(f)
        BY <2>3, <4>2 DEF EndOf
      <4>4. SlaveShape(q) /\ q.sticky \in m.possible
        BY <2>11 DEF Moved
      <4>5. ~q.grant.on /\ q.answer.what # "Ans" /\ ~q.window.on
        BY <3>2, <4>4 DEF SlaveShape
      <4>6. /\ anchored \in Slaves /\ anchored.mEnd = EndOf(f) /\ anchored.mLast = f.floor
            /\ anchored.grant = q.grant /\ anchored.answer = q.answer
            /\ anchored.window = q.window /\ anchored.answered = q.answered
            /\ anchored.tx = q.tx /\ anchored.sticky = q.sticky
        <5> HIDE DEF end
        <5> SUFFICES ASSUME NEW a, a = [q EXCEPT !.mEnd = end, !.mLast = f.floor]
                     PROVE  /\ a \in Slaves /\ a.mEnd = EndOf(f) /\ a.mLast = f.floor
                            /\ a.grant = q.grant /\ a.answer = q.answer
                            /\ a.window = q.window /\ a.answered = q.answered
                            /\ a.tx = q.tx /\ a.sticky = q.sticky
          BY DEF end
        <5> QED
          BY <2>3, <2>10, <4>3 DEF Slaves, MaybeTime
      <4> HIDE DEF anchored, end, n
      <4>7. Spent(s, t, Horizon(m, t))
        BY <2>9, <2>11, <3>2
      <4>8. p.answered = s.answered /\ p.tx = s.tx
        <5>1. CASE p = s
          BY <5>1
        <5>2. CASE s.mEnd # NoTime /\ s.mEnd <= f.tStart
          BY <5>2, PlacedClears DEF p
        <5> QED
          BY <2>6, <5>1, <5>2
      <4>9. anchored.answered = s.answered /\ anchored.tx = s.tx
        BY <2>10, <4>6, <4>8 DEF Quiet
      <4>10. anchored.answered < anchored.mEnd
        BY <2>3, <2>4, <4>6, <4>9, SlaveFields
      <4>11. Live(m) => m.slot.stated = NoTime
        <5> SUFFICES ASSUME Live(m), m.slot.stated # NoTime
                     PROVE  FALSE
          OBVIOUS
        <5>1. s.answered = m.tx.end /\ s.answered <= m.tx.start
          BY <2>5, <4>7 DEF Given, Spent
        <5> QED
          BY <2>5, <5>1
      <4>12. PastSlot(m, anchored, t) \/ PresentSlot(m, anchored, t)
        BY <2>3, <2>4, <4>2, <4>4, <4>5, <4>6, <4>11, DataAnchors
      <4>13. Moved(m, s, ScheduleSlave(anchored, t, c), t)
             /\ ScheduleSlave(anchored, t, c).mEnd = anchored.mEnd
        BY <2>3, <4>4, <4>5, <4>6, <4>7, <4>9, <4>10, <4>12, AnchorMoves
      <4> QED
        BY <4>1, <4>6, <4>13
    <3> QED
      BY <3>1, <3>2
  <2> HIDE DEF n, r
  <2>13. Quiet(n, r) \/ Keyed(n, r)
    BY <2>1, <2>12, DecideKeys DEF Moved
  <2> QED
    BY <2>12, <2>13, KeysMove DEF r
<1> QED
  BY <1>1, <1>2

-----------------------------------------------------------------------------
\* The steps of the slave.

Sharing(m, s, t, toS, toM) ==
  /\ MasterInv(m, t) /\ SlaveShape(s) /\ s.sticky \in m.possible
  /\ FrameShape(m, s, toS)
  /\ SharedInv(m, s, t, toS)
  /\ RepliesInv(m, s, toM)
  /\ HearsInv(m, s, t)

LEMMA AnsweredIsGiven ==
  ASSUME NEW m \in Masters, NEW t \in Nat, MasterInv(m, t), Live(m),
         NEW s \in Slaves, Mode(m, s, t), s.answered = m.tx.end
  PROVE  Given(m, s, t)
<1>1. m.tx.start < m.tx.end /\ m.tx.start \in Nat /\ m.tx.end \in Nat
  BY LiveFacts, MasterFields
<1>2. ~(s.answered <= m.tx.start)
  BY <1>1
<1> QED
  BY <1>2 DEF Mode, Spent, Owing

LEMMA MovedKeeps ==
  ASSUME NEW m \in Masters, NEW s \in Slaves, NEW t \in Nat, NEW toS, NEW toM,
         FramesOK(toS), Sharing(m, s, t, toS, toM),
         NEW r, Moved(m, s, r, t), NEW frames \in SUBSET toS, FrameShape(m, r, frames)
  PROVE  Sharing(m, r, t, frames, toM)
<1>1. /\ r \in Slaves /\ SlaveShape(r) /\ Mode(m, r, t) /\ r.sticky \in m.possible
      /\ s.answered <= r.answered /\ r.tx.end = s.tx.end
      /\ r.answered \in Int /\ s.answered \in Int
  BY SlaveFields DEF Moved
<1>2. MasterInv(m, t)
  BY DEF Sharing
<1>3. ASSUME NEW f \in frames
      PROVE  Settled(m, r, t, f)
  <2>1. Settled(m, s, t, f) /\ f \in ControlFrames \cup DataFrames
    BY DEF Sharing, SharedInv, FramesOK
  <2>2. f.tEnd \in Int
    BY <2>1 DEF ControlFrames, DataFrames
  <2>3. f.tEnd <= s.answered => f.tEnd <= r.answered
    BY <1>1, <2>2
  <2> QED
    BY <2>1, <2>3 DEF Settled, Stale
<1>4. Live(m) /\ Given(m, s, t) => /\ Given(m, r, t) /\ r.tx = s.tx
                                   /\ r.answered = s.answered /\ r.sticky = s.sticky
  BY DEF Moved
<1>5. SharedInv(m, r, t, frames)
  BY <1>1, <1>3, <1>4 DEF Sharing, SharedInv
<1>6. RepliesInv(m, r, toM)
  <2> SUFFICES ASSUME NEW f \in toM
               PROVE  /\ f.tStart < f.tEnd /\ f.tEnd <= r.tx.end
                      /\ Live(m) /\ f.tStart >= m.tx.end =>
                           /\ r.answered = m.tx.end /\ r.tx.phase # "wait"
                           /\ r.tx.plan.opener /\ r.tx.plan.floor = r.sticky
                           /\ f \in FramesOf(r.tx.plan, r.tx.start)
                           /\ r.tx.end = r.tx.start + AirTime(r.tx.plan)
    BY DEF RepliesInv
  <2>1. /\ f.tStart < f.tEnd /\ f.tEnd <= s.tx.end
        /\ Live(m) /\ f.tStart >= m.tx.end =>
             /\ s.answered = m.tx.end /\ s.tx.phase # "wait"
             /\ s.tx.plan.opener /\ s.tx.plan.floor = s.sticky
             /\ f \in FramesOf(s.tx.plan, s.tx.start)
             /\ s.tx.end = s.tx.start + AirTime(s.tx.plan)
    BY DEF Sharing, RepliesInv
  <2>2. ASSUME Live(m), s.answered = m.tx.end
        PROVE  r.tx = s.tx /\ r.answered = s.answered /\ r.sticky = s.sticky
    <3>1. Mode(m, s, t)
      BY DEF Sharing, SharedInv
    <3>2. Given(m, s, t)
      BY <1>2, <2>2, <3>1, AnsweredIsGiven
    <3> QED
      BY <1>4, <2>2, <3>2
  <2> QED
    BY <1>1, <2>1, <2>2
<1>7. HearsInv(m, r, t)
  BY <1>1 DEF Sharing, HearsInv, Hears
<1> QED
  BY <1>1, <1>2, <1>5, <1>6, <1>7 DEF Sharing

LEMMA ReadKeeps ==
  ASSUME NEW m \in Masters, NEW s \in Slaves, NEW t \in Nat, NEW toS, NEW toM,
         FramesOK(toS), Sharing(m, s, t, toS, toM), NEW f \in toS,
         NEW r, Moved(m, s, r, t), r.mEnd \in {s.mEnd, NoTime, EndOf(f)}
  PROVE  Sharing(m, r, t, Unread(toS, f), toM)
<1>1. Unread(toS, f) \in SUBSET toS /\ \A g \in Unread(toS, f) : f.tStart < g.tStart
  <2>1. \A g \in toS : g.tStart > f.tStart => f.tStart < g.tStart
    BY DEF FramesOK, ControlFrames, DataFrames
  <2> QED
    BY <2>1 DEF Unread
<1>2. FrameShape(m, s, toS)
  BY DEF Sharing
<1>3. ASSUME NEW g \in Unread(toS, f), g.kind = "control", r.mEnd # NoTime
      PROVE  r.mEnd <= g.tStart
  <2>1. r.mEnd = s.mEnd => r.mEnd <= g.tStart
    BY <1>1, <1>2, <1>3 DEF FrameShape
  <2>2. r.mEnd = EndOf(f) => r.mEnd <= g.tStart
    BY <1>1, <1>2, <1>3 DEF FrameShape
  <2> QED
    BY <1>3, <2>1, <2>2
<1>4. FrameShape(m, r, Unread(toS, f))
  BY <1>1, <1>2, <1>3 DEF FrameShape
<1> QED
  BY <1>1, <1>4, MovedKeeps

LEMMA ReadsMove ==
  ASSUME TypeInv, Sharing(master, slave, now, toSlave, toMaster), SlaveReads
  PROVE  /\ Moved(master, slave, slave', now)
         /\ \E f \in toSlave : /\ slave'.mEnd \in {slave.mEnd, NoTime, EndOf(f)}
                               /\ toSlave' = Unread(toSlave, f)
<1>1. /\ master \in Masters /\ slave \in Slaves /\ now \in Nat /\ FramesOK(toSlave)
      /\ MasterInv(master, now) /\ SlaveShape(slave) /\ slave.sticky \in master.possible
      /\ Mode(master, slave, now)
      /\ Live(master) /\ master.slot.stated # NoTime => Given(master, slave, now)
  BY DEF TypeInv, TypeOK, Sharing, SharedInv
<1>2. PICK f \in toSlave, c \in Choices :
        /\ now >= f.tEnd
        /\ SlaveReadsHeader(f, c) \/ SlaveReadsData(f, c)
        /\ toSlave' = Unread(toSlave, f)
  BY DEF SlaveReads
<1>3. /\ c \in AllChoices /\ f \in ControlFrames \cup DataFrames
      /\ Settled(master, slave, now, f) /\ f.tStart < f.tEnd /\ f.tEnd <= EndOf(f)
      /\ f.kind = "control" => /\ f.ctl.fam \in master.possible
                               /\ slave.mEnd # NoTime => slave.mEnd <= f.tStart
  BY <1>1, <1>2, PolicyAssumption DEF Sharing, SharedInv, FrameShape, FramesOK
<1>4. f.tEnd <= now
  BY <1>1, <1>2, <1>3 DEF ControlFrames, DataFrames
<1>5. Moved(master, slave, slave', now) /\ slave'.mEnd \in {slave.mEnd, NoTime, EndOf(f)}
  <2>1. CASE SlaveReadsHeader(f, c)
    <3>1. f.kind = "control" /\ f \in ControlFrames /\ slave' = TakeHeader(slave, now, c, f)
      BY <1>3, <2>1 DEF SlaveReadsHeader, DataFrames
    <3> QED
      BY <1>1, <1>3, <1>4, <3>1, TakeHeaderMoves
  <2>2. CASE SlaveReadsData(f, c)
    <3>1. f \in DataFrames
      BY <1>3, <2>2 DEF SlaveReadsData, ControlFrames
    <3>2. PICK outcome \in {"alone", "rescued", "undecoded"} :
            \E read \in ReadCounts(f, outcome) :
              slave' = TakeCopy(slave, now, c, f, outcome, read)
      BY <2>2 DEF SlaveReadsData
    <3>3. PICK read \in ReadCounts(f, outcome) :
            slave' = TakeCopy(slave, now, c, f, outcome, read)
      BY <3>2
    <3> QED
      BY <1>1, <1>3, <1>4, <3>1, <3>3, TakeCopyMoves
  <2> QED
    BY <1>2, <2>1, <2>2
<1> QED
  BY <1>2, <1>5

LEMMA SlaveReadsKeeps ==
  ASSUME TypeInv, Sharing(master, slave, now, toSlave, toMaster), SlaveReads
  PROVE  Sharing(master, slave', now, toSlave', toMaster)
<1>1. master \in Masters /\ slave \in Slaves /\ now \in Nat /\ FramesOK(toSlave)
  BY DEF TypeInv, TypeOK
<1> QED
  BY <1>1, ReadsMove, ReadKeeps

LEMMA TimersMove ==
  ASSUME TypeInv, Sharing(master, slave, now, toSlave, toMaster),
         SlaveAnswerTimer \/ SlaveSend
  PROVE  /\ Moved(master, slave, slave', now) /\ slave'.mEnd = slave.mEnd
         /\ toSlave' = toSlave
<1>1. /\ master \in Masters /\ slave \in Slaves /\ now \in Nat /\ FramesOK(toSlave)
      /\ MasterInv(master, now) /\ SlaveShape(slave) /\ slave.sticky \in master.possible
      /\ Mode(master, slave, now) /\ FrameShape(master, slave, toSlave)
  BY DEF TypeInv, TypeOK, Sharing, SharedInv
<1>2. toSlave' = toSlave
  BY DEF SlaveAnswerTimer, SlaveSend
<1>3. Quiet(slave, slave') \/ Keyed(slave, slave')
  <2>1. CASE SlaveAnswerTimer
    BY <1>1, <2>1, PolicyAssumption, KeyAnswerKeys DEF SlaveAnswerTimer
  <2>2. CASE SlaveSend
    BY <1>1, <2>2, PolicyAssumption, TryWindowKeys DEF SlaveSend
  <2> QED
    BY <2>1, <2>2
<1>4. Moved(master, slave, slave', now) /\ slave'.mEnd = slave.mEnd
  BY <1>1, <1>3, MovedNowhere, KeysMove
<1> QED
  BY <1>2, <1>4

LEMMA SlaveKeysKeeps ==
  ASSUME TypeInv, Sharing(master, slave, now, toSlave, toMaster),
         SlaveAnswerTimer \/ SlaveSend
  PROVE  Sharing(master, slave', now, toSlave', toMaster)
<1>1. /\ master \in Masters /\ slave \in Slaves /\ now \in Nat /\ FramesOK(toSlave)
      /\ FrameShape(master, slave, toSlave)
  BY DEF TypeInv, TypeOK, Sharing
<1>2. /\ Moved(master, slave, slave', now) /\ slave'.mEnd = slave.mEnd
      /\ toSlave' = toSlave
  BY TimersMove
<1>3. FrameShape(master, slave', toSlave)
  BY <1>1, <1>2 DEF FrameShape
<1> QED
  BY <1>1, <1>2, <1>3, MovedKeeps

\* Only an answer given in the latest slot can still be radiated, and it fits there.
LEMMA SlaveRadiatesFits ==
  ASSUME TypeInv, Sharing(master, slave, now, toSlave, toMaster), SlaveRadiates
  PROVE  /\ Live(master) /\ Given(master, slave, now) /\ TxFits(master, slave)
         /\ slave.tx.end <= master.tx.start /\ master.slot.stated = NoTime
         /\ Begins(master) <= now
         /\ now + AirTime(slave.tx.plan) <= Bound(master)
<1>1. /\ master \in Masters /\ slave \in Slaves /\ now \in Nat
      /\ MasterInv(master, now) /\ Mode(master, slave, now)
      /\ slave.tx.phase = "wait" /\ now >= slave.tx.ready /\ now >= slave.tx.notBefore
      /\ now <= slave.tx.notAfter
      /\ Live(master) /\ master.slot.stated # NoTime => slave.tx.phase # "wait"
  BY DEF TypeInv, TypeOK, Sharing, SharedInv, SlaveRadiates
<1>2. /\ slave.tx.ready \in Nat /\ slave.tx.notBefore \in Nat /\ slave.tx.notAfter \in Int
      /\ AirTime(slave.tx.plan) \in Nat /\ Bound(master) \in Int /\ Begins(master) \in Int
  BY <1>1, SlaveFields, AirTimeNat, BoundFacts
<1>3. ~NoneLeft(slave, now) /\ ~(slave.tx.notAfter < now)
  BY <1>1, <1>2 DEF NoneLeft
<1>4. Live(master) /\ Given(master, slave, now)
  BY <1>1, <1>3 DEF Mode, Spent, Owing
<1>5. TxFits(master, slave) /\ slave.tx.end <= master.tx.start
  BY <1>1, <1>3, <1>4 DEF Given
<1>6. Begins(master) <= now
  BY <1>1, <1>2, <1>5 DEF TxFits
<1>7. now + AirTime(slave.tx.plan) <= Bound(master)
  BY <1>1, <1>2, <1>5 DEF TxFits
<1> QED
  BY <1>1, <1>4, <1>5, <1>6, <1>7

LEMMA SlaveRadiatesKeeps ==
  ASSUME TypeInv, Sharing(master, slave, now, toSlave, toMaster), SlaveRadiates
  PROVE  Sharing(master, slave', now, toSlave', toMaster')
<1> DEFINE m == master
           s == slave
           t == now
           plan == slave.tx.plan
           r == slave'
<1>1. /\ m \in Masters /\ s \in Slaves /\ t \in Nat
      /\ MasterInv(m, t) /\ SlaveShape(s) /\ s.sticky \in m.possible
      /\ FrameShape(m, s, toSlave) /\ SharedInv(m, s, t, toSlave) /\ RepliesInv(m, s, toMaster)
      /\ HearsInv(m, s, t)
  BY DEF TypeInv, TypeOK, Sharing
<1>2. /\ Live(m) /\ Given(m, s, t) /\ TxFits(m, s)
      /\ s.tx.end <= m.tx.start /\ m.slot.stated = NoTime
      /\ Begins(m) <= t /\ t + AirTime(plan) <= Bound(m)
  BY SlaveRadiatesFits
<1>3. /\ plan \in Plans /\ AirTime(plan) \in Nat /\ s.tx.end \in Nat /\ m.tx.start \in Nat
      /\ m.tx.end \in Nat /\ m.tx.start <= t /\ m.tx.start < m.tx.end /\ Bound(m) \in Int
      /\ Begins(m) \in Int /\ m.tx.end <= t
  <2>1. m.tx.end + MasterTurnaround <= Begins(m) /\ Begins(m) \in Int /\ Bound(m) \in Int
    BY <1>1, BoundFacts
  <2>2. m.tx.start <= t /\ m.tx.start < m.tx.end /\ m.tx.end \in Nat
    BY <1>1, <1>2, LiveFacts, MasterFields
  <2>3. m.tx.end <= t
    BY <1>1, <1>2, <2>1, <2>2, ConstantTypes
  <2> QED
    BY <1>1, <2>1, <2>2, <2>3, SlaveFields, AirTimeNat, MasterFields
<1>4. /\ r.mEnd = s.mEnd /\ r.sticky = s.sticky /\ r.answered = s.answered
      /\ r.answer = s.answer /\ r.window = s.window /\ r.grant = s.grant
      /\ r.tx.phase = "air" /\ r.tx.start = t /\ r.tx.end = t + AirTime(plan)
      /\ r.tx.plan = plan
      /\ toMaster' = toMaster \cup FramesOf(plan, t) /\ toSlave' = toSlave
  BY <1>1 DEF SlaveRadiates, Slaves, Transmissions
<1> HIDE DEF m, s, t, plan, r
<1>5. SlaveShape(r) /\ FrameShape(m, r, toSlave)
  BY <1>1, <1>4 DEF SlaveShape, FrameShape
<1>6. Given(m, r, t)
  BY <1>1, <1>2, <1>3, <1>4 DEF Given
<1>7. SharedInv(m, r, t, toSlave)
  <2>1. Mode(m, r, t)
    BY <1>2, <1>6 DEF Mode
  <2>2. \A f \in toSlave : Settled(m, r, t, f)
    BY <1>1, <1>2, <1>4 DEF SharedInv, Settled, Stale
  <2> QED
    BY <1>2, <2>1, <2>2 DEF SharedInv
<1>8. RepliesInv(m, r, toMaster')
  <2> SUFFICES ASSUME NEW f \in toMaster'
               PROVE  /\ f.tStart < f.tEnd /\ f.tEnd <= r.tx.end
                      /\ Live(m) /\ f.tStart >= m.tx.end =>
                           /\ r.answered = m.tx.end /\ r.tx.phase # "wait"
                           /\ r.tx.plan.opener /\ r.tx.plan.floor = r.sticky
                           /\ f \in FramesOf(r.tx.plan, r.tx.start)
                           /\ r.tx.end = r.tx.start + AirTime(r.tx.plan)
    BY DEF RepliesInv
  <2>1. CASE f \in toMaster
    <3>1. f \in ControlFrames \cup DataFrames
      BY <2>1 DEF TypeInv, FramesOK
    <3>2. f.tStart \in Nat /\ f.tEnd \in Nat
      BY <3>1 DEF ControlFrames, DataFrames
    <3>3. f.tStart < f.tEnd /\ f.tEnd <= s.tx.end
      BY <1>1, <2>1 DEF RepliesInv
    <3>4. f.tEnd <= r.tx.end /\ ~(f.tStart >= m.tx.end)
      BY <1>1, <1>2, <1>3, <1>4, <3>2, <3>3
    <3> QED
      BY <3>3, <3>4
  <2>2. CASE f \in FramesOf(plan, t)
    <3>1. f \in ControlFrames \cup DataFrames
      BY <1>1, <1>3, <2>2, FramesOfType
    <3>2. f.tStart \in Nat /\ f.tEnd \in Nat
      BY <3>1 DEF ControlFrames, DataFrames
    <3>3. /\ f.tStart < f.tEnd /\ f.tEnd <= EndOf(f) /\ EndOf(f) <= t + AirTime(plan)
      BY <1>1, <1>3, <2>2, FramesOfFacts DEF FrameOf
    <3>4. EndOf(f) \in Nat
      BY <3>1, <3>2, <3>3, EndOfNat
    <3>5. f.tEnd <= r.tx.end
      BY <1>1, <1>3, <1>4, <3>2, <3>3, <3>4
    <3> QED
      BY <1>2, <1>4, <2>2, <3>3, <3>5 DEF Given, TxFits, plan, s
  <2> QED
    BY <1>4, <2>1, <2>2
<1>9. HearsInv(m, r, t)
  BY <1>1, <1>2, <1>3 DEF HearsInv, Live
<1> QED
  BY <1>1, <1>4, <1>5, <1>7, <1>8, <1>9 DEF Sharing, m, r, s, t

\* What was handed over is over: nothing of the answer changes but its phase.
LEMMA SlaveSettlesKeeps ==
  ASSUME TypeInv, Sharing(master, slave, now, toSlave, toMaster),
         SlaveDropped \/ SlaveTxDone
  PROVE  Sharing(master, slave', now, toSlave', toMaster')
<1> DEFINE m == master
           s == slave
           t == now
           r == slave'
<1>1. /\ m \in Masters /\ s \in Slaves /\ t \in Nat
      /\ MasterInv(m, t) /\ SlaveShape(s) /\ s.sticky \in m.possible
      /\ FrameShape(m, s, toSlave) /\ SharedInv(m, s, t, toSlave) /\ RepliesInv(m, s, toMaster)
      /\ HearsInv(m, s, t)
  BY DEF TypeInv, TypeOK, Sharing
<1>2. /\ r.mEnd = s.mEnd /\ r.sticky = s.sticky /\ r.answered = s.answered
      /\ r.answer = s.answer /\ r.window = s.window /\ r.grant = s.grant
      /\ r.tx.phase = "idle" /\ r.tx.end = s.tx.end
      /\ toMaster' = toMaster /\ toSlave' = toSlave
      /\ s.tx.phase = "wait" \/ (r.tx.plan = s.tx.plan /\ r.tx.start = s.tx.start)
      /\ s.tx.phase = "air" => ~(s.tx.end > t)
  <2>1. CASE SlaveDropped
    BY <1>1, <2>1 DEF SlaveDropped, Slaves, Transmissions, NoTx
  <2>2. CASE SlaveTxDone
    BY <1>1, <2>2 DEF SlaveTxDone, Slaves, Transmissions
  <2> QED
    BY <2>1, <2>2
<1> HIDE DEF m, s, t, r
<1>3. SlaveShape(r) /\ FrameShape(m, r, toSlave)
  BY <1>1, <1>2 DEF SlaveShape, FrameShape
<1>4. Given(m, s, t) => Given(m, r, t)
  BY <1>1, <1>2 DEF Given
<1>5. SharedInv(m, r, t, toSlave)
  <2>1. Mode(m, r, t)
    BY <1>1, <1>2, <1>4 DEF SharedInv, Mode, Spent, Owing, NoneLeft, AnsFits, WindowFits
  <2>2. \A f \in toSlave : Settled(m, r, t, f)
    BY <1>1, <1>2 DEF SharedInv, Settled, Stale
  <2>3. Live(m) /\ m.slot.stated # NoTime =>
          Given(m, r, t) /\ r.tx.end = m.slot.stated /\ r.tx.phase # "wait"
    BY <1>1, <1>2, <1>4 DEF SharedInv
  <2> QED
    BY <2>1, <2>2, <2>3 DEF SharedInv
<1>6. RepliesInv(m, r, toMaster)
  BY <1>1, <1>2 DEF RepliesInv
<1>7. HearsInv(m, r, t)
  BY <1>1, <1>2 DEF HearsInv, Hears
<1> QED
  BY <1>1, <1>2, <1>3, <1>5, <1>6, <1>7 DEF Sharing, m, r, s, t

-----------------------------------------------------------------------------
\* The clock.

LEMMA ClosesInt ==
  ASSUME NEW f \in ControlFrames \cup DataFrames, f.tStart <= f.tEnd
  PROVE  Closes(f) \in Int
<1>1. EndOf(f) \in Nat /\ f.floor \in Families /\ Slack \in Nat /\ 0 \in Levels
  BY EndOfNat, ConstantTypes DEF ControlFrames, DataFrames
<1>2. CASE f.kind = "control"
  <2>1. f \in ControlFrames
    BY <1>2 DEF DataFrames
  <2>2. /\ f.dataFloor \in Families /\ f.ctl.level \in Levels /\ f.ctl.index \in Index
    BY <2>1, ConstantTypes DEF ControlFrames, Headers
  <2> DEFINE last == IF f.count > 0 THEN f.dataFloor ELSE f.floor
             start == SlotStart(EndOf(f), last, f.ctl.level, MasterDeclared)
             more == IF f.ctl.flag THEN Window(f.floor, f.ctl.index) ELSE Slack
  <2>3. last \in Families
    BY <1>1, <2>2
  <2>4. start \in Int
    <3> HIDE DEF last
    <3> QED
      BY <1>1, <2>2, <2>3, SlotStartFacts
  <2>5. more \in Nat
    BY <1>1, <2>2, WindowNat
  <2>6. Closes(f) = start + more
    BY <1>2 DEF Closes
  <2> HIDE DEF start, more
  <2> QED
    BY <2>4, <2>5, <2>6
<1>3. CASE f.kind # "control"
  <2>1. SlotStart(EndOf(f), f.floor, 0, MasterDeclared) \in Int
    BY <1>1, SlotStartFacts
  <2>2. Closes(f) = SlotStart(EndOf(f), f.floor, 0, MasterDeclared) + Slack
    BY <1>3 DEF Closes
  <2> QED
    BY <1>1, <2>1, <2>2
<1> QED
  BY <1>2, <1>3

LEMMA StaleLater ==
  ASSUME NEW s \in Slaves, NEW f \in ControlFrames \cup DataFrames, f.tStart <= f.tEnd,
         NEW old \in Int, NEW old2 \in Int, old <= old2,
         NEW t \in Int, NEW t2 \in Int, t <= t2, Stale(s, f, old, t)
  PROVE  Stale(s, f, old2, t2)
<1>1. EndOf(f) \in Nat /\ Closes(f) \in Int
  BY EndOfNat, ClosesInt
<1> QED
  BY <1>1 DEF Stale

LEMMA SpentLater ==
  ASSUME NEW s \in Slaves, NEW old \in Int, NEW old2 \in Int, old <= old2,
         NEW t \in Int, NEW t2 \in Int, t <= t2, Spent(s, t, old)
  PROVE  Spent(s, t2, old2)
<1>1. /\ s.mEnd \in Int /\ s.answered \in Int /\ s.tx.end \in Nat /\ s.answer.start \in Nat
      /\ s.window.end \in Nat /\ s.tx.notAfter \in Int /\ Slack \in Nat
  BY SlaveFields, ConstantTypes
<1> QED
  BY <1>1 DEF Spent, NoneLeft

LEMMA HearsLater ==
  ASSUME NEW s \in Slaves, NEW t \in Int, NEW t2 \in Int, t <= t2, Hears(s, t)
  PROVE  Hears(s, t2)
<1>1. s.tx.end \in Nat /\ SlaveDeclared \in Nat /\ Rounding \in Int
  BY SlaveFields, ConstantTypes DEF Rounding
<1> QED
  BY <1>1 DEF Hears

LEMMA TickKeeps ==
  ASSUME TypeInv, Sharing(master, slave, now, toSlave, toMaster)
  PROVE  Sharing(master, slave, now + 1, toSlave, toMaster)
<1> DEFINE m == master
           s == slave
           t == now
           u == now + 1
<1>1. /\ m \in Masters /\ s \in Slaves /\ t \in Nat /\ u \in Nat /\ t <= u
      /\ MasterInv(m, t) /\ SlaveShape(s) /\ s.sticky \in m.possible
      /\ FrameShape(m, s, toSlave) /\ SharedInv(m, s, t, toSlave) /\ RepliesInv(m, s, toMaster)
      /\ HearsInv(m, s, t) /\ FramesOK(toSlave)
  BY DEF TypeInv, TypeOK, Sharing
<1> HIDE DEF m, s, t, u
<1>2. /\ m.tx.start \in Nat /\ m.tx.end \in Nat /\ HeaderEnd(m) \in Nat
      /\ s.tx.end \in Nat /\ s.tx.start \in Nat /\ s.tx.notAfter \in Int
  BY <1>1, MasterFields, SlaveFields, BoundFacts
<1>3. MasterInv(m, u)
  BY <1>1, <1>2 DEF MasterInv
<1>4. \A f \in toSlave : Settled(m, s, u, f)
  <2> SUFFICES ASSUME NEW f \in toSlave
               PROVE  Settled(m, s, u, f)
    OBVIOUS
  <2>1. f \in ControlFrames \cup DataFrames /\ f.tStart <= f.tEnd /\ Settled(m, s, t, f)
    BY <1>1 DEF FramesOK, SharedInv
  <2> QED
    BY <1>1, <1>2, <2>1, StaleLater DEF Settled
<1>5. Given(m, s, t) => Given(m, s, u)
  BY <1>1, <1>2 DEF Given
<1>6. Owing(m, s, t) => Owing(m, s, u)
  BY <1>1, <1>2 DEF Owing, NoneLeft
<1>7. Mode(m, s, u)
  <2>1. \A old, old2 \in Int : old <= old2 /\ Spent(s, t, old) => Spent(s, u, old2)
    BY <1>1, SpentLater
  <2> QED
    BY <1>1, <1>2, <1>5, <1>6, <2>1 DEF Mode, SharedInv
<1>8. SharedInv(m, s, u, toSlave)
  BY <1>1, <1>4, <1>5, <1>7 DEF SharedInv
<1>9. HearsInv(m, s, u)
  BY <1>1, <1>2 DEF HearsInv
<1> QED
  BY <1>1, <1>3, <1>8, <1>9 DEF Sharing, m, s, t, u

-----------------------------------------------------------------------------
\* The steps of the master.

SameSlot(m, n) ==
  /\ n.tx.plan = m.tx.plan /\ n.tx.start = m.tx.start /\ n.tx.end = m.tx.end
  /\ n.slot.lastFloor = m.slot.lastFloor /\ n.slot.level = m.slot.level
  /\ n.slot.window = m.slot.window /\ n.slot.grant = m.slot.grant

LEMMA SameBounds ==
  ASSUME NEW m, NEW n, SameSlot(m, n)
  PROVE  /\ Begins(n) = Begins(m) /\ Latest(n) = Latest(m) /\ Bound(n) = Bound(m)
         /\ HeaderEnd(n) = HeaderEnd(m)
         /\ \A s, t : /\ Owing(n, s, t) <=> Owing(m, s, t)
                      /\ Given(n, s, t) <=> Given(m, s, t)
<1>1. /\ Begins(n) = Begins(m) /\ Latest(n) = Latest(m) /\ HeaderEnd(n) = HeaderEnd(m)
  BY DEF SameSlot, Begins, Latest, HeaderEnd
<1>2. Bound(n) = Bound(m)
  BY <1>1 DEF Bound
<1>3. n.tx.start = m.tx.start /\ n.tx.end = m.tx.end
  BY DEF SameSlot
<1>4. \A s : /\ AnsFits(n, s) <=> AnsFits(m, s)
             /\ WindowFits(n, s) <=> WindowFits(m, s)
             /\ TxFits(n, s) <=> TxFits(m, s)
  BY <1>1, <1>2 DEF AnsFits, WindowFits, TxFits
<1> QED
  BY <1>1, <1>2, <1>3, <1>4 DEF Owing, Given

LEMMA ArmWaitFacts ==
  ASSUME NEW m, MasterOK(m), NEW t \in Nat
  PROVE  LET o == ArmWait(m, t)
         IN  /\ o.tx = m.tx /\ o.slot = m.slot /\ o.possible = m.possible
             /\ o.peerLate = m.peerLate /\ o \in Masters
             /\ o.proceed # NoTime /\ o.proceed >= SlotClose(o) /\ o.proceed >= t
<1> DEFINE o == ArmWait(m, t)
<1>1. m \in Masters /\ SlotClose(m) \in Nat
  BY SlotCloseNat DEF MasterOK
<1>2. /\ o.tx = m.tx /\ o.slot = m.slot /\ o.possible = m.possible /\ o.peerLate = m.peerLate
      /\ o.proceed = Max2(t, SlotClose(m))
  BY <1>1 DEF ArmWait, Masters
<1>3. o \in Masters
  BY ArmWaitType DEF MasterOK
<1> HIDE DEF o
<1>4. SlotClose(o) = SlotClose(m)
  BY <1>2 DEF SlotClose
<1>5. o.proceed # NoTime /\ o.proceed >= SlotClose(o) /\ o.proceed >= t
  BY <1>1, <1>2, <1>4 DEF Max2, NoTime
<1> QED
  BY <1>2, <1>3, <1>5 DEF o

LEMMA OpenSlotFacts ==
  ASSUME NEW m, MasterOK(m), NEW t \in Nat, NEW end \in Nat
  PROVE  LET o == OpenSlot(m, t, end)
         IN  /\ o \in Masters /\ o.tx = m.tx /\ o.possible = m.possible
             /\ o.slot.on = m.slot.on /\ o.slot.final = m.slot.final
             /\ o.slot.lastFloor = m.slot.lastFloor /\ o.slot.level = m.slot.level
             /\ o.slot.window = m.slot.window /\ o.slot.grant = m.slot.grant
             /\ o.slot.stated = m.slot.stated /\ o.slot.txEnd = end
             /\ o.slot.endMax = SlotStart(end, m.slot.lastFloor, m.slot.level, MasterTurnaround)
                                + m.slot.grant + IF m.slot.window THEN 0 ELSE Slack
             /\ o.proceed # NoTime /\ o.proceed >= SlotClose(o)
<1> DEFINE start == SlotStart(end, m.slot.lastFloor, m.slot.level, MasterTurnaround)
           endMax == start + m.slot.grant + IF m.slot.window THEN 0 ELSE Slack
           n == [m EXCEPT !.slot.txEnd = end, !.slot.start = start,
                          !.slot.endMax = endMax]
           o == OpenSlot(m, t, end)
<1>1. m \in Masters /\ m.slot \in Slots
  BY MasterFields DEF MasterOK
<1>2. start \in Nat
  BY <1>1, MasterFields, SlotStartNat, ConstantTypes
<1>3. endMax \in Nat
  <2> HIDE DEF start
  <2> QED
    BY <1>1, <1>2, MasterFields, ConstantTypes
<1>4. o = ArmWait(n, t)
  BY DEF OpenSlot
<1> HIDE DEF endMax, start, o
<1>5. /\ n.tx = m.tx /\ n.possible = m.possible
      /\ n.slot.on = m.slot.on /\ n.slot.final = m.slot.final
      /\ n.slot.lastFloor = m.slot.lastFloor /\ n.slot.level = m.slot.level
      /\ n.slot.window = m.slot.window /\ n.slot.grant = m.slot.grant
      /\ n.slot.stated = m.slot.stated /\ n.slot.txEnd = end /\ n.slot.endMax = endMax
  BY <1>1 DEF Masters, Slots
<1>6. MasterOK(n)
  BY <1>2, <1>3 DEF MasterOK, Masters, Slots
<1> HIDE DEF n
<1>7. /\ o.tx = n.tx /\ o.slot = n.slot /\ o.possible = n.possible /\ o \in Masters
      /\ o.proceed # NoTime /\ o.proceed >= SlotClose(o)
  BY <1>4, <1>6, ArmWaitFacts
<1> QED
  BY <1>5, <1>7 DEF o, endMax, start

\* The same of the slot of a transmission whose end is known.
LEMMA OpenSlotLatest ==
  ASSUME NEW m, MasterOK(m), NEW t \in Nat
  PROVE  LET o == OpenSlot(m, t, m.tx.end)
         IN  /\ o \in Masters /\ o.tx = m.tx /\ o.possible = m.possible /\ SameSlot(m, o)
             /\ o.slot.on = m.slot.on /\ o.slot.final = m.slot.final
             /\ o.slot.stated = m.slot.stated
             /\ o.slot.txEnd = o.tx.end /\ o.slot.endMax = Latest(o)
             /\ o.proceed # NoTime /\ o.proceed >= SlotClose(o)
<1> DEFINE o == OpenSlot(m, t, m.tx.end)
<1>1. m.tx.end \in Nat
  BY MasterFields DEF MasterOK
<1>2. /\ o \in Masters /\ o.tx = m.tx /\ o.possible = m.possible
      /\ o.slot.on = m.slot.on /\ o.slot.final = m.slot.final
      /\ o.slot.lastFloor = m.slot.lastFloor /\ o.slot.level = m.slot.level
      /\ o.slot.window = m.slot.window /\ o.slot.grant = m.slot.grant
      /\ o.slot.stated = m.slot.stated /\ o.slot.txEnd = m.tx.end
      /\ o.proceed # NoTime /\ o.proceed >= SlotClose(o)
  BY <1>1, OpenSlotFacts
<1>3. o.slot.endMax = SlotStart(m.tx.end, m.slot.lastFloor, m.slot.level, MasterTurnaround)
                      + m.slot.grant + IF m.slot.window THEN 0 ELSE Slack
  BY <1>1, OpenSlotFacts
<1> HIDE DEF o
<1>4. o.slot.endMax = Latest(o)
  BY <1>2, <1>3 DEF Latest
<1> QED
  BY <1>2, <1>4 DEF SameSlot, o

\* The frames of the latest transmission say nothing past its slot.
LEMMA FrameCloses ==
  ASSUME NEW m \in Masters, NEW t \in Nat, MasterInv(m, t), Live(m),
         NEW f \in FramesOf(m.tx.plan, m.tx.start)
  PROVE  EndOf(f) <= m.tx.end /\ f.tEnd <= m.tx.end /\ Closes(f) <= Bound(m)
<1>1. /\ m.tx.start \in Nat /\ m.tx.end \in Nat /\ m.tx.plan \in Plans
      /\ m.tx.end = m.tx.start + AirTime(m.tx.plan)
      /\ SlotOfPlan(m) /\ m.slot.window \in BOOLEAN /\ m.slot.grant \in Nat
      /\ m.slot.lastFloor \in Families /\ m.slot.level \in Levels
  BY LiveFacts, MasterFields
<1>2. FrameOf(m.tx.plan, m.tx.start, f) /\ f \in ControlFrames \cup DataFrames
  BY <1>1, FramesOfFacts, FramesOfType
<1>3. EndOf(f) \in Nat /\ f.tEnd \in Nat
  <2>1. f.tStart \in Nat /\ f.tEnd \in Nat /\ f.tStart < f.tEnd
    BY <1>2 DEF ControlFrames, DataFrames, FrameOf
  <2> QED
    BY <1>2, <2>1, EndOfNat
<1>4. EndOf(f) <= m.tx.end /\ f.tEnd <= EndOf(f)
  BY <1>1, <1>2 DEF FrameOf
<1> DEFINE S(l) == SlotStart(m.tx.end, m.slot.lastFloor, l, MasterDeclared)
<1>5. /\ S(m.slot.level) \in Int /\ Begins(m) = S(0) /\ Begins(m) <= S(m.slot.level)
      /\ S(m.slot.level) + m.slot.grant + (IF m.slot.window THEN 0 ELSE Slack) <= Bound(m)
      /\ Slack \in Nat /\ Bound(m) \in Int /\ Begins(m) \in Int
  BY BoundFacts, ConstantTypes DEF Begins
<1>6. CASE f.kind = "control"
  <2>1. /\ m.tx.plan.opener /\ EndOf(f) = m.tx.end
        /\ f.floor = m.tx.plan.floor /\ f.count = m.tx.plan.count
        /\ f.dataFloor = m.tx.plan.dataFloor /\ f.ctl = m.tx.plan.ctl
    BY <1>1, <1>2, <1>6 DEF FrameOf
  <2>2. /\ m.slot.lastFloor = (IF f.count > 0 THEN f.dataFloor ELSE f.floor)
        /\ f.ctl.level = m.slot.level /\ m.slot.window = f.ctl.flag
        /\ f.ctl.flag => m.slot.grant = Window(f.floor, f.ctl.index)
    BY <1>1, <2>1 DEF SlotOfPlan
  <2>3. Closes(f) = S(m.slot.level)
                    + IF f.ctl.flag THEN Window(f.floor, f.ctl.index) ELSE Slack
    BY <1>6, <2>1, <2>2 DEF Closes
  <2> HIDE DEF S
  <2>4. Closes(f) <= Bound(m)
    BY <1>1, <1>5, <2>2, <2>3
  <2> QED
    BY <1>3, <1>4, <1>1, <2>4
<1>7. CASE f.kind # "control"
  <2>1. m.tx.plan.count > 0 /\ f.floor = m.tx.plan.dataFloor
    BY <1>2, <1>7 DEF FrameOf
  <2>2. f.floor = m.slot.lastFloor /\ ~m.slot.window
    <3>1. m.tx.plan.ctl.flag \in BOOLEAN
      BY <1>1 DEF Plans, Headers
    <3> QED
      BY <1>1, <2>1, <3>1 DEF SlotOfPlan
  <2>3. Closes(f) = SlotStart(EndOf(f), m.slot.lastFloor, 0, MasterDeclared) + Slack
    BY <1>7, <2>2 DEF Closes
  <2>4. /\ SlotStart(EndOf(f), m.slot.lastFloor, 0, MasterDeclared) <= S(0)
        /\ SlotStart(EndOf(f), m.slot.lastFloor, 0, MasterDeclared) \in Int
    <3>1. /\ EndOf(f) \in Int /\ m.tx.end \in Int /\ m.slot.lastFloor \in Families
          /\ 0 \in Levels /\ EndOf(f) <= m.tx.end
      BY <1>1, <1>3, <1>4, ConstantTypes
    <3>2. SlotStart(EndOf(f), m.slot.lastFloor, 0, MasterDeclared) <= S(0)
      BY <3>1, SlotStartLater
    <3>3. SlotStart(EndOf(f), m.slot.lastFloor, 0, MasterDeclared) \in Int
      BY <3>1, SlotStartFacts
    <3> QED
      BY <3>2, <3>3
  <2> HIDE DEF S
  <2>5. Closes(f) <= Bound(m)
    BY <1>1, <1>5, <2>2, <2>3, <2>4
  <2> QED
    BY <1>3, <1>4, <1>1, <2>5
<1> QED
  BY <1>6, <1>7

\* When the master's next key falls due, its slot is over: the slave has nothing
\* left to key, no frame that could schedule anything, and hears once the master
\* radiates.
LEMMA DueIsOver ==
  ASSUME NEW m \in Masters, NEW s \in Slaves, NEW t \in Nat, NEW toS, NEW toM,
         FramesOK(toS), Sharing(m, s, t, toS, toM),
         m.tx.phase = "idle", m.proceed # NoTime, t >= m.proceed
  PROVE  /\ Spent(s, t, t) /\ Hears(s, t + MasterLatency)
         /\ \A f \in toS : Stale(s, f, t, t)
<1>1. /\ MasterInv(m, t) /\ SlaveShape(s) /\ Mode(m, s, t) /\ HearsInv(m, s, t)
      /\ \A f \in toS : Settled(m, s, t, f)
      /\ Live(m) /\ m.slot.stated # NoTime =>
           Given(m, s, t) /\ s.tx.end = m.slot.stated /\ s.tx.phase # "wait"
  BY DEF Sharing, SharedInv
<1>2. /\ s.mEnd \in Int /\ s.answered \in Int /\ s.tx.end \in Nat
      /\ s.answer.start \in Nat /\ s.answer.room \in Nat
      /\ s.window.end \in Nat /\ s.tx.notAfter \in Int /\ Slack \in Nat
      /\ Control[s.sticky] \in Nat /\ AirTime(s.tx.plan) \in Nat
      /\ MasterLatency \in Nat /\ SlaveDeclared \in Nat
      /\ m.tx.start \in Nat /\ m.tx.end \in Nat /\ m.peerLate \in Nat
      /\ m.slot.endMax \in Nat /\ m.slot.stated \in Int /\ m.slot.statedFloor \in Families
      /\ Bound(m) \in Int /\ Latest(m) \in Int /\ Bound(m) = Latest(m) + Rounding
      /\ Rounding \in Nat /\ m.tx.end <= Latest(m) /\ m.proceed \in Int
  BY SlaveFields, MasterFields, BoundFacts, ConstantTypes, FrameAssumption, AirTimeNat
<1>3. CASE ~Live(m)
  <2>1. Hears(s, m.proceed)
    BY <1>1, <1>3, MasterFields DEF HearsInv, Live
  <2>2. Hears(s, t + MasterLatency)
    BY <1>2, <2>1, HearsLater
  <2> QED
    BY <1>1, <1>3, <2>2 DEF Mode, Settled
<1>4. CASE Live(m)
  <2>1. /\ m.slot.on /\ m.tx.start <= t /\ m.tx.start < m.tx.end
        /\ m.tx.end = m.tx.start + AirTime(m.tx.plan)
        /\ m.slot.endMax = Latest(m) /\ m.proceed >= SlotClose(m)
        /\ m.slot.stated # NoTime => m.slot.stated >= m.tx.end
    BY <1>1, <1>4, LiveFacts DEF MasterInv
  <2>2. CASE m.slot.stated # NoTime
    <3>1. SlotClose(m) = After(m.slot.stated, m.slot.statedFloor)
      BY <2>2 DEF SlotClose
    <3>2. /\ SlotClose(m) \in Int /\ m.slot.stated + Rounding < SlotClose(m)
          /\ m.slot.stated + SlaveDeclared <= SlotClose(m) + MasterLatency
      BY <1>2, <3>1, AfterFacts
    <3>3. /\ s.mEnd = m.tx.end /\ s.answered = m.tx.end
          /\ s.tx.end = m.slot.stated /\ s.tx.phase # "wait"
      BY <1>1, <1>4, <2>2 DEF Given
    <3>4. m.tx.end <= t /\ s.tx.end <= t
      BY <1>2, <2>1, <2>2, <3>2, <3>3
    <3>5. s.answer.what # "Ans" /\ ~s.window.on
      BY <1>1, <1>2, <3>3 DEF SlaveShape
    <3>6. Spent(s, t, t)
      BY <3>3, <3>4, <3>5 DEF Spent, NoneLeft
    <3>7. Hears(s, t + MasterLatency)
      BY <1>2, <2>1, <3>2, <3>3 DEF Hears
    <3>8. ASSUME NEW f \in toS
          PROVE  Stale(s, f, t, t)
      <4>1. f \in ControlFrames \cup DataFrames /\ f.tStart <= f.tEnd
        BY DEF FramesOK
      <4>2. CASE Stale(s, f, m.tx.start, t)
        BY <1>2, <2>1, <4>1, <4>2, StaleLater
      <4>3. CASE f \in FramesOf(m.tx.plan, m.tx.start)
        <5>1. EndOf(f) <= m.tx.end /\ f.tEnd <= m.tx.end
          BY <1>1, <1>4, <4>3, FrameCloses
        <5>2. EndOf(f) \in Nat
          BY <4>1, EndOfNat
        <5> QED
          BY <1>2, <3>3, <3>4, <5>1, <5>2 DEF Stale
      <4> QED
        BY <1>1, <1>4, <4>2, <4>3 DEF Settled
    <3> QED
      BY <3>6, <3>7, <3>8
  <2>3. CASE m.slot.stated = NoTime
    <3> DEFINE fl == IF "floor" \in m.slot.answerFloors THEN "floor" ELSE "ordinary"
    <3>1. SlotClose(m) = After(m.slot.endMax + m.peerLate, fl)
      BY <2>3 DEF SlotClose
    <3>2. /\ SlotClose(m) \in Int /\ m.slot.endMax + m.peerLate + Rounding < SlotClose(m)
          /\ m.slot.endMax + m.peerLate + SlaveDeclared <= SlotClose(m) + MasterLatency
      <4>1. fl \in Families /\ m.slot.endMax + m.peerLate \in Int
        BY <1>2 DEF Families
      <4> HIDE DEF fl
      <4> QED
        BY <3>1, <4>1, AfterFacts
    <3>3. /\ Bound(m) < t /\ m.tx.end < t
          /\ \A x \in Int : x <= Bound(m) => x + SlaveDeclared <= t + MasterLatency + Rounding
      BY <1>2, <2>1, <3>2
    <3>4. ASSUME Spent(s, t, m.tx.start)
          PROVE  Spent(s, t, t) /\ Hears(s, t + MasterLatency)
      <4>1. Spent(s, t, t)
        BY <1>2, <2>1, <3>4, SpentLater
      <4>2. s.tx.end <= Bound(m)
        BY <1>2, <2>1, <3>4 DEF Spent
      <4> QED
        BY <1>2, <3>3, <4>1, <4>2 DEF Hears
    <3>5. ASSUME Owing(m, s, t)
          PROVE  Spent(s, t, t) /\ Hears(s, t + MasterLatency)
      <4>1. /\ s.mEnd = m.tx.end /\ s.answered <= m.tx.start /\ s.tx.end <= m.tx.start
            /\ NoneLeft(s, t)
        BY <3>5 DEF Owing
      <4>2. s.answer.what = "Ans" => s.answer.start + Slack < t
        BY <1>2, <3>3, <3>5 DEF Owing, AnsFits
      <4>3. s.window.on => s.window.end < t
        BY <1>2, <3>3, <3>5 DEF Owing, WindowFits
      <4>4. Spent(s, t, t)
        BY <1>2, <2>1, <3>3, <4>1, <4>2, <4>3 DEF Spent
      <4>5. s.tx.end <= Bound(m)
        BY <1>2, <2>1, <4>1
      <4> QED
        BY <1>2, <3>3, <4>4, <4>5 DEF Hears
    <3>6. ASSUME Given(m, s, t)
          PROVE  Spent(s, t, t) /\ Hears(s, t + MasterLatency)
      <4>1. s.mEnd = m.tx.end /\ s.answered = m.tx.end /\ s.tx.end <= Bound(m)
        BY <3>6 DEF Given
      <4>2. s.answer.what # "Ans" /\ ~s.window.on
        BY <1>1, <1>2, <4>1 DEF SlaveShape
      <4>3. NoneLeft(s, t)
        BY <1>2, <3>3, <3>6 DEF Given, TxFits, NoneLeft
      <4>4. Spent(s, t, t)
        BY <1>2, <3>3, <4>1, <4>2, <4>3 DEF Spent
      <4> QED
        BY <1>2, <3>3, <4>1, <4>4 DEF Hears
    <3>7. ASSUME NEW f \in toS
          PROVE  Stale(s, f, t, t)
      <4>1. f \in ControlFrames \cup DataFrames /\ f.tStart <= f.tEnd
        BY DEF FramesOK
      <4>2. CASE Stale(s, f, m.tx.start, t)
        BY <1>2, <2>1, <4>1, <4>2, StaleLater
      <4>3. CASE f \in FramesOf(m.tx.plan, m.tx.start)
        <5>1. EndOf(f) <= m.tx.end /\ Closes(f) <= Bound(m)
          BY <1>1, <1>4, <4>3, FrameCloses
        <5>2. EndOf(f) \in Nat /\ Closes(f) \in Int
          BY <4>1, EndOfNat, ClosesInt
        <5> QED
          BY <1>2, <3>3, <5>1, <5>2 DEF Stale
      <4> QED
        BY <1>1, <1>4, <4>2, <4>3 DEF Settled
    <3> QED
      BY <1>1, <1>4, <3>4, <3>5, <3>6, <3>7 DEF Mode
  <2> QED
    BY <2>2, <2>3
<1> QED
  BY <1>3, <1>4

LEMMA CloseSlotFacts ==
  ASSUME NEW m \in Masters
  PROVE  LET o == CloseSlot(m)
         IN  /\ o.tx = m.tx /\ o.possible = m.possible /\ o.slot = NoSlot
             /\ o.proceed = NoTime
BY DEF CloseSlot, Masters

LEMMA LongestControlCovers ==
  ASSUME NEW fs \in SUBSET Families, NEW g \in fs
  PROVE  Control[g] <= LongestControl(fs)
<1>1. g = "ordinary" \/ g = "floor"
  BY DEF Families
<1>2. Control["ordinary"] \in Nat /\ Control["floor"] \in Nat
  BY FrameAssumption DEF Families
<1> QED
  BY <1>1, <1>2, FrameAssumption DEF LongestControl

\* A header's slot is the one the header states.
LEMMA SendHeaderFacts ==
  ASSUME NEW m, MasterOK(m), NEW t \in Nat, NEW p \in AllPolicies, Allowed(m, p)
  PROVE  LET o == SendHeader(m, t, p)
         IN  /\ o \in Masters /\ o.slot.on /\ ~o.slot.final /\ o.slot.stated = NoTime
             /\ o.tx.phase = "wait" /\ o.tx.ready = t + MasterLatency
             /\ m.possible \subseteq o.possible /\ SlotOfPlan(o)
<1> DEFINE possible == Holds(m, p)
           answers == possible \cup {p.wanted}
           grant == IF p.flag THEN Window(p.hdrFloor, p.index)
                    ELSE LongestControl(answers) + Air(p.n, p.sized)
           ctl == [level |-> p.level, n |-> p.n, flag |-> p.flag, index |-> p.index,
                   fam |-> p.wanted, slotFloor |-> p.sized]
           plan == [opener |-> ~p.elide, floor |-> p.hdrFloor, count |-> p.count,
                    dataFloor |-> p.dataFloor, ctl |-> ctl]
           last == IF p.count > 0 THEN p.dataFloor ELSE p.hdrFloor
           floors == IF p.n > 0 /\ ~p.flag THEN answers \cup {p.sized} ELSE answers
           slot == NewSlot(grant, p.level, p.flag, last, floors)
           tx == Handed(t + MasterLatency, 0, NoTime, 0, plan)
           n == [m EXCEPT !.slot = slot, !.tx = tx, !.possible = possible]
           o == SendHeader(m, t, p)
<1>1. /\ m \in Masters
      /\ p.level \in Levels /\ p.n \in Nat /\ p.n \in 0 .. MaxData
      /\ p.flag \in BOOLEAN /\ p.index \in Index
      /\ p.wanted \in Families /\ p.sized \in Families /\ p.hdrFloor \in Families
      /\ p.count \in 0 .. MaxData /\ p.count \in Nat
      /\ p.dataFloor \in Families /\ p.elide \in BOOLEAN
  BY ConstantTypes DEF AllPolicies, MasterOK
<1>2. possible \in SUBSET Families /\ answers \in SUBSET Families /\ floors \in SUBSET Families
  BY <1>1, MasterFields DEF Holds
<1>3. grant \in Nat
  <2>1. Window(p.hdrFloor, p.index) \in Nat
    BY <1>1, WindowNat
  <2>2. LongestControl(answers) \in Nat /\ Air(p.n, p.sized) \in Nat
    BY <1>1, LongestControlNat, AirNat
  <2> HIDE DEF answers
  <2> QED
    BY <2>1, <2>2
<1>4. plan \in Plans
  BY <1>1 DEF Plans, Headers
<1>5. last \in Families
  BY <1>1
<1>6. slot \in Slots
  <2> HIDE DEF grant, last, floors
  <2> QED
    BY <1>1, <1>2, <1>3, <1>5, NewSlotType
<1>7. tx \in Transmissions
  <2> HIDE DEF plan
  <2>1. t + MasterLatency \in Nat /\ NoTime \in Int
    BY ConstantTypes, NoTimeInt
  <2> QED
    BY <1>4, <2>1, HandedType
<1>8. MasterOK(n)
  <2> HIDE DEF slot, tx, possible
  <2> QED
    BY <1>2, <1>6, <1>7 DEF MasterOK, Masters
<1>9. n.slot = slot /\ n.tx = tx /\ n.possible = possible
  <2> HIDE DEF slot, tx, possible
  <2> QED
    BY <1>1 DEF Masters
<1>10. o = OpenSlot(n, t, Estimate(t, plan))
  BY DEF SendHeader
<1>11. Estimate(t, plan) \in Nat
  <2> HIDE DEF plan
  <2>1. AirTime(plan) \in Nat
    BY <1>4, AirTimeNat
  <2> QED
    BY <2>1, ConstantTypes DEF Estimate
<1> HIDE DEF n, o
<1>12. /\ o \in Masters /\ o.tx = n.tx /\ o.possible = n.possible
       /\ o.slot.on = n.slot.on /\ o.slot.final = n.slot.final
       /\ o.slot.lastFloor = n.slot.lastFloor /\ o.slot.level = n.slot.level
       /\ o.slot.window = n.slot.window /\ o.slot.grant = n.slot.grant
       /\ o.slot.stated = n.slot.stated
  <2> HIDE DEF plan
  <2> QED
    BY <1>8, <1>10, <1>11, OpenSlotFacts
<1>13. /\ slot.on /\ ~slot.final /\ slot.stated = NoTime /\ slot.lastFloor = last
       /\ slot.level = p.level /\ slot.window = p.flag /\ slot.grant = grant
  <2> HIDE DEF grant, last, floors
  <2> QED
    BY DEF NewSlot
<1>14. tx.phase = "wait" /\ tx.ready = t + MasterLatency /\ tx.plan = plan
  <2> HIDE DEF plan
  <2> QED
    BY DEF Handed
<1>15. /\ plan.opener = ~p.elide /\ plan.floor = p.hdrFloor /\ plan.count = p.count
       /\ plan.dataFloor = p.dataFloor /\ plan.ctl = ctl
  <2> HIDE DEF ctl
  <2> QED
    OBVIOUS
<1>16. /\ ctl.level = p.level /\ ctl.n = p.n /\ ctl.flag = p.flag /\ ctl.index = p.index
       /\ ctl.fam = p.wanted /\ ctl.slotFloor = p.sized
  OBVIOUS
<1>17. /\ p.elide => p.count > 0 /\ ~p.flag /\ m.possible = {p.wanted}
       /\ p.flag => p.count = 0
  BY DEF Allowed, MayElide
<1>18. p.wanted \in possible /\ m.possible \subseteq possible
  BY <1>1, <1>17 DEF Holds
<1>19. ASSUME ~p.flag, NEW g \in possible
       PROVE  Control[g] + Air(p.n, p.sized) <= grant
  <2>1. Control[g] <= LongestControl(answers) /\ Control[g] \in Nat
    BY <1>2, LongestControlCovers, FrameAssumption
  <2>2. LongestControl(answers) \in Nat /\ Air(p.n, p.sized) \in Nat
    BY <1>1, LongestControlNat, AirNat
  <2>3. grant = LongestControl(answers) + Air(p.n, p.sized)
    BY <1>19
  <2> HIDE DEF grant, answers
  <2> QED
    BY <2>1, <2>2, <2>3
<1> HIDE DEF slot, tx, plan, ctl, grant, last, floors, answers, possible
<1>20. /\ o.tx.plan = plan /\ o.slot.level = p.level /\ o.slot.window = p.flag
       /\ o.slot.lastFloor = last /\ o.slot.grant = grant /\ o.possible = possible
  BY <1>9, <1>12, <1>13, <1>14
<1>21. SlotOfPlan(o)
  <2>1. o.slot.lastFloor = IF o.tx.plan.count > 0 THEN o.tx.plan.dataFloor ELSE o.tx.plan.floor
    BY <1>15, <1>20 DEF last
  <2>2. o.tx.plan.opener \/ o.tx.plan.count > 0
    BY <1>1, <1>15, <1>17, <1>20
  <2>3. o.tx.plan.ctl.flag =>
          /\ o.tx.plan.opener /\ o.tx.plan.count = 0
          /\ o.slot.grant = Window(o.tx.plan.floor, o.tx.plan.ctl.index)
    BY <1>1, <1>15, <1>16, <1>17, <1>20 DEF grant
  <2>4. /\ o.tx.plan.ctl.fam \in o.possible
        /\ ~o.tx.plan.ctl.flag => \A g \in o.possible :
             Control[g] + Air(o.tx.plan.ctl.n, o.tx.plan.ctl.slotFloor) <= o.slot.grant
    BY <1>15, <1>16, <1>18, <1>19, <1>20
  <2> QED
    BY <1>15, <1>16, <1>20, <2>1, <2>2, <2>3, <2>4 DEF SlotOfPlan
<1> QED
  BY <1>9, <1>12, <1>13, <1>14, <1>18, <1>20, <1>21 DEF o

LEMMA ProceedKeeps ==
  ASSUME TypeInv, Sharing(master, slave, now, toSlave, toMaster), Proceed
  PROVE  Sharing(master', slave', now, toSlave', toMaster')
<1> DEFINE m == master
           s == slave
           t == now
           n == master'
<1>1. /\ m \in Masters /\ MasterOK(m) /\ s \in Slaves /\ t \in Nat /\ FramesOK(toSlave)
      /\ SlaveShape(s) /\ s.sticky \in m.possible
      /\ FrameShape(m, s, toSlave) /\ RepliesInv(m, s, toMaster)
      /\ m.tx.phase = "idle" /\ m.proceed # NoTime /\ t >= m.proceed /\ m.up
      /\ slave' = s /\ toSlave' = toSlave /\ toMaster' = toMaster
  BY DEF TypeInv, TypeOK, Sharing, Proceed
<1>2. /\ Spent(s, t, t) /\ Hears(s, t + MasterLatency)
      /\ \A f \in toSlave : Stale(s, f, t, t)
  BY <1>1, DueIsOver
<1> DEFINE closed == CloseSlot(m)
<1>3. /\ closed.tx = m.tx /\ closed.possible = m.possible /\ closed.slot = NoSlot
      /\ closed.proceed = NoTime /\ MasterOK(closed)
  BY <1>1, CloseSlotFacts, CloseSlotType
<1>4. NoSlot.on = FALSE /\ NoSlot.stated = NoTime
  BY DEF NoSlot
<1>5. \/ n = closed
      \/ \E p \in Policies : Allowed(closed, p) /\ n = SendHeader(closed, t, p)
  BY DEF Proceed
<1> HIDE DEF m, s, t, n, closed
\* whichever it does, nothing is live
<1>6. ASSUME ~Live(n), m.possible \subseteq n.possible, MasterInv(n, t), HearsInv(n, s, t)
      PROVE  Sharing(n, s, t, toSlave, toMaster)
  <2>1. FrameShape(n, s, toSlave) /\ s.sticky \in n.possible
    BY <1>1, <1>6 DEF FrameShape
  <2>2. SharedInv(n, s, t, toSlave)
    BY <1>2, <1>6 DEF SharedInv, Settled, Mode
  <2>3. RepliesInv(n, s, toMaster)
    BY <1>1, <1>6 DEF RepliesInv
  <2> QED
    BY <1>1, <1>6, <2>1, <2>2, <2>3 DEF Sharing
<1>7. CASE n = closed
  <2>1. ~Live(n) /\ m.possible \subseteq n.possible /\ n.tx.phase = "idle"
    BY <1>1, <1>3, <1>4, <1>7 DEF Live
  <2>2. MasterInv(n, t)
    BY <1>3, <1>4, <1>7, <2>1 DEF MasterInv
  <2>3. HearsInv(n, s, t)
    BY <1>3, <1>7, <2>1 DEF HearsInv
  <2> QED
    BY <1>1, <1>6, <2>1, <2>2, <2>3 DEF m, n, s, t
<1>8. CASE \E p \in Policies : Allowed(closed, p) /\ n = SendHeader(closed, t, p)
  <2>1. PICK p \in AllPolicies : Allowed(closed, p) /\ n = SendHeader(closed, t, p)
    BY <1>8, PolicyAssumption
  <2>2. /\ n \in Masters /\ n.slot.on /\ ~n.slot.final /\ n.slot.stated = NoTime
        /\ n.tx.phase = "wait" /\ n.tx.ready = t + MasterLatency
        /\ closed.possible \subseteq n.possible /\ SlotOfPlan(n)
    BY <1>1, <1>3, <2>1, SendHeaderFacts
  <2>3. ~Live(n) /\ m.possible \subseteq n.possible
    BY <1>3, <2>2 DEF Live
  <2>4. MasterInv(n, t)
    BY <2>2, <2>3 DEF MasterInv
  <2>5. HearsInv(n, s, t)
    BY <1>2, <2>2 DEF HearsInv
  <2> QED
    BY <1>1, <1>6, <2>3, <2>4, <2>5 DEF m, n, s, t
<1> QED
  BY <1>5, <1>7, <1>8

LEMMA MasterRadiatesKeeps ==
  ASSUME TypeInv, Sharing(master, slave, now, toSlave, toMaster), MasterRadiates
  PROVE  Sharing(master', slave', now, toSlave', toMaster')
<1> DEFINE m == master
           s == slave
           t == now
           n == master'
           plan == master.tx.plan
           frames == toSlave \cup FramesOf(plan, t)
<1>1. /\ m \in Masters /\ s \in Slaves /\ t \in Nat /\ FramesOK(toSlave) /\ FramesOK(toMaster)
      /\ MasterInv(m, t) /\ SlaveShape(s) /\ s.sticky \in m.possible
      /\ FrameShape(m, s, toSlave) /\ SharedInv(m, s, t, toSlave) /\ RepliesInv(m, s, toMaster)
      /\ HearsInv(m, s, t)
      /\ m.tx.phase = "wait" /\ t >= m.tx.ready
      /\ slave' = s /\ toSlave' = frames /\ toMaster' = toMaster
  BY DEF TypeInv, TypeOK, Sharing, MasterRadiates
<1>2. /\ n.slot = m.slot /\ n.possible = m.possible /\ n.tx.phase = "air"
      /\ n.tx.start = t /\ n.tx.end = t + AirTime(plan) /\ n.tx.plan = plan
  BY <1>1 DEF MasterRadiates, Masters, Transmissions
<1> HIDE DEF m, s, t, n, frames
<1>3. plan = m.tx.plan
  BY DEF m
<1> HIDE DEF plan
<1>4. ~Live(m) /\ m.slot.on /\ ~m.slot.final /\ SlotOfPlan(m) /\ m.slot.stated = NoTime
  BY <1>1 DEF MasterInv, Live
<1>5. /\ plan \in Plans /\ AirTime(plan) \in Nat /\ AirTime(plan) > 0 /\ m.tx.ready \in Nat
  BY <1>1, <1>3, <1>4, MasterFields, AirTimeNat, AirTimeOf DEF SlotOfPlan
<1>6. SlotOfPlan(n)
  BY <1>2, <1>3, <1>4 DEF SlotOfPlan
<1>7. MasterInv(n, t)
  BY <1>1, <1>2, <1>4, <1>6 DEF MasterInv
<1>8. Spent(s, t, t) /\ \A f \in toSlave : Stale(s, f, t, t)
  BY <1>1, <1>4 DEF SharedInv, Settled, Mode
<1>9. Live(n)
  BY <1>2 DEF Live
<1>10. SharedInv(n, s, t, frames)
  BY <1>2, <1>4, <1>8, <1>9 DEF SharedInv, Settled, Mode, frames
<1>11. ASSUME NEW f \in FramesOf(plan, t)
       PROVE  FrameOf(plan, t, f) /\ f.tStart \in Nat /\ f.tEnd \in Nat
  BY <1>1, <1>5, FramesOfFacts, FramesOfType DEF ControlFrames, DataFrames
<1>12. ASSUME NEW f \in toSlave
       PROVE  /\ f.tStart \in Nat /\ f.tEnd \in Nat /\ EndOf(f) \in Nat
              /\ f.tStart < f.tEnd /\ f.tEnd <= EndOf(f) /\ EndOf(f) <= t
  <2>1. f \in ControlFrames \cup DataFrames /\ f.tStart <= f.tEnd
    BY <1>1 DEF FramesOK
  <2> QED
    BY <1>1, <1>8, <2>1, EndOfNat DEF FrameShape, Stale, ControlFrames, DataFrames
<1>13. FrameShape(n, s, frames)
  <2>1. ASSUME NEW f \in frames
        PROVE  /\ f.tStart < f.tEnd /\ f.tEnd <= EndOf(f)
               /\ f.kind = "control" => /\ f.ctl.fam \in n.possible
                                        /\ s.mEnd # NoTime => s.mEnd <= f.tStart
    <3>1. CASE f \in toSlave
      BY <1>1, <1>2, <3>1 DEF FrameShape
    <3>2. CASE f \in FramesOf(plan, t)
      <4>1. FrameOf(plan, t, f)
        BY <1>11, <3>2
      <4>2. f.kind = "control" => f.ctl = plan.ctl /\ f.tStart = t
        BY <4>1 DEF FrameOf
      <4>3. plan.ctl.fam \in n.possible
        BY <1>2, <1>3, <1>4 DEF SlotOfPlan
      <4>4. s.mEnd <= t
        BY <1>8 DEF Spent
      <4> QED
        BY <4>1, <4>2, <4>3, <4>4 DEF FrameOf
    <3> QED
      BY <3>1, <3>2 DEF frames
  <2>2. ASSUME NEW f \in frames, NEW g \in frames, f.kind = "control", g.tStart < f.tStart
        PROVE  EndOf(g) <= f.tStart
    <3>1. CASE f \in toSlave /\ g \in toSlave
      BY <1>1, <2>2, <3>1 DEF FrameShape
    <3>2. CASE f \in toSlave /\ g \in FramesOf(plan, t)
      <4>1. t <= g.tStart /\ g.tStart \in Nat
        BY <1>11, <3>2 DEF FrameOf
      <4> QED
        BY <1>1, <1>12, <2>2, <3>2, <4>1
    <3>3. CASE f \in FramesOf(plan, t) /\ g \in toSlave
      <4>1. f.tStart = t
        BY <1>11, <2>2, <3>3 DEF FrameOf
      <4> QED
        BY <1>12, <3>3, <4>1
    <3>4. CASE f \in FramesOf(plan, t) /\ g \in FramesOf(plan, t)
      BY <1>1, <1>5, <2>2, <3>4, FramesOfOrder
    <3> QED
      BY <3>1, <3>2, <3>3, <3>4 DEF frames
  <2> QED
    BY <2>1, <2>2 DEF FrameShape
<1>14. RepliesInv(n, s, toMaster)
  <2> SUFFICES ASSUME NEW f \in toMaster
               PROVE  /\ f.tStart < f.tEnd /\ f.tEnd <= s.tx.end
                      /\ ~(f.tStart >= n.tx.end)
    BY DEF RepliesInv
  <2>1. f.tStart < f.tEnd /\ f.tEnd <= s.tx.end /\ s.tx.end <= t
    BY <1>1, <1>8 DEF RepliesInv, Spent
  <2>2. f.tStart \in Nat /\ f.tEnd \in Nat /\ s.tx.end \in Nat
    BY <1>1, SlaveFields DEF FramesOK, ControlFrames, DataFrames
  <2> QED
    BY <1>1, <1>2, <1>5, <2>1, <2>2
<1>15. HearsInv(n, s, t)
  <2>1. Hears(s, t)
    BY <1>1, <1>5, HearsLater DEF HearsInv
  <2> QED
    BY <1>2, <2>1 DEF HearsInv
<1> QED
  BY <1>1, <1>2, <1>7, <1>10, <1>13, <1>14, <1>15 DEF Sharing, m, s, t, n

\* The master's transmission is over, or cut once its header could be read: its slot
\* opens where it ends.
LEMMA MasterEndsKeeps ==
  ASSUME TypeInv, Sharing(master, slave, now, toSlave, toMaster),
         MasterTxDone \/ MasterCutRead
  PROVE  Sharing(master', slave', now, toSlave', toMaster')
<1> DEFINE m == master
           s == slave
           t == now
           n == master'
           ended == [master EXCEPT !.tx.phase = "idle", !.slot.final = TRUE]
           frames == toSlave'
<1>1. /\ m \in Masters /\ MasterOK(m) /\ s \in Slaves /\ t \in Nat
      /\ MasterInv(m, t) /\ SlaveShape(s) /\ s.sticky \in m.possible
      /\ FrameShape(m, s, toSlave) /\ SharedInv(m, s, t, toSlave) /\ RepliesInv(m, s, toMaster)
      /\ m.tx.phase = "air"
  BY DEF TypeInv, TypeOK, Sharing, MasterTxDone, MasterCutRead
<1>2. /\ slave' = s /\ frames \subseteq toSlave /\ toMaster' = toMaster
      /\ n = OpenSlot(ended, t, m.tx.end)
  BY DEF MasterTxDone, MasterCutRead
<1>3. /\ MasterOK(ended) /\ ended.tx.phase = "idle" /\ ended.slot.final
      /\ ended.slot.on = m.slot.on /\ ended.possible = m.possible
      /\ ended.slot.stated = m.slot.stated /\ SameSlot(m, ended)
  BY <1>1 DEF MasterOK, Masters, Transmissions, Slots, SameSlot
<1>4. m.tx.end \in Nat
  BY <1>1, MasterFields
<1> HIDE DEF m, s, t, n, ended, frames
<1>5. /\ n \in Masters /\ n.tx = ended.tx /\ n.possible = ended.possible
      /\ SameSlot(ended, n)
      /\ n.slot.on = ended.slot.on /\ n.slot.final = ended.slot.final
      /\ n.slot.stated = ended.slot.stated
      /\ n.slot.txEnd = n.tx.end /\ n.slot.endMax = Latest(n)
      /\ n.proceed # NoTime /\ n.proceed >= SlotClose(n)
  <2>1. n = OpenSlot(ended, t, ended.tx.end)
    BY <1>2, <1>3 DEF SameSlot
  <2> QED
    BY <1>1, <1>3, <2>1, OpenSlotLatest
<1>6. /\ m.slot.on /\ SlotOfPlan(m) /\ m.slot.stated = NoTime /\ Live(m)
      /\ m.tx.end = m.tx.start + AirTime(m.tx.plan) /\ m.tx.start <= t
  BY <1>1 DEF MasterInv, Live
<1>7. SameSlot(m, n)
  BY <1>3, <1>5 DEF SameSlot
<1>9. SlotOfPlan(n)
  BY <1>3, <1>5, <1>6, <1>7 DEF SlotOfPlan, SameSlot
<1>10. /\ Live(n) /\ n.tx.phase = "idle" /\ n.slot.on /\ n.slot.final
       /\ n.slot.stated = NoTime /\ n.tx.end = m.tx.end /\ n.tx.start = m.tx.start
       /\ n.tx.plan = m.tx.plan /\ n.possible = m.possible /\ n.slot.txEnd = n.tx.end
  BY <1>3, <1>5, <1>6, <1>7 DEF Live, SameSlot
<1>11. MasterInv(n, t)
  BY <1>5, <1>6, <1>9, <1>10 DEF MasterInv
<1>12. FrameShape(n, s, frames)
  BY <1>1, <1>2, <1>10 DEF FrameShape
<1>13. SharedInv(n, s, t, frames)
  BY <1>1, <1>2, <1>6, <1>7, <1>10, SameBounds DEF SharedInv, Settled, Mode
<1>14. RepliesInv(n, s, toMaster)
  BY <1>1, <1>6, <1>10 DEF RepliesInv
<1>15. HearsInv(n, s, t)
  BY <1>10 DEF HearsInv
<1> QED
  BY <1>1, <1>2, <1>10, <1>11, <1>12, <1>13, <1>14, <1>15 DEF Sharing, m, s, t, n, frames

\* A transmission cut before its header could be read leaves nothing behind.
LEMMA MasterCutUnreadKeeps ==
  ASSUME TypeInv, Sharing(master, slave, now, toSlave, toMaster), MasterCutUnread
  PROVE  Sharing(master', slave', now, toSlave', toMaster')
<1> DEFINE m == master
           s == slave
           t == now
           n == master'
           frames == toSlave'
<1>1. /\ m \in Masters /\ s \in Slaves /\ t \in Nat /\ FramesOK(toSlave)
      /\ MasterInv(m, t) /\ SlaveShape(s) /\ s.sticky \in m.possible
      /\ FrameShape(m, s, toSlave) /\ SharedInv(m, s, t, toSlave) /\ RepliesInv(m, s, toMaster)
      /\ HearsInv(m, s, t)
      /\ m.tx.phase = "air" /\ m.tx.plan.opener
      /\ t < m.tx.start + Unreadable[m.tx.plan.floor]
      /\ slave' = s /\ toMaster' = toMaster
      /\ frames = {f \in toSlave : f.tStart < m.tx.start}
  BY DEF TypeInv, TypeOK, Sharing, MasterCutUnread
<1>2. /\ n.slot = NoSlot /\ n.possible = m.possible /\ n.tx.phase = "idle" /\ n.proceed = t
  BY <1>1 DEF MasterCutUnread, Masters, Transmissions
<1> HIDE DEF m, s, t, n, frames
<1>3. /\ Live(m) /\ m.tx.end = m.tx.start + AirTime(m.tx.plan) /\ m.tx.start <= t
      /\ m.tx.start \in Nat /\ m.tx.end \in Nat /\ m.tx.plan \in Plans
      /\ HeaderEnd(m) \in Nat
  BY <1>1, LiveFacts, MasterFields, BoundFacts DEF Live
<1>4. t < HeaderEnd(m) /\ t < m.tx.end
  <2> DEFINE fl == m.tx.plan.floor
             a == Air(m.tx.plan.count, m.tx.plan.dataFloor)
  <2>1. fl \in Families
    BY <1>3 DEF Plans
  <2>2. Unreadable[fl] \in Nat /\ Control[fl] \in Nat /\ Unreadable[fl] <= Control[fl]
    BY <2>1, FrameAssumption
  <2>3. HeaderEnd(m) = m.tx.start + Control[fl] /\ AirTime(m.tx.plan) = Control[fl] + a
        /\ a \in Nat
    BY <1>1, <1>3, AirTimeOf DEF HeaderEnd
  <2>4. t < m.tx.start + Unreadable[fl]
    BY <1>1
  <2> HIDE DEF fl, a
  <2> QED
    BY <1>1, <1>3, <2>2, <2>3, <2>4
<1>5. Spent(s, t, t)
  <2>1. ~(HeaderEnd(m) <= t)
    BY <1>1, <1>3, <1>4
  <2>2. Spent(s, t, m.tx.start)
    BY <1>1, <1>3, <2>1 DEF SharedInv, Mode, Owing, Given
  <2> QED
    BY <1>1, <1>3, <2>2, SpentLater
<1>6. \A f \in frames : Stale(s, f, t, t)
  <2> SUFFICES ASSUME NEW f \in frames
               PROVE  Stale(s, f, t, t)
    OBVIOUS
  <2>1. /\ f \in toSlave /\ f.tStart < m.tx.start
        /\ f \in ControlFrames \cup DataFrames /\ f.tStart <= f.tEnd
    BY <1>1 DEF FramesOK
  <2>2. f \notin FramesOf(m.tx.plan, m.tx.start)
    <3> SUFFICES ASSUME f \in FramesOf(m.tx.plan, m.tx.start)
                 PROVE  FALSE
      OBVIOUS
    <3>1. m.tx.start <= f.tStart
      BY <1>3, FramesOfFacts DEF FrameOf
    <3>2. f.tStart \in Nat
      BY <2>1 DEF ControlFrames, DataFrames
    <3> QED
      BY <1>3, <2>1, <3>1, <3>2
  <2>3. Stale(s, f, m.tx.start, t)
    BY <1>1, <1>3, <2>1, <2>2 DEF SharedInv, Settled
  <2> QED
    BY <1>1, <1>3, <2>1, <2>3, StaleLater
<1>7. ~n.slot.on /\ n.slot.stated = NoTime /\ ~Live(n)
  BY <1>2 DEF NoSlot, Live
<1>8. MasterInv(n, t)
  BY <1>2, <1>7 DEF MasterInv
<1>9. FrameShape(n, s, frames)
  BY <1>1, <1>2 DEF FrameShape
<1>10. SharedInv(n, s, t, frames)
  BY <1>5, <1>6, <1>7 DEF SharedInv, Settled, Mode
<1>11. RepliesInv(n, s, toMaster)
  BY <1>1, <1>7 DEF RepliesInv
<1>12. HearsInv(n, s, t)
  <2>1. Hears(s, m.tx.start)
    BY <1>1, <1>3, <1>4 DEF HearsInv
  <2>2. Hears(s, t)
    BY <1>1, <1>3, <2>1, HearsLater
  <2> QED
    BY <1>2, <2>2 DEF HearsInv
<1> QED
  BY <1>1, <1>2, <1>8, <1>9, <1>10, <1>11, <1>12 DEF Sharing, m, s, t, n, frames

LEMMA StateEndFacts ==
  ASSUME NEW m, MasterOK(m), NEW t \in Nat, NEW end \in Nat, NEW f \in Families,
         m.slot.stated = NoTime \/ end >= m.slot.stated
  PROVE  LET o == StateEnd(m, t, end, f)
         IN  /\ o \in Masters /\ o.tx = m.tx /\ o.possible = m.possible /\ SameSlot(m, o)
             /\ o.slot.on = m.slot.on /\ o.slot.final = m.slot.final
             /\ o.slot.txEnd = m.slot.txEnd /\ o.slot.endMax = m.slot.endMax
             /\ o.slot.stated = end
             /\ o.proceed # NoTime /\ o.proceed >= SlotClose(o)
<1> DEFINE latest == m.slot.stated = NoTime \/ end >= m.slot.stated
           n == [m EXCEPT !.slot.heard = TRUE,
                          !.slot.stated = IF latest THEN end ELSE @,
                          !.slot.statedFloor = IF latest THEN f ELSE @]
           o == StateEnd(m, t, end, f)
<1>1. m \in Masters /\ m.slot \in Slots
  BY MasterFields DEF MasterOK
<1>2. /\ n.tx = m.tx /\ n.possible = m.possible
      /\ n.slot.on = m.slot.on /\ n.slot.final = m.slot.final
      /\ n.slot.txEnd = m.slot.txEnd /\ n.slot.endMax = m.slot.endMax
      /\ n.slot.lastFloor = m.slot.lastFloor /\ n.slot.level = m.slot.level
      /\ n.slot.window = m.slot.window /\ n.slot.grant = m.slot.grant
      /\ n.slot.stated = end
  BY <1>1 DEF Masters, Slots
<1>3. MasterOK(n)
  BY <1>1 DEF MasterOK, Masters, Slots, MaybeTime
<1>4. o = ArmWait(n, t)
  BY DEF StateEnd
<1> HIDE DEF n, o
<1>5. /\ o.tx = n.tx /\ o.slot = n.slot /\ o.possible = n.possible /\ o \in Masters
      /\ o.proceed # NoTime /\ o.proceed >= SlotClose(o)
  BY <1>3, <1>4, ArmWaitFacts
<1> QED
  BY <1>2, <1>5 DEF SameSlot, o

\* A frame of the slot is of the answer to the latest transmission.
LEMMA ReplyFacts ==
  ASSUME NEW m \in Masters, NEW s \in Slaves, NEW t \in Nat, NEW toS, NEW toM,
         FramesOK(toS), FramesOK(toM), Sharing(m, s, t, toS, toM),
         NEW f \in toM, InSlot(m, f)
  PROVE  /\ Live(m) /\ m.tx.phase = "idle" /\ m.slot.on /\ Given(m, s, t)
         /\ s.tx.phase # "wait" /\ s.tx.end >= m.tx.end
         /\ s.tx.plan.floor = s.sticky
         /\ FrameOf(s.tx.plan, s.tx.start, f)
         /\ s.tx.end = s.tx.start + AirTime(s.tx.plan)
         /\ m.slot.stated \in {NoTime, s.tx.end}
         /\ \A g \in toS : g.kind # "control"
<1>1. /\ MasterInv(m, t) /\ Mode(m, s, t) /\ SlaveShape(s) /\ RepliesInv(m, s, toM)
      /\ FrameShape(m, s, toS) /\ \A g \in toS : Settled(m, s, t, g)
      /\ Live(m) /\ m.slot.stated # NoTime => s.tx.end = m.slot.stated
  BY DEF Sharing, SharedInv
<1>2. Live(m) /\ m.tx.phase = "idle" /\ m.slot.on /\ m.slot.txEnd = m.tx.end
  BY <1>1, MasterFields DEF MasterInv, InSlot, Live
<1>3. f.tStart >= m.tx.end
  BY <1>2 DEF InSlot
<1>4. /\ s.answered = m.tx.end /\ s.tx.phase # "wait" /\ f.tStart < f.tEnd
      /\ f.tEnd <= s.tx.end
      /\ s.tx.plan.opener /\ s.tx.plan.floor = s.sticky
      /\ f \in FramesOf(s.tx.plan, s.tx.start)
      /\ s.tx.end = s.tx.start + AirTime(s.tx.plan)
  BY <1>1, <1>2, <1>3 DEF RepliesInv
<1>5. Given(m, s, t)
  BY <1>1, <1>2, <1>4, AnsweredIsGiven
<1>6. FrameOf(s.tx.plan, s.tx.start, f)
  BY <1>4, SlaveFields, FramesOfFacts
<1>7. s.tx.end >= m.tx.end
  <2>1. f.tStart \in Nat /\ f.tEnd \in Nat
    BY DEF FramesOK, ControlFrames, DataFrames
  <2> QED
    BY <1>3, <1>4, <2>1, MasterFields, SlaveFields
<1>8. ASSUME NEW g \in toS, g.kind = "control"
      PROVE  FALSE
  <2>1. /\ m.tx.start < m.tx.end /\ m.tx.start \in Nat /\ m.tx.end \in Nat
    BY <1>1, <1>2, LiveFacts, MasterFields
  <2>2. g.tStart \in Nat /\ g.tEnd \in Nat /\ EndOf(g) \in Nat
    BY <1>1, <1>8, EndOfNat DEF FramesOK, ControlFrames, DataFrames
  <2>3. s.mEnd = m.tx.end /\ s.mEnd # NoTime
    BY <1>5, <2>1 DEF Given, NoTime
  <2>4. s.mEnd <= g.tStart /\ g.tStart < g.tEnd /\ g.tEnd <= EndOf(g)
    BY <1>1, <1>8, <2>3 DEF FrameShape
  <2>5. EndOf(g) <= m.tx.end
    <3>1. CASE g \in FramesOf(m.tx.plan, m.tx.start)
      BY <1>1, <1>2, <3>1, FrameCloses
    <3>2. CASE Stale(s, g, m.tx.start, t)
      BY <2>1, <2>2, <3>2 DEF Stale
    <3> QED
      BY <1>1, <1>2, <1>8, <3>1, <3>2 DEF Settled
  <2> QED
    BY <2>1, <2>2, <2>3, <2>4, <2>5
<1> QED
  BY <1>1, <1>2, <1>4, <1>5, <1>6, <1>7, <1>8

\* What the master makes of it: where the answer ends, and maybe its family.
LEMMA ReplyKeeps ==
  ASSUME NEW m \in Masters, NEW s \in Slaves, NEW t \in Nat, NEW toS, NEW toM,
         FramesOK(toS), FramesOK(toM), Sharing(m, s, t, toS, toM),
         NEW f \in toM, InSlot(m, f), NEW frames \in SUBSET toM,
         NEW n \in Masters, n.tx = m.tx, SameSlot(m, n),
         n.slot.on = m.slot.on, n.slot.final = m.slot.final,
         n.slot.txEnd = m.slot.txEnd, n.slot.endMax = m.slot.endMax,
         \/ n.slot.stated = s.tx.end /\ s.sticky \in n.possible
         \/ n.slot.stated = m.slot.stated /\ n.possible = m.possible,
         n.proceed # NoTime, n.proceed >= SlotClose(n)
  PROVE  Sharing(n, s, t, toS, frames)
<1>1. /\ Live(m) /\ m.tx.phase = "idle" /\ m.slot.on /\ Given(m, s, t)
      /\ s.tx.phase # "wait" /\ s.tx.end >= m.tx.end
      /\ m.slot.stated \in {NoTime, s.tx.end}
      /\ \A g \in toS : g.kind # "control"
  BY ReplyFacts
<1>2. /\ MasterInv(m, t) /\ SlaveShape(s) /\ s.sticky \in m.possible
      /\ FrameShape(m, s, toS) /\ SharedInv(m, s, t, toS) /\ RepliesInv(m, s, toM)
  BY DEF Sharing
<1>3. /\ Begins(n) = Begins(m) /\ Latest(n) = Latest(m) /\ Bound(n) = Bound(m)
      /\ Given(n, s, t)
  BY <1>1, SameBounds
<1>4. n.slot.stated # NoTime => n.slot.stated = s.tx.end
  BY <1>1
<1>5. SlotOfPlan(n)
  <2>1. SlotOfPlan(m) /\ n.tx.plan = m.tx.plan
    BY <1>1, <1>2 DEF MasterInv
  <2>2. n.slot.stated # NoTime \/ (n.slot.stated = m.slot.stated /\ n.possible = m.possible)
    BY SlaveFields DEF NoTime
  <2> QED
    BY <2>1, <2>2 DEF SlotOfPlan, SameSlot
<1>6. Live(n) /\ n.tx.phase = "idle" /\ n.slot.on
  BY <1>1 DEF Live
<1>7. MasterInv(n, t)
  BY <1>1, <1>2, <1>3, <1>4, <1>5, <1>6 DEF MasterInv
<1>8. s.sticky \in n.possible
  BY <1>2
<1>9. FrameShape(n, s, toS)
  BY <1>1, <1>2 DEF FrameShape
<1>10. SharedInv(n, s, t, toS)
  BY <1>1, <1>2, <1>3, <1>4, <1>6 DEF SharedInv, Settled, Mode
<1>11. RepliesInv(n, s, frames)
  BY <1>1, <1>2 DEF RepliesInv
<1>12. HearsInv(n, s, t)
  BY <1>6 DEF HearsInv
<1> QED
  BY <1>2, <1>7, <1>8, <1>9, <1>10, <1>11, <1>12 DEF Sharing

LEMMA MasterReadsKeeps ==
  ASSUME TypeInv, Sharing(master, slave, now, toSlave, toMaster), MasterReads
  PROVE  Sharing(master', slave', now, toSlave', toMaster')
<1> DEFINE m == master
           s == slave
           t == now
           n == master'
<1>1. /\ m \in Masters /\ MasterOK(m) /\ s \in Slaves /\ t \in Nat
      /\ FramesOK(toSlave) /\ FramesOK(toMaster)
      /\ Sharing(m, s, t, toSlave, toMaster)
  BY DEF TypeInv, TypeOK
<1>2. PICK f \in toMaster :
        /\ MasterReadsAnswer(f) \/ MasterReadsData(f)
        /\ toMaster' = Unread(toMaster, f)
  BY DEF MasterReads
<1>3. slave' = s /\ toSlave' = toSlave /\ Unread(toMaster, f) \in SUBSET toMaster
  BY DEF MasterReads, Unread
<1>4. f \in ControlFrames \cup DataFrames
  BY <1>1 DEF FramesOK
<1> SUFFICES Sharing(n, s, t, toSlave, Unread(toMaster, f))
  BY <1>2, <1>3
<1> HIDE DEF m, s, t, n
<1>5. CASE n = m
  <2>1. RepliesInv(m, s, Unread(toMaster, f))
    BY <1>1, <1>3 DEF Sharing, RepliesInv
  <2> QED
    BY <1>1, <1>5, <2>1 DEF Sharing
<1>6. ASSUME MasterReadsAnswer(f), InSlot(m, f)
      PROVE  Sharing(n, s, t, toSlave, Unread(toMaster, f))
  <2> DEFINE peerLate == Lateness(m, f.tStart - m.slot.start - Slack)
             last == IF f.count > 0 THEN f.dataFloor ELSE f.floor
             q == [m EXCEPT !.peerLate = peerLate, !.possible = {f.floor}]
             end == f.tEnd + Air(f.count, f.dataFloor)
  <2>1. f.kind = "control" /\ f \in ControlFrames /\ n = TakeAnswer(m, t, f)
    BY <1>4, <1>6 DEF MasterReadsAnswer, DataFrames, m, n, t
  <2>2. n = StateEnd(q, t, end, last)
    BY <2>1 DEF TakeAnswer
  <2>3. f.tStart \in Nat /\ f.tEnd \in Nat /\ f.floor \in Families
        /\ f.dataFloor \in Families /\ f.count \in Nat /\ end \in Nat /\ last \in Families
    BY <2>1, AirNat, ConstantTypes DEF ControlFrames
  <2>4. peerLate \in Nat
    <3>1. m.peerLate \in Nat /\ m.slot.start \in Nat /\ Slack \in Nat
      BY <1>1, MasterFields, ConstantTypes
    <3> QED
      BY <2>3, <3>1 DEF Lateness, Max2
  <2>5. /\ MasterOK(q) /\ q.tx = m.tx /\ q.slot = m.slot /\ q.possible = {f.floor}
    <3> HIDE DEF peerLate
    <3> QED
      BY <1>1, <2>3, <2>4 DEF MasterOK, Masters
  <2>6. end = EndOf(f)
    BY <2>1 DEF EndOf
  <2> HIDE DEF peerLate, q, end, last
  <2>7. /\ FrameOf(s.tx.plan, s.tx.start, f) /\ s.tx.plan.floor = s.sticky
        /\ s.tx.end = s.tx.start + AirTime(s.tx.plan)
        /\ m.slot.stated \in {NoTime, s.tx.end}
    BY <1>1, <1>6, ReplyFacts
  <2>8. end = s.tx.end /\ f.floor = s.sticky
    BY <2>1, <2>6, <2>7 DEF FrameOf
  <2>9. q.slot.stated = NoTime \/ end >= q.slot.stated
    BY <2>3, <2>5, <2>7, <2>8
  <2>10. /\ n \in Masters /\ n.tx = q.tx /\ n.possible = q.possible /\ SameSlot(q, n)
         /\ n.slot.on = q.slot.on /\ n.slot.final = q.slot.final
         /\ n.slot.txEnd = q.slot.txEnd /\ n.slot.endMax = q.slot.endMax
         /\ n.slot.stated = end
         /\ n.proceed # NoTime /\ n.proceed >= SlotClose(n)
    BY <1>1, <2>2, <2>3, <2>5, <2>9, StateEndFacts, SMTT(30)
  <2>11. SameSlot(m, n)
    BY <2>5, <2>10 DEF SameSlot
  <2>12. s.sticky \in n.possible
    BY <2>5, <2>8, <2>10
  <2> QED
    BY <1>1, <1>3, <1>6, <2>5, <2>8, <2>10, <2>11, <2>12, ReplyKeeps
<1>7. ASSUME MasterReadsData(f), InSlot(m, f)
      PROVE  Sharing(n, s, t, toSlave, Unread(toMaster, f))
  <2>1. f.kind = "data" /\ f \in DataFrames
    BY <1>4, <1>7 DEF MasterReadsData, ControlFrames
  <2>2. PICK outcome \in {"alone", "rescued"} :
          \E read \in ReadCounts(f, outcome) : n = TakeData(m, t, f, outcome, read)
    BY <1>7 DEF MasterReadsData, m, n, t
  <2>3. PICK read \in ReadCounts(f, outcome) : n = TakeData(m, t, f, outcome, read)
    BY <2>2
  <2>4. /\ FrameOf(s.tx.plan, s.tx.start, f)
        /\ s.tx.end = s.tx.start + AirTime(s.tx.plan)
        /\ m.slot.stated \in {NoTime, s.tx.end} /\ Live(m) /\ m.tx.phase = "idle"
        /\ m.slot.on
    BY <1>1, <1>7, ReplyFacts
  <2>5. s.sticky \in m.possible /\ m.proceed # NoTime /\ m.proceed >= SlotClose(m)
    BY <1>1, <2>4 DEF Sharing, MasterInv
  <2>6. CASE Believed(outcome, read)
    <3> DEFINE end == f.tEnd + read * (f.tEnd - f.tStart)
    <3>1. n = StateEnd(m, t, end, f.floor)
      BY <2>3, <2>6 DEF TakeData
    <3>2. read = f.follows /\ f.follows < MaxFollows
      BY <2>6 DEF Believed, ReadCounts
    <3>3. end = EndOf(f)
      BY <2>1, <3>2 DEF EndOf
    <3> HIDE DEF end
    <3>4. end = s.tx.end /\ end \in Nat /\ f.floor \in Families
      BY <1>1, <2>1, <2>4, <3>2, <3>3, SlaveFields DEF FrameOf, DataFrames
    <3>5. m.slot.stated = NoTime \/ end >= m.slot.stated
      BY <2>4, <3>4
    <3>6. /\ n \in Masters /\ n.tx = m.tx /\ n.possible = m.possible /\ SameSlot(m, n)
          /\ n.slot.on = m.slot.on /\ n.slot.final = m.slot.final
          /\ n.slot.txEnd = m.slot.txEnd /\ n.slot.endMax = m.slot.endMax
          /\ n.slot.stated = end
          /\ n.proceed # NoTime /\ n.proceed >= SlotClose(n)
      BY <1>1, <3>1, <3>4, <3>5, StateEndFacts
    <3> QED
      BY <1>1, <1>3, <1>7, <2>5, <3>4, <3>6, ReplyKeeps
  <2>7. CASE ~Believed(outcome, read)
    <3>1. n = [m EXCEPT !.slot.heard = TRUE]
      BY <2>3, <2>7 DEF TakeData
    <3>2. /\ n \in Masters /\ n.tx = m.tx /\ n.possible = m.possible
          /\ n.slot.on = m.slot.on /\ n.slot.final = m.slot.final
          /\ n.slot.txEnd = m.slot.txEnd /\ n.slot.endMax = m.slot.endMax
          /\ n.slot.stated = m.slot.stated /\ n.slot.statedFloor = m.slot.statedFloor
          /\ n.slot.answerFloors = m.slot.answerFloors
          /\ n.peerLate = m.peerLate /\ n.proceed = m.proceed
          /\ n.slot.lastFloor = m.slot.lastFloor /\ n.slot.level = m.slot.level
          /\ n.slot.window = m.slot.window /\ n.slot.grant = m.slot.grant
      BY <1>1, <3>1 DEF Masters, Slots
    <3>3. SlotClose(n) = SlotClose(m) /\ SameSlot(m, n)
      BY <3>2 DEF SlotClose, SameSlot
    <3> QED
      BY <1>1, <1>3, <1>7, <2>5, <3>2, <3>3, ReplyKeeps
  <2> QED
    BY <2>6, <2>7
<1>8. n = m \/ InSlot(m, f)
  BY <1>2 DEF MasterReadsAnswer, MasterReadsData, m, n, t
<1> QED
  BY <1>2, <1>5, <1>6, <1>7, <1>8

-----------------------------------------------------------------------------
\* The invariant, and what it says.

LEMMA SharingInit == Init => Sharing(master, slave, now, toSlave, toMaster)
<1> SUFFICES ASSUME NEW f \in Families,
                    now = 0,
                    master = [slot |-> NoSlot, proceed |-> 0, tx |-> NoTx,
                              possible |-> {f}, peerLate |-> 0, silent |-> 0,
                              up |-> TRUE],
                    slave = [mEnd |-> NoTime, mLast |-> f, grant |-> NoGrant,
                             sticky |-> f, answered |-> NoTime,
                             answer |-> NoAnswer, window |-> NoWindow,
                             grid |-> NoGrid, rx |-> {}, tx |-> NoTx],
                    toSlave = {}, toMaster = {}
             PROVE  Sharing(master, slave, now, toSlave, toMaster)
  BY DEF Init
<1>1. /\ master.slot = NoSlot /\ master.tx = NoTx /\ master.possible = {f}
      /\ slave.mEnd = NoTime /\ slave.grant = NoGrant /\ slave.sticky = f
      /\ slave.answered = NoTime /\ slave.answer = NoAnswer /\ slave.window = NoWindow
      /\ slave.tx = NoTx
  OBVIOUS
<1>2. /\ ~NoSlot.on /\ NoSlot.stated = NoTime /\ NoTx.phase = "idle" /\ NoTx.end = 0
      /\ ~NoGrant.on /\ NoAnswer.what = "none" /\ ~NoWindow.on
  BY DEF NoSlot, NoTx, NoGrant, NoAnswer, NoWindow
<1>3. ~Live(master)
  BY <1>1, <1>2 DEF Live
<1>4. MasterInv(master, now)
  BY <1>1, <1>2, <1>3 DEF MasterInv
<1>5. SlaveShape(slave) /\ FrameShape(master, slave, toSlave)
  BY <1>1, <1>2 DEF SlaveShape, FrameShape
<1>6. SharedInv(master, slave, now, toSlave)
  BY <1>1, <1>2, <1>3 DEF SharedInv, Mode, Spent, NoneLeft, NoTime
<1>7. RepliesInv(master, slave, toMaster) /\ HearsInv(master, slave, now)
  BY <1>1, <1>2 DEF RepliesInv, HearsInv, Hears
<1> QED
  BY <1>1, <1>4, <1>5, <1>6, <1>7 DEF Sharing

Inv == TypeInv /\ Sharing(master, slave, now, toSlave, toMaster)

LEMMA InvNext == Inv /\ [Next]_vars => Inv'
<1> SUFFICES ASSUME Inv, [Next]_vars
             PROVE  Inv'
  OBVIOUS
<1>1. TypeInv'
  BY TypeInvNext DEF Inv
<1>2. TypeInv /\ Sharing(master, slave, now, toSlave, toMaster)
  BY DEF Inv
<1>3. SUFFICES Sharing(master', slave', now', toSlave', toMaster')
  BY <1>1 DEF Inv
<1>4. CASE Tick
  BY <1>2, <1>4, TickKeeps DEF Tick
<1>5. CASE Proceed
  BY <1>2, <1>5, ProceedKeeps DEF Proceed
<1>6. CASE MasterRadiates
  BY <1>2, <1>6, MasterRadiatesKeeps DEF MasterRadiates
<1>7. CASE MasterTxDone
  BY <1>2, <1>7, MasterEndsKeeps DEF MasterTxDone
<1>8. CASE MasterCutUnread
  BY <1>2, <1>8, MasterCutUnreadKeeps DEF MasterCutUnread
<1>9. CASE MasterCutRead
  BY <1>2, <1>9, MasterEndsKeeps DEF MasterCutRead
<1>10. CASE MasterReads
  BY <1>2, <1>10, MasterReadsKeeps DEF MasterReads
<1>11. CASE SlaveReads
  BY <1>2, <1>11, SlaveReadsKeeps DEF SlaveReads
<1>12. CASE SlaveAnswerTimer
  BY <1>2, <1>12, SlaveKeysKeeps DEF SlaveAnswerTimer
<1>13. CASE SlaveSend
  BY <1>2, <1>13, SlaveKeysKeeps DEF SlaveSend
<1>14. CASE SlaveRadiates
  BY <1>2, <1>14, SlaveRadiatesKeeps DEF SlaveRadiates
<1>15. CASE SlaveDropped
  BY <1>2, <1>15, SlaveSettlesKeeps DEF SlaveDropped
<1>16. CASE SlaveTxDone
  BY <1>2, <1>16, SlaveSettlesKeeps DEF SlaveTxDone
<1>17. CASE UNCHANGED vars
  BY <1>2, <1>17 DEF vars
<1> QED
  BY <1>4, <1>5, <1>6, <1>7, <1>8, <1>9, <1>10, <1>11, <1>12, <1>13, <1>14, <1>15,
     <1>16, <1>17 DEF Next
LEMMA InvHolds == Spec => [](Inv /\ DueInv)
<1>1. Init => Inv /\ DueInv
  BY TypeInvInit, SharingInit, DueInvInit DEF Inv
<1>2. Inv /\ DueInv /\ [Next]_vars => (Inv /\ DueInv)'
  BY InvNext, DueInvNext DEF Inv
<1> QED
  BY <1>1, <1>2, PTL DEF Spec

\* What the slave radiates is what it has given of the latest transmission.
LEMMA OnAirIsGiven ==
  ASSUME Inv, SlaveOnAir
  PROVE  /\ Live(master) /\ Given(master, slave, now)
         /\ Begins(master) <= slave.tx.start /\ slave.tx.start <= now
         /\ slave.tx.end <= Bound(master)
<1>1. /\ master \in Masters /\ slave \in Slaves /\ now \in Nat
      /\ MasterInv(master, now) /\ Mode(master, slave, now)
  BY DEF Inv, TypeInv, TypeOK, Sharing, SharedInv
<1>2. slave.tx.end \in Nat /\ master.tx.start \in Nat /\ now < slave.tx.end
  BY <1>1, SlaveFields, MasterFields DEF SlaveOnAir
<1>3. Live(master) => master.tx.start <= now
  BY <1>1, LiveFacts
<1>4. Live(master) /\ Given(master, slave, now)
  BY <1>1, <1>2, <1>3 DEF Mode, Spent, Owing
<1> QED
  BY <1>1, <1>2, <1>4 DEF Given

LEMMA InvSharesTheAir == Inv => NoOverlap
<1> SUFFICES ASSUME Inv, MasterOnAir, SlaveOnAir
             PROVE  FALSE
  BY DEF NoOverlap
<1>1. master \in Masters /\ slave \in Slaves /\ now \in Nat
  BY DEF Inv, TypeInv, TypeOK
<1>2. now < master.tx.end /\ master.tx.end \in Nat /\ slave.tx.start \in Nat
  BY <1>1, MasterFields, SlaveFields DEF MasterOnAir
<1>3. master.tx.end + MasterTurnaround <= Begins(master) /\ Begins(master) \in Int
  BY <1>1, BoundFacts
<1>4. Begins(master) <= slave.tx.start /\ slave.tx.start <= now
  BY OnAirIsGiven
<1> QED
  BY <1>1, <1>2, <1>3, <1>4, ConstantTypes

LEMMA InvStaysInSlot == Inv /\ DueInv => SlaveInSlot
<1> SUFFICES ASSUME Inv, DueInv, SlaveOnAir
             PROVE  /\ master.slot.on /\ master.slot.final
                    /\ slave.tx.start >= master.slot.txEnd + MasterTurnaround
                    /\ slave.tx.end <= master.slot.endMax + Rounding
  BY DEF SlaveInSlot
<1>1. /\ master \in Masters /\ slave \in Slaves /\ now \in Nat /\ MasterInv(master, now)
  BY DEF Inv, TypeInv, TypeOK, Sharing
<1>2. /\ Live(master) /\ Begins(master) <= slave.tx.start /\ slave.tx.start <= now
      /\ slave.tx.end <= Bound(master)
  BY OnAirIsGiven
<1>3. /\ master.tx.end + MasterTurnaround <= Begins(master)
      /\ Begins(master) \in Int /\ Bound(master) = Latest(master) + Rounding
  BY <1>1, BoundFacts
<1>4. slave.tx.start \in Nat /\ master.tx.end \in Nat /\ master.slot.lastFloor \in Families
  BY <1>1, SlaveFields, MasterFields
<1>5. master.tx.phase # "air"
  <2>1. SUFFICES ASSUME master.tx.phase = "air"
                 PROVE  FALSE
    OBVIOUS
  <2>2. now <= master.tx.end + ReportDelay
    BY <2>1 DEF DueInv, Driven
  <2> DEFINE f == master.slot.lastFloor
  <2>3. master.tx.end + Budget[f] + Key + Guard <= Begins(master) /\ Budget[f] \in Nat
    <3>1. f \in Families /\ master.tx.end \in Int /\ 0 \in Levels
      BY <1>4, ConstantTypes
    <3>2. Begins(master) = SlotStart(master.tx.end, f, 0, MasterDeclared)
      BY DEF Begins
    <3> HIDE DEF f
    <3> QED
      BY <3>1, <3>2, SlotStartFacts
  <2>4. KeyDelay + ReportDelay < Budget[f] + Key + Guard
    BY <1>4, DriverAssumption
  <2>5. KeyDelay \in Nat /\ ReportDelay \in Nat /\ Key \in Nat /\ Guard \in Nat
    BY ClockAssumption
  <2> HIDE DEF f
  <2> QED
    BY <1>1, <1>2, <1>3, <1>4, <2>2, <2>3, <2>4, <2>5
<1>6. master.tx.phase = "idle" /\ master.slot.on
  BY <1>2, <1>5 DEF Live
<1>7. /\ master.slot.final /\ master.slot.txEnd = master.tx.end
      /\ master.slot.endMax = Latest(master)
  BY <1>1, <1>6 DEF MasterInv
<1> QED
  BY <1>2, <1>3, <1>4, <1>6, <1>7, ConstantTypes

LEMMA InvStatesTheEnd == Inv => StatedIsTheEnd
<1> SUFFICES ASSUME Inv, master.slot.stated # NoTime
             PROVE  /\ SlaveOnAir => slave.tx.end <= master.slot.stated
                    /\ slave.tx.phase # "wait"
  BY DEF StatedIsTheEnd
<1>1. /\ slave \in Slaves /\ MasterInv(master, now)
      /\ SharedInv(master, slave, now, toSlave)
  BY DEF Inv, TypeInv, TypeOK, Sharing
<1>2. Live(master)
  BY <1>1 DEF MasterInv, Live
<1>3. slave.tx.end = master.slot.stated /\ slave.tx.phase # "wait" /\ slave.tx.end \in Nat
  BY <1>1, <1>2, SlaveFields DEF SharedInv
<1> QED
  BY <1>3

\* The two stations never radiate at the same time: a slave that radiates answers
\* the master's latest transmission, and past its end by the master's turnaround.
THEOREM NoOverlapHolds == Spec => []NoOverlap
BY InvHolds, InvSharesTheAir, PTL

\* What the slave radiates lies in the slot of the master's latest transmission,
\* whatever the levels, families, sizes, rounding and the frames lost or read late.
THEOREM SlaveInSlotHolds == Spec => []SlaveInSlot
BY InvHolds, InvStaysInSlot, PTL

\* The end the master takes from one frame of the slave's is the end of all the
\* slave radiates in that slot, and nothing of it is still waiting to be keyed.
THEOREM StatedIsTheEndHolds == Spec => []StatedIsTheEnd
BY InvHolds, InvStatesTheEnd, PTL

\* The slave holds no family for its answers that the master's slots leave no room
\* for, whichever headers it missed.
THEOREM FamilyIsPossibleHolds == Spec => []FamilyIsPossible
<1>1. Inv => FamilyIsPossible
  BY DEF Inv, Sharing, FamilyIsPossible
<1> QED
  BY <1>1, InvHolds, PTL

-----------------------------------------------------------------------------
\* What no step does.

\* An answer still to be keyed, or on the air, is given: nothing the slave does
\* before it is over hands another over.
LEMMA UnsettledIsGiven ==
  ASSUME Inv, GateSettled, slave.tx.phase # "idle"
  PROVE  Live(master) /\ Given(master, slave, now)
<1>1. /\ master \in Masters /\ slave \in Slaves /\ now \in Nat /\ Mode(master, slave, now)
  BY DEF Inv, TypeInv, TypeOK, Sharing, SharedInv
<1>2. slave.tx.phase \in {"wait", "air"} /\ slave.tx.notAfter \in Int
  BY <1>1, SlaveFields
<1>3. CASE slave.tx.phase = "wait"
  <2>1. ~NoneLeft(slave, now)
    BY <1>1, <1>2, <1>3 DEF GateSettled, NoneLeft
  <2> QED
    BY <1>1, <2>1 DEF Mode, Spent, Owing
<1>4. CASE slave.tx.phase = "air"
  BY <1>4, OnAirIsGiven DEF GateSettled, SlaveOnAir
<1> QED
  BY <1>2, <1>3, <1>4

LEMMA ReadsLeaveTx ==
  ASSUME Inv, SlaveReads, slave.tx.phase # "idle"
  PROVE  slave'.tx = slave.tx
<1>1. Live(master) /\ Given(master, slave, now)
  BY UnsettledIsGiven DEF SlaveReads
<1>2. Moved(master, slave, slave', now)
  BY ReadsMove DEF Inv
<1> QED
  BY <1>1, <1>2 DEF Moved

LEMMA KeysLeaveTx ==
  ASSUME Inv, SlaveAnswerTimer \/ SlaveSend, slave.tx.phase # "idle"
  PROVE  slave'.tx = slave.tx
<1>1. Live(master) /\ Given(master, slave, now)
  BY UnsettledIsGiven DEF SlaveAnswerTimer, SlaveSend
<1>2. Moved(master, slave, slave', now)
  BY TimersMove DEF Inv
<1> QED
  BY <1>1, <1>2 DEF Moved

\* What the slave has keyed, or may still key, is never keyed over: one answer to a
\* transmission, whatever it reads, whichever timer fires.
THEOREM NeverKeysTwiceHolds == Spec => NeverKeysTwice
<1> DEFINE Kept == slave.tx.phase # "idle" =>
                     slave'.tx.plan = slave.tx.plan \/ slave'.tx.phase = "idle"
<1>1. Inv /\ [Next]_vars => [Kept]_vars
  <2> SUFFICES ASSUME Inv, Next, slave.tx.phase # "idle"
               PROVE  slave'.tx.plan = slave.tx.plan \/ slave'.tx.phase = "idle"
    OBVIOUS
  <2>1. slave \in Slaves
    BY DEF Inv, TypeInv, TypeOK
  <2>2. slave' = slave \/ SlaveReads \/ SlaveAnswerTimer \/ SlaveSend
          \/ SlaveRadiates \/ SlaveDropped \/ SlaveTxDone
    BY DEF Next, Tick, Proceed, MasterRadiates, MasterTxDone, MasterCutUnread,
           MasterCutRead, MasterReads
  <2>3. CASE SlaveReads
    BY <2>3, ReadsLeaveTx
  <2>4. CASE SlaveAnswerTimer \/ SlaveSend
    BY <2>4, KeysLeaveTx
  <2>5. CASE SlaveRadiates
    BY <2>1, <2>5 DEF SlaveRadiates, Slaves, Transmissions
  <2>6. CASE SlaveDropped
    BY <2>1, <2>6 DEF SlaveDropped, NoTx, Slaves, Transmissions
  <2>7. CASE SlaveTxDone
    BY <2>1, <2>7 DEF SlaveTxDone, Slaves, Transmissions
  <2> QED
    BY <2>2, <2>3, <2>4, <2>5, <2>6, <2>7
<1> QED
  BY <1>1, InvHolds, PTL DEF Spec, NeverKeysTwice

\* The master radiates only once the slave's radio hears again, as the slave declared
\* it: the slot it waits out covers the slave's turnaround.
THEOREM SlaveHearsNextHolds == Spec => SlaveHearsNext
<1> DEFINE Heard == MasterRadiates /\ slave.tx.end > 0 =>
                      now + Rounding >= slave.tx.end + SlaveDeclared
<1>1. Inv /\ [Next]_vars => [Heard]_vars
  <2> SUFFICES ASSUME Inv, MasterRadiates, slave.tx.end > 0
               PROVE  now + Rounding >= slave.tx.end + SlaveDeclared
    OBVIOUS
  <2>1. /\ master \in Masters /\ slave \in Slaves /\ now \in Nat
        /\ HearsInv(master, slave, now)
    BY DEF Inv, TypeInv, TypeOK, Sharing
  <2>2. Hears(slave, master.tx.ready) /\ master.tx.ready \in Nat /\ master.tx.ready <= now
    BY <2>1, MasterFields DEF HearsInv, MasterRadiates
  <2>3. Hears(slave, now)
    BY <2>1, <2>2, HearsLater
  <2>4. slave.tx.end \in Nat /\ SlaveDeclared \in Nat /\ Rounding \in Int
    BY <2>1, SlaveFields, ConstantTypes DEF Rounding
  <2> QED
    BY <2>1, <2>3, <2>4 DEF Hears
<1> QED
  BY <1>1, InvHolds, PTL DEF Spec, SlaveHearsNext
=============================================================================
