----------------------------- MODULE SessionProofs -----------------------------
(***************************************************************************)
(* Proofs about Session, for every value of its constants.                 *)
(***************************************************************************)
EXTENDS Session, InductionFacts, FiniteSetTheorems, SequenceTheorems

-----------------------------------------------------------------------------
(* What an engine is made of. N has the numbers of the sessions that the   *)
(* station may be in (own), of those that it has called with (call) and    *)
(* whose call has been on the air (sent), of those that it has accepted    *)
(* (accept) and of those that the other station has (agreed).              *)

Numbering(N) ==
  /\ N.own \subseteq Nat \ {0} /\ N.call \subseteq N.own /\ N.accept \subseteq N.own
  /\ N.sent \subseteq N.call

Deadline == [timer : Timers, due : Nat]

\* The timer is among those armed.
Has(q, t) == \E i \in DOMAIN q : q[i].timer = t

Deadlines ==
  {q \in Seq(Deadline) : \A i, j \in DOMAIN q : q[i].timer = q[j].timer => i = j}

SlotKinds == {"connect", "header", "disc", "leave"}
Times == Nat \cup {NoTime}
Granted == [kind : SlotKinds, final : BOOLEAN, txEnd : Nat, endMax : Nat, room : Nat,
            stated : Times]
Slots == Granted \cup {NoSlot}

Lefts == [session : Nat, until : Nat, discHeard : BOOLEAN, wasSlave : BOOLEAN]

Idents(s) == {0, Ident[s]}

Messages(s, N) ==
  {m \in [kind : Kinds, session : Nat, to : Stations \cup {Other}, flag : BOOLEAN,
          ident : Idents(s)] :
     /\ m.kind = "call" => m.session \in N.call
     /\ m.kind = "accept" => m.session \in N.accept}

Transmissions(s, N) ==
  [msg : Messages(s, N), ident : Idents(s), from : Nat, until : Times,
   listen : BOOLEAN, grants : BOOLEAN, start : Times]

Frames(s, N) == [msg : Messages(s, N), start : Nat, end : Nat]

\* Calls go out in the order of their numbers.
IsCall(x) == x.msg.kind = "call"

InTurn(q) ==
  \A i, j \in DOMAIN q :
    i < j /\ IsCall(q[i]) /\ IsCall(q[j]) => q[i].msg.session <= q[j].msg.session

AfterSent(N, q) ==
  \A i \in DOMAIN q : IsCall(q[i]) => \A m \in N.sent : m <= q[i].msg.session

Queues(s, N) == {q \in Seq(Transmissions(s, N)) : InTurn(q) /\ AfterSent(N, q)}

\* A message under the latest number of all that the station has called with.
Latest(N, msg) == msg.kind = "call" => \A m \in N.call \cup N.sent : m <= msg.session

States == {"idle", "connecting", "connected", "disconnecting"}
Roles == {"none", "master", "slave"}

Engines(s, N) ==
  [state : States, role : Roles, session : {0} \cup N.own,
   remote : Stations \cup {Other},
   tries : 0 .. ConnectRetries, jitter : Nat, deadlines : Deadlines, slot : Slots,
   hold : Nat, silent : Nat, heardAt : Nat, asked : BOOLEAN, since : Times,
   discTries : 0 .. DiscRetries, peerLeft : BOOLEAN, slaveLeaves : BOOLEAN,
   reached : BOOLEAN, peerIdent : Idents(Peer(s)), left : Lefts,
   repeats : 0 .. LeaveRepeats, owed : Idents(s), alone : BOOLEAN, listen : BOOLEAN,
   out : Queues(s, N)]

-----------------------------------------------------------------------------
(* Timers. *)

LEMMA ArmedIsHas ==
  ASSUME NEW e, NEW t
  PROVE  Armed(e, t) <=> Has(e.deadlines, t)
BY DEF Armed, Has

LEMMA ConnectTimer == "connect" \in Timers
BY DEF Timers

LEMMA ProceedTimer == "proceed" \in Timers
BY DEF Timers

LEMMA LeaveTimer == "leave" \in Timers
BY DEF Timers

LEMMA IdentTimer == "ident" \in Timers
BY DEF Timers

LEMMA LinkTimer == "link" \in Timers
BY DEF Timers

LEMMA PlaceFacts ==
  ASSUME NEW e, NEW t, Has(e.deadlines, t)
  PROVE  Place(e, t) \in DOMAIN e.deadlines /\ e.deadlines[Place(e, t)].timer = t
BY DEF Place, Has

\* One element taken out of a sequence.
LEMMA RemoveAtFacts ==
  ASSUME NEW S, NEW q \in Seq(S), NEW i \in 1 .. Len(q)
  PROVE  /\ RemoveAt(q, i) \in Seq(S)
         /\ Len(RemoveAt(q, i)) = Len(q) - 1
         /\ \A j \in 1 .. Len(q) - 1 :
              RemoveAt(q, i)[j] = IF j < i THEN q[j] ELSE q[j + 1]
<1> DEFINE a == SubSeq(q, 1, i - 1)
           b == SubSeq(q, i + 1, Len(q))
<1>0. Len(q) \in Nat
  BY LenProperties
<1>1. a \in Seq(S) /\ Len(a) = i - 1 /\ \A j \in 1 .. i - 1 : a[j] = q[j]
  BY <1>0, SubSeqProperties
<1>2. b \in Seq(S) /\ Len(b) = Len(q) - i /\ \A j \in 1 .. Len(q) - i : b[j] = q[i + j]
  BY <1>0, SubSeqProperties
<1>3. RemoveAt(q, i) = a \o b
  BY DEF RemoveAt
<1> HIDE DEF a, b
<1>4. a \o b \in Seq(S) /\ Len(a \o b) = Len(a) + Len(b)
      /\ \A j \in 1 .. Len(a) + Len(b) :
           (a \o b)[j] = IF j <= Len(a) THEN a[j] ELSE b[j - Len(a)]
  BY <1>1, <1>2, ConcatProperties
<1>5. ASSUME NEW j \in 1 .. Len(q) - 1
      PROVE  (a \o b)[j] = IF j < i THEN q[j] ELSE q[j + 1]
  <2>1. CASE j < i
    BY <1>0, <1>1, <1>2, <1>4, <2>1
  <2>2. CASE ~(j < i)
    <3>1. j - Len(a) \in 1 .. Len(q) - i /\ i + (j - Len(a)) = j + 1
      BY <1>0, <1>1, <2>2
    <3>2. (a \o b)[j] = b[j - Len(a)]
      BY <1>0, <1>1, <1>2, <1>4, <2>2
    <3>3. b[j - Len(a)] = q[j + 1]
      BY <1>2, <3>1
    <3> QED
      BY <2>2, <3>2, <3>3
  <2> QED
    BY <2>1, <2>2
<1> QED
  BY <1>0, <1>1, <1>2, <1>3, <1>4, <1>5
LEMMA ArmFacts ==
  ASSUME NEW e, e.deadlines \in Deadlines, NEW t \in Timers, NEW due \in Nat
  PROVE  \E q \in Deadlines :
           /\ Arm(e, t, due) = [e EXCEPT !.deadlines = q]
           /\ \A u : Has(q, u) <=> u = t \/ Has(e.deadlines, u)
<1> DEFINE q == e.deadlines
           d == [timer |-> t, due |-> due]
           r == [q EXCEPT ![Place(e, t)] = d]
           a == Append(q, d)
<1>1. q \in Seq(Deadline) /\ d \in Deadline
      /\ \A i, j \in DOMAIN q : q[i].timer = q[j].timer => i = j
  BY DEF Deadlines, Deadline
<1>0. d.timer = t
  OBVIOUS
<1>2. CASE Has(q, t)
  <2>1. Place(e, t) \in DOMAIN q /\ q[Place(e, t)].timer = t
    BY <1>2, PlaceFacts
  <2> HIDE DEF q, d
  <2>2. r \in Seq(Deadline) /\ DOMAIN r = DOMAIN q
    BY <1>1, <2>1
  <2>3. \A i \in DOMAIN q : r[i].timer = q[i].timer
    BY <1>0, <1>1, <2>1
  <2> HIDE DEF r
  <2>4. r \in Deadlines
    BY <1>1, <2>2, <2>3 DEF Deadlines
  <2>5. \A u : Has(r, u) <=> u = t \/ Has(q, u)
    BY <1>2, <2>2, <2>3 DEF Has
  <2>6. Arm(e, t, due) = [e EXCEPT !.deadlines = r]
    BY <1>2, ArmedIsHas DEF Arm, r, q, d
  <2> QED
    BY <2>4, <2>5, <2>6 DEF q
<1>3. CASE ~Has(q, t)
  <2> HIDE DEF q, d
  <2>1. a \in Seq(Deadline) /\ Len(a) = Len(q) + 1 /\ a[Len(q) + 1] = d
        /\ \A i \in 1 .. Len(q) : a[i] = q[i]
    BY <1>1, AppendProperties
  <2>2. Len(q) \in Nat /\ DOMAIN q = 1 .. Len(q) /\ DOMAIN a = 1 .. Len(q) + 1
    BY <1>1, <2>1, LenProperties
  <2> HIDE DEF a
  <2>3. \A i \in 1 .. Len(q) : q[i].timer # t
    BY <1>3, <2>2 DEF Has
  <2>4. a \in Deadlines
    BY <1>0, <1>1, <2>1, <2>2, <2>3 DEF Deadlines
  <2>5. \A u : Has(a, u) <=> u = t \/ Has(q, u)
    <3>1. ASSUME NEW i \in DOMAIN a
          PROVE  a[i].timer = t \/ Has(q, a[i].timer)
      BY <1>0, <2>1, <2>2 DEF Has
    <3>2. Has(a, t)
      BY <1>0, <2>1, <2>2 DEF Has
    <3>3. ASSUME NEW i \in DOMAIN q
          PROVE  Has(a, q[i].timer)
      BY <2>1, <2>2 DEF Has
    <3> QED
      BY <3>1, <3>2, <3>3 DEF Has
  <2>6. Arm(e, t, due) = [e EXCEPT !.deadlines = a]
    BY <1>3, ArmedIsHas DEF Arm, a, q, d
  <2> QED
    BY <2>4, <2>5, <2>6 DEF q
<1> QED
  BY <1>2, <1>3

LEMMA DisarmFacts ==
  ASSUME NEW e, e.deadlines \in Deadlines, NEW t
  PROVE  \/ ~Has(e.deadlines, t) /\ Disarm(e, t) = e
         \/ \E q \in Deadlines :
              /\ Disarm(e, t) = [e EXCEPT !.deadlines = q]
              /\ \A u : Has(q, u) <=> u # t /\ Has(e.deadlines, u)
<1> DEFINE q == e.deadlines
           p == Place(e, t)
           r == RemoveAt(q, p)
<1>1. q \in Seq(Deadline) /\ \A i, j \in DOMAIN q : q[i].timer = q[j].timer => i = j
  BY DEF Deadlines, Deadline
<1>2. CASE Has(q, t)
  <2>1. p \in DOMAIN q /\ q[p].timer = t
    BY <1>2, PlaceFacts
  <2>2. Disarm(e, t) = [e EXCEPT !.deadlines = r]
    BY <1>2, ArmedIsHas DEF Disarm
  <2> HIDE DEF q, p
  <2>3. Len(q) \in Nat /\ DOMAIN q = 1 .. Len(q) /\ p \in 1 .. Len(q)
    BY <1>1, <2>1, LenProperties
  <2>4. r \in Seq(Deadline) /\ Len(r) = Len(q) - 1
        /\ \A j \in 1 .. Len(q) - 1 : r[j] = IF j < p THEN q[j] ELSE q[j + 1]
    BY <1>1, <2>3, RemoveAtFacts
  <2>5. DOMAIN r = 1 .. Len(q) - 1
    BY <2>4, LenProperties
  <2> HIDE DEF r
  <2>6. r \in Deadlines
    <3>1. ASSUME NEW i \in DOMAIN r, NEW j \in DOMAIN r, r[i].timer = r[j].timer
          PROVE  i = j
      <4> DEFINE u == IF i < p THEN i ELSE i + 1
                 v == IF j < p THEN j ELSE j + 1
      <4>1. r[i] = q[u] /\ r[j] = q[v] /\ u \in DOMAIN q /\ v \in DOMAIN q
        BY <2>3, <2>4, <2>5
      <4>2. u = v
        BY <1>1, <3>1, <4>1
      <4> QED
        BY <2>3, <2>5, <4>2
    <3> QED
      BY <2>4, <3>1 DEF Deadlines
  <2>7. ASSUME NEW i \in DOMAIN r
        PROVE  Has(q, r[i].timer) /\ r[i].timer # t
    <3> DEFINE u == IF i < p THEN i ELSE i + 1
    <3>1. r[i] = q[u] /\ u \in DOMAIN q /\ u # p
      BY <2>3, <2>4, <2>5
    <3>2. q[u].timer # t
      BY <1>1, <2>1, <3>1
    <3> QED
      BY <3>1, <3>2 DEF Has
  <2>8. ASSUME NEW i \in DOMAIN q, q[i].timer # t
        PROVE  Has(r, q[i].timer)
    <3> DEFINE u == IF i < p THEN i ELSE i - 1
    <3>1. i # p
      BY <2>1, <2>8
    <3>2. u \in DOMAIN r /\ r[u] = q[i]
      BY <2>3, <2>4, <2>5, <3>1
    <3> QED
      BY <3>2 DEF Has
  <2>9. \A u : Has(r, u) <=> u # t /\ Has(q, u)
    BY <2>7, <2>8 DEF Has
  <2> QED
    BY <2>2, <2>6, <2>9 DEF q
<1>3. CASE ~Has(q, t)
  BY <1>3, ArmedIsHas DEF Disarm
<1> QED
  BY <1>2, <1>3
-----------------------------------------------------------------------------
(* Each operator: what it changes, and that an engine stays one. *)

\* The session, the call and what is owed are as they were.
Same(e, r) ==
  /\ r.state = e.state /\ r.role = e.role /\ r.session = e.session /\ r.remote = e.remote
  /\ r.tries = e.tries /\ r.left = e.left /\ r.owed = e.owed /\ r.alone = e.alone
  /\ r.repeats = e.repeats /\ r.asked = e.asked /\ r.peerIdent = e.peerIdent
  /\ r.silent = e.silent /\ r.discTries = e.discTries

\* Only timers are armed or disarmed.
Rearmed(e, r) ==
  Same(e, r) /\ r.slot = e.slot /\ r.hold = e.hold /\ r.out = e.out

LEMMA RearmedBy ==
  ASSUME NEW s, NEW N, NEW e \in Engines(s, N), NEW q \in Deadlines
  PROVE  /\ [e EXCEPT !.deadlines = q] \in Engines(s, N)
         /\ Rearmed(e, [e EXCEPT !.deadlines = q])
         /\ [e EXCEPT !.deadlines = q].deadlines = q
BY DEF Engines, Rearmed, Same

LEMMA EngineDeadlines ==
  ASSUME NEW s, NEW N, NEW e \in Engines(s, N)
  PROVE  e.deadlines \in Deadlines
BY DEF Engines

LEMMA ArmIs ==
  ASSUME NEW s, NEW N, NEW e \in Engines(s, N), NEW t \in Timers, NEW due \in Nat
  PROVE  /\ Arm(e, t, due) \in Engines(s, N)
         /\ Rearmed(e, Arm(e, t, due))
         /\ \A u : Has(Arm(e, t, due).deadlines, u) <=> u = t \/ Has(e.deadlines, u)
<1>0. e.deadlines \in Deadlines
  BY EngineDeadlines
<1>1. PICK q \in Deadlines : /\ Arm(e, t, due) = [e EXCEPT !.deadlines = q]
                             /\ \A u : Has(q, u) <=> u = t \/ Has(e.deadlines, u)
  BY <1>0, ArmFacts
<1> QED
  BY <1>1, RearmedBy

LEMMA DisarmIs ==
  ASSUME NEW s, NEW N, NEW e \in Engines(s, N), NEW t
  PROVE  /\ Disarm(e, t) \in Engines(s, N)
         /\ Rearmed(e, Disarm(e, t))
         /\ \A u : Has(Disarm(e, t).deadlines, u) <=> u # t /\ Has(e.deadlines, u)
<1>1. CASE ~Has(e.deadlines, t) /\ Disarm(e, t) = e
  BY <1>1 DEF Rearmed, Same
<1>2. CASE \E q \in Deadlines : /\ Disarm(e, t) = [e EXCEPT !.deadlines = q]
                                /\ \A u : Has(q, u) <=> u # t /\ Has(e.deadlines, u)
  <2>1. PICK q \in Deadlines : /\ Disarm(e, t) = [e EXCEPT !.deadlines = q]
                               /\ \A u : Has(q, u) <=> u # t /\ Has(e.deadlines, u)
    BY <1>2
  <2> QED
    BY <2>1, RearmedBy
<1>3. e.deadlines \in Deadlines
  BY EngineDeadlines
<1> QED
  BY <1>1, <1>2, <1>3, DisarmFacts

\* When a slot closes.
LEMMA CloseTime ==
  ASSUME NEW slot \in Slots
  PROVE  SlotClose(slot) \in Nat
BY TimeAssumption DEF SlotClose, After, Slots, Granted, NoSlot, Times, NoTime

LEMMA ArmWaitIs ==
  ASSUME NEW s, NEW N, NEW e \in Engines(s, N), now \in Nat
  PROVE  LET r == ArmWait(e)
         IN  /\ r \in Engines(s, N) /\ Same(e, r) /\ r.slot = e.slot /\ r.out = e.out
             /\ r.hold = IF e.slot = NoSlot THEN e.hold ELSE SlotClose(e.slot)
             /\ \A u : Has(e.deadlines, u) => Has(r.deadlines, u)
             /\ \A u : Has(r.deadlines, u) =>
                       Has(e.deadlines, u) \/ u \in {"connect", "proceed"}
             /\ e.slot.kind = "connect" /\ e.state = "connecting" =>
                  Has(r.deadlines, "connect")
             /\ e.slot # NoSlot /\ e.role = "master" /\ Up(e) =>
                  Has(r.deadlines, "proceed")
<1> DEFINE due == SlotClose(e.slot)
           held == [e EXCEPT !.hold = due]
           r == ArmWait(e)
<1>1. due \in Nat
  BY CloseTime DEF Engines
<1>a. r = IF e.slot = NoSlot THEN e
          ELSE IF e.slot.kind = "connect" /\ e.state = "connecting"
               THEN Arm(held, "connect", due + e.jitter)
               ELSE IF e.role = "master" /\ Up(e)
                    THEN Arm(held, "proceed", Max2(now, due))
                    ELSE held
  BY DEF ArmWait
<1> HIDE DEF due, r
<1>2. held \in Engines(s, N) /\ held.deadlines = e.deadlines /\ held.hold = due
      /\ Same(e, held) /\ held.slot = e.slot /\ held.out = e.out
  BY <1>1 DEF Engines, Same
<1>3. e.jitter \in Nat
  BY DEF Engines
<1>4. due + e.jitter \in Nat /\ Max2(now, due) \in Nat
  BY <1>1, <1>3 DEF Max2
<1> HIDE DEF held
<1>5. CASE e.slot = NoSlot
  <2>1. e.slot.kind # "connect"
    BY <1>5 DEF NoSlot
  <2> QED
    BY <1>5, <1>a, <2>1 DEF Same, r
<1>6. CASE e.slot # NoSlot /\ e.slot.kind = "connect" /\ e.state = "connecting"
  <2> DEFINE at == due + e.jitter
  <2>1. r = Arm(held, "connect", at) /\ at \in Nat
    BY <1>4, <1>6, <1>a
  <2> HIDE DEF at
  <2>2. r \in Engines(s, N) /\ Rearmed(held, r)
        /\ \A u : Has(r.deadlines, u) <=> u = "connect" \/ Has(held.deadlines, u)
    BY <1>2, <2>1, ConnectTimer, ArmIs
  <2>3. ~Up(e)
    BY <1>6 DEF Up
  <2> QED
    BY <1>2, <1>6, <2>2, <2>3 DEF due, Rearmed, Same, r
<1>7. CASE /\ e.slot # NoSlot /\ ~(e.slot.kind = "connect" /\ e.state = "connecting")
           /\ e.role = "master" /\ Up(e)
  <2> DEFINE at == Max2(now, due)
  <2>1. r = Arm(held, "proceed", at) /\ at \in Nat
    BY <1>4, <1>7, <1>a
  <2> HIDE DEF at
  <2>2. r \in Engines(s, N) /\ Rearmed(held, r)
        /\ \A u : Has(r.deadlines, u) <=> u = "proceed" \/ Has(held.deadlines, u)
    BY <1>2, <2>1, ProceedTimer, ArmIs
  <2> QED
    BY <1>2, <1>7, <2>2 DEF due, Rearmed, Same, r
<1>8. CASE /\ e.slot # NoSlot /\ ~(e.slot.kind = "connect" /\ e.state = "connecting")
           /\ ~(e.role = "master" /\ Up(e))
  BY <1>2, <1>8, <1>a DEF due, r
<1> QED
  BY <1>5, <1>6, <1>7, <1>8
LEMMA SlotNotNone ==
  ASSUME NEW slot \in Granted
  PROVE  slot # NoSlot /\ slot \in Slots
BY DEF Granted, NoSlot, Slots, SlotKinds

LEMMA OpenSlotIs ==
  ASSUME NEW s, NEW N, NEW e \in Engines(s, N), now \in Nat, e.slot # NoSlot, NEW end \in Nat
  PROVE  LET r == OpenSlot(e, end)
         IN  /\ r \in Engines(s, N) /\ Same(e, r) /\ r.out = e.out
             /\ r.slot = [e.slot EXCEPT !.txEnd = end,
                                        !.endMax = SlotStart(end) + e.slot.room + Slack]
             /\ r.slot \in Granted
             /\ r.hold = SlotClose(r.slot)
             /\ \A u : Has(e.deadlines, u) => Has(r.deadlines, u)
             /\ \A u : Has(r.deadlines, u) =>
                       Has(e.deadlines, u) \/ u \in {"connect", "proceed"}
             /\ e.slot.kind = "connect" /\ e.state = "connecting" =>
                  Has(r.deadlines, "connect")
             /\ e.role = "master" /\ Up(e) => Has(r.deadlines, "proceed")
<1> DEFINE max == SlotStart(end) + e.slot.room + Slack
           slot == [e.slot EXCEPT !.txEnd = end, !.endMax = max]
           d == [e EXCEPT !.slot.txEnd = end, !.slot.endMax = max]
           r == ArmWait(d)
<1>1. e.slot \in Granted
  BY DEF Engines, Slots
<1>2. max \in Nat
  BY <1>1, TimeAssumption DEF Granted, SlotStart
<1>3. OpenSlot(e, end) = r
  BY DEF OpenSlot
<1> HIDE DEF max
<1>4. slot \in Granted /\ slot.kind = e.slot.kind
  BY <1>1, <1>2 DEF Granted
<1>5. d.slot = slot
  BY <1>1 DEF Engines, Granted
<1>6. d \in Engines(s, N)
  <2>1. d = [e EXCEPT !.slot = slot]
    BY <1>1 DEF Engines, Granted
  <2> HIDE DEF slot, d
  <2> QED
    BY <1>4, <2>1 DEF Engines, Slots
<1>7. Same(e, d) /\ d.out = e.out /\ d.hold = e.hold /\ d.deadlines = e.deadlines
  BY DEF Engines, Same
<1> HIDE DEF slot, d, r
<1>8. /\ r \in Engines(s, N) /\ Same(d, r) /\ r.slot = d.slot /\ r.out = d.out
      /\ r.hold = IF d.slot = NoSlot THEN d.hold ELSE SlotClose(d.slot)
      /\ \A u : Has(d.deadlines, u) => Has(r.deadlines, u)
      /\ \A u : Has(r.deadlines, u) =>
                Has(d.deadlines, u) \/ u \in {"connect", "proceed"}
      /\ d.slot.kind = "connect" /\ d.state = "connecting" => Has(r.deadlines, "connect")
      /\ d.slot # NoSlot /\ d.role = "master" /\ Up(d) => Has(r.deadlines, "proceed")
  BY <1>6, ArmWaitIs DEF r
<1>9. d.slot # NoSlot
  BY <1>4, <1>5, SlotNotNone
<1>10. Up(d) <=> Up(e)
  BY <1>7 DEF Same, Up
<1>11. r.slot = [e.slot EXCEPT !.txEnd = end,
                               !.endMax = SlotStart(end) + e.slot.room + Slack]
  BY <1>5, <1>8 DEF slot, max
<1> QED
  BY <1>3, <1>4, <1>5, <1>7, <1>8, <1>9, <1>10, <1>11 DEF Same

Ungranted(q) == [i \in DOMAIN q |-> [q[i] EXCEPT !.grants = FALSE]]

LEMMA UngrantedType ==
  ASSUME NEW s, NEW N, NEW q \in Queues(s, N)
  PROVE  /\ Ungranted(q) \in Queues(s, N)
         /\ DOMAIN Ungranted(q) = DOMAIN q /\ Len(Ungranted(q)) = Len(q)
<1> DEFINE T == Transmissions(s, N)
           t(i) == [q[i] EXCEPT !.grants = FALSE]
<1>1. \A x \in T : [x EXCEPT !.grants = FALSE] \in T
                   /\ [x EXCEPT !.grants = FALSE].msg = x.msg
  BY DEF Transmissions
<1>a. q \in Seq(T)
  BY DEF Queues
<1> HIDE DEF T
<1>2. Len(q) \in Nat /\ DOMAIN q = 1 .. Len(q) /\ \A i \in 1 .. Len(q) : q[i] \in T
  BY <1>a, LenProperties
<1>3. \A i \in 1 .. Len(q) : t(i) \in T /\ t(i).msg = q[i].msg
  BY <1>1, <1>2
<1>4. Ungranted(q) = [i \in 1 .. Len(q) |-> t(i)]
  BY <1>2 DEF Ungranted
<1> HIDE DEF t
<1>5. [i \in 1 .. Len(q) |-> t(i)] \in Seq(T) /\ Len([i \in 1 .. Len(q) |-> t(i)]) = Len(q)
  BY <1>2, <1>3
<1>6. DOMAIN Ungranted(q) = DOMAIN q /\ Len(Ungranted(q)) = Len(q)
      /\ \A i \in DOMAIN q : Ungranted(q)[i].msg = q[i].msg
  BY <1>2, <1>3, <1>4, <1>5
<1>7. InTurn(Ungranted(q)) /\ AfterSent(N, Ungranted(q))
  BY <1>6 DEF InTurn, AfterSent, IsCall, Queues
<1> QED
  BY <1>4, <1>5, <1>6, <1>7 DEF T, Queues

LEMMA AppendInTurn ==
  ASSUME NEW s, NEW N, NEW q \in Queues(s, N), NEW tx \in Transmissions(s, N),
         Latest(N, tx.msg)
  PROVE  Append(q, tx) \in Queues(s, N)
<1> DEFINE T == Transmissions(s, N)
           a == Append(q, tx)
<1>1. q \in Seq(T) /\ InTurn(q) /\ AfterSent(N, q)
  BY DEF Queues
<1>a. \A x \in T : IsCall(x) => x.msg.session \in N.call
  BY DEF Transmissions, Messages, IsCall
<1> HIDE DEF T
<1>2. a \in Seq(T) /\ Len(a) = Len(q) + 1 /\ a[Len(q) + 1] = tx
      /\ \A i \in 1 .. Len(q) : a[i] = q[i]
  BY <1>1, AppendProperties DEF T
<1>3. Len(q) \in Nat /\ DOMAIN q = 1 .. Len(q) /\ DOMAIN a = 1 .. Len(q) + 1
      /\ \A i \in 1 .. Len(q) : q[i] \in T
  BY <1>1, <1>2, LenProperties
<1> HIDE DEF a
<1>4. InTurn(a)
  <2>1. ASSUME NEW i \in DOMAIN a, NEW j \in DOMAIN a, i < j, IsCall(a[i]), IsCall(a[j])
        PROVE  a[i].msg.session <= a[j].msg.session
    <3>1. i \in 1 .. Len(q) /\ a[i] = q[i]
      BY <1>2, <1>3, <2>1
    <3>2. CASE j \in 1 .. Len(q)
      BY <1>1, <1>2, <1>3, <2>1, <3>1, <3>2 DEF InTurn
    <3>3. CASE j = Len(q) + 1
      <4>1. a[i].msg.session \in N.call
        BY <1>a, <1>3, <2>1, <3>1
      <4> QED
        BY <1>2, <2>1, <3>3, <4>1 DEF Latest, IsCall
    <3> QED
      BY <1>3, <3>2, <3>3
  <2> QED
    BY <2>1 DEF InTurn
<1>5. AfterSent(N, a)
  <2>1. ASSUME NEW i \in DOMAIN a, IsCall(a[i]), NEW m \in N.sent
        PROVE  m <= a[i].msg.session
    <3>1. CASE i \in 1 .. Len(q)
      BY <1>1, <1>2, <1>3, <2>1, <3>1 DEF AfterSent
    <3>2. CASE i = Len(q) + 1
      BY <1>2, <2>1, <3>2 DEF Latest, IsCall
    <3> QED
      BY <1>3, <3>1, <3>2
  <2> QED
    BY <2>1 DEF AfterSent
<1> QED
  BY <1>2, <1>4, <1>5 DEF Queues, T, a

LEMMA TailInTurn ==
  ASSUME NEW s, NEW N, NEW q \in Queues(s, N), q # <<>>
  PROVE  Tail(q) \in Queues(s, N)
<1> DEFINE T == Transmissions(s, N)
           a == Tail(q)
<1>1. q \in Seq(T) /\ InTurn(q) /\ AfterSent(N, q)
  BY DEF Queues
<1> HIDE DEF T
<1>2. a \in Seq(T) /\ Len(a) = Len(q) - 1 /\ Len(q) \in Nat \ {0}
      /\ \A i \in 1 .. Len(q) - 1 : a[i] = q[i + 1]
  BY <1>1, HeadTailProperties, EmptySeq, LenProperties
<1>3. DOMAIN q = 1 .. Len(q) /\ DOMAIN a = 1 .. Len(q) - 1
  BY <1>1, <1>2, LenProperties
<1> HIDE DEF a
<1>4. ASSUME NEW i \in DOMAIN a
      PROVE  i \in Int /\ i + 1 \in DOMAIN q /\ a[i] = q[i + 1]
  BY <1>2, <1>3
<1>5. InTurn(a)
  <2>1. ASSUME NEW i \in DOMAIN a, NEW j \in DOMAIN a, i < j, IsCall(a[i]), IsCall(a[j])
        PROVE  a[i].msg.session <= a[j].msg.session
    <3>1. i + 1 < j + 1 /\ i + 1 \in DOMAIN q /\ j + 1 \in DOMAIN q
          /\ a[i] = q[i + 1] /\ a[j] = q[j + 1]
      BY <1>4, <2>1
    <3> QED
      BY <1>1, <2>1, <3>1 DEF InTurn
  <2> QED
    BY <2>1 DEF InTurn
<1>6. AfterSent(N, a)
  BY <1>1, <1>4 DEF AfterSent
<1> QED
  BY <1>2, <1>5, <1>6 DEF Queues, T, a

LEMMA HandIs ==
  ASSUME NEW s, NEW N, NEW e \in Engines(s, N), NEW tx \in Transmissions(s, N),
         Latest(N, tx.msg)
  PROVE  LET r == Hand(e, tx)
         IN  /\ r \in Engines(s, N) /\ Same(e, r) /\ r.slot = e.slot /\ r.hold = e.hold
             /\ r.deadlines = e.deadlines /\ r.out = Append(e.out, tx)
<1> DEFINE q == Append(e.out, tx)
<1>1. q \in Queues(s, N)
  <2>1. e.out \in Queues(s, N)
    BY DEF Engines
  <2> QED
    BY <2>1, AppendInTurn
<1>2. Hand(e, tx) = [e EXCEPT !.out = q]
  BY DEF Hand
<1> HIDE DEF q
<1>3. [e EXCEPT !.out = q] \in Engines(s, N)
  BY <1>1 DEF Engines
<1>4. LET r == [e EXCEPT !.out = q]
      IN  Same(e, r) /\ r.slot = e.slot /\ r.hold = e.hold /\ r.deadlines = e.deadlines
          /\ r.out = q
  BY DEF Engines, Same
<1> QED
  BY <1>2, <1>3, <1>4 DEF q

LEMMA NoMessageType ==
  ASSUME NEW s, NEW N
  PROVE  NoMessage \in Messages(s, N)
BY DEF NoMessage, Message, Messages, Kinds, Idents

LEMMA AtOnceType ==
  ASSUME NEW s, NEW N, now \in Nat, NEW msg \in Messages(s, N), NEW ident \in Idents(s),
         NEW listen \in BOOLEAN, NEW grants \in BOOLEAN
  PROVE  AtOnce(msg, ident, listen, grants) \in Transmissions(s, N)
BY DEF AtOnce, Transmissions, Times

LEMMA InItsSlotType ==
  ASSUME NEW s, NEW N, NEW start \in Nat, NEW msg \in Messages(s, N), NEW ident \in Idents(s)
  PROVE  InItsSlot(msg, ident, start) \in Transmissions(s, N)
BY TimeAssumption DEF InItsSlot, Transmissions, Times

LEMMA KeyGrantingIs ==
  ASSUME NEW s, NEW N, NEW e \in Engines(s, N), now \in Nat,
         NEW kind \in SlotKinds, NEW room \in Nat, NEW msg \in Messages(s, N),
         Latest(N, msg)
  PROVE  LET r == KeyGranting(e, kind, room, msg)
         IN  /\ r \in Engines(s, N) /\ Same(e, r)
             /\ r.out = Append(Ungranted(e.out), AtOnce(msg, 0, FALSE, TRUE))
             /\ r.slot \in Granted /\ r.slot.kind = kind
             /\ r.hold = now + Frame + Gap + room + Slack + Wait
             /\ \A u : Has(e.deadlines, u) => Has(r.deadlines, u)
             /\ \A u : Has(r.deadlines, u) =>
                       Has(e.deadlines, u) \/ u \in {"connect", "proceed"}
             /\ kind = "connect" /\ e.state = "connecting" => Has(r.deadlines, "connect")
             /\ e.role = "master" /\ Up(e) => Has(r.deadlines, "proceed")
<1> DEFINE slot == [NoSlot EXCEPT !.kind = kind, !.room = room]
           tx == AtOnce(msg, 0, FALSE, TRUE)
           q == Ungranted(e.out)
           d == [e EXCEPT !.slot = slot, !.out = q]
           h == Hand(d, tx)
           end == now + Frame
           r == OpenSlot(h, end)
<1>1. slot \in Granted /\ slot.kind = kind /\ slot.room = room /\ slot.stated = NoTime
  BY DEF NoSlot, Granted, Times
<1>2. tx \in Transmissions(s, N) /\ Latest(N, tx.msg)
  BY AtOnceType DEF Idents, AtOnce
<1>3. q \in Queues(s, N)
  <2>1. e.out \in Queues(s, N)
    BY DEF Engines
  <2> QED
    BY <2>1, UngrantedType
<1>4. KeyGranting(e, kind, room, msg) = r
  BY DEF KeyGranting, Ungranted
<1> HIDE DEF slot, q
<1>5. d \in Engines(s, N) /\ Same(e, d) /\ d.slot = slot /\ d.out = q
      /\ d.deadlines = e.deadlines
  BY <1>1, <1>3 DEF Engines, Same, Slots
<1> HIDE DEF d, tx
<1>6. h \in Engines(s, N) /\ Same(d, h) /\ h.slot = d.slot
      /\ h.deadlines = d.deadlines /\ h.out = Append(d.out, tx)
  BY <1>2, <1>5, HandIs
<1>7. end \in Nat /\ h.slot # NoSlot
  BY <1>1, <1>5, <1>6, SlotNotNone, TimeAssumption
<1> HIDE DEF h, end
<1>8. /\ r \in Engines(s, N) /\ Same(h, r) /\ r.out = h.out
      /\ r.slot = [h.slot EXCEPT !.txEnd = end,
                                 !.endMax = SlotStart(end) + h.slot.room + Slack]
      /\ r.slot \in Granted
      /\ r.hold = SlotClose(r.slot)
      /\ \A u : Has(h.deadlines, u) => Has(r.deadlines, u)
      /\ \A u : Has(r.deadlines, u) =>
                Has(h.deadlines, u) \/ u \in {"connect", "proceed"}
      /\ h.slot.kind = "connect" /\ h.state = "connecting" => Has(r.deadlines, "connect")
      /\ h.role = "master" /\ Up(h) => Has(r.deadlines, "proceed")
  BY <1>6, <1>7, OpenSlotIs
<1> HIDE DEF r
<1>9. Same(e, r)
  BY <1>5, <1>6, <1>8 DEF Same
<1>10. r.slot.kind = kind /\ r.slot.stated = NoTime
       /\ r.slot.endMax = SlotStart(end) + room + Slack
  BY <1>1, <1>5, <1>6, <1>8 DEF Granted
<1>11. r.hold = now + Frame + Gap + room + Slack + Wait
  BY <1>8, <1>10, TimeAssumption DEF SlotClose, After, SlotStart, end
<1>12. (Up(h) <=> Up(e)) /\ h.state = e.state /\ h.role = e.role
  BY <1>5, <1>6 DEF Same, Up
<1> QED
  BY <1>1, <1>4, <1>5, <1>6, <1>8, <1>9, <1>10, <1>11, <1>12 DEF tx, q

LEMMA StateEndIs ==
  ASSUME NEW s, NEW N, NEW e \in Engines(s, N), now \in Nat, NEW end \in Nat
  PROVE  LET r == StateEnd(e, end)
         IN  /\ r \in Engines(s, N) /\ Same(e, r) /\ r.out = e.out
             /\ e.slot = NoSlot => r = e
             /\ e.slot # NoSlot =>
                  /\ r.slot \in Granted /\ r.slot.kind = e.slot.kind
                  /\ r.slot.stated = IF end >= e.slot.stated THEN end ELSE e.slot.stated
                  /\ r.slot.stated # NoTime
                  /\ r.hold = r.slot.stated + Wait
             /\ \A u : Has(e.deadlines, u) => Has(r.deadlines, u)
             /\ \A u : Has(r.deadlines, u) =>
                       Has(e.deadlines, u) \/ u \in {"connect", "proceed"}
             /\ e.slot.kind = "connect" /\ e.state = "connecting" =>
                  Has(r.deadlines, "connect")
             /\ e.slot # NoSlot /\ e.role = "master" /\ Up(e) => Has(r.deadlines, "proceed")
<1>1. CASE e.slot = NoSlot
  BY <1>1 DEF StateEnd, NoSlot, Same
<1>2. CASE e.slot # NoSlot
  <2> DEFINE at == IF end >= e.slot.stated THEN end ELSE e.slot.stated
             slot == [e.slot EXCEPT !.stated = at]
             d == [e EXCEPT !.slot = slot]
             r == ArmWait(d)
  <2>1. e.slot \in Granted
    BY <1>2 DEF Engines, Slots
  <2>2. at \in Nat /\ at # NoTime
    BY <2>1 DEF Granted, Times, NoTime
  <2>3. StateEnd(e, end) = r
    BY <1>2, <2>1 DEF StateEnd, Engines, Granted
  <2> HIDE DEF at
  <2>4. slot \in Granted /\ slot.kind = e.slot.kind /\ slot.stated = at
    BY <2>1, <2>2 DEF Granted, Times
  <2> HIDE DEF slot
  <2>5. d \in Engines(s, N) /\ Same(e, d) /\ d.slot = slot /\ d.out = e.out
        /\ d.deadlines = e.deadlines
    BY <2>4 DEF Engines, Same, Slots
  <2> HIDE DEF d, r
  <2>6. /\ r \in Engines(s, N) /\ Same(d, r) /\ r.slot = d.slot /\ r.out = d.out
        /\ r.hold = IF d.slot = NoSlot THEN d.hold ELSE SlotClose(d.slot)
        /\ \A u : Has(d.deadlines, u) => Has(r.deadlines, u)
        /\ \A u : Has(r.deadlines, u) =>
                  Has(d.deadlines, u) \/ u \in {"connect", "proceed"}
        /\ d.slot.kind = "connect" /\ d.state = "connecting" => Has(r.deadlines, "connect")
        /\ d.slot # NoSlot /\ d.role = "master" /\ Up(d) => Has(r.deadlines, "proceed")
    BY <2>5, ArmWaitIs DEF r
  <2>7. d.slot # NoSlot
    BY <2>4, <2>5, SlotNotNone
  <2>8. (Up(d) <=> Up(e)) /\ d.state = e.state /\ d.role = e.role
    BY <2>5 DEF Same, Up
  <2>9. Same(e, r)
    BY <2>5, <2>6 DEF Same
  <2>10. r.hold = r.slot.stated + Wait
    BY <2>2, <2>4, <2>5, <2>6, <2>7 DEF SlotClose, After
  <2> QED
    BY <1>2, <2>2, <2>3, <2>4, <2>5, <2>6, <2>7, <2>8, <2>9, <2>10 DEF at
<1> QED
  BY <1>1, <1>2
LEMMA HeardIs ==
  ASSUME NEW s, NEW N, NEW e \in Engines(s, N), now \in Nat
  PROVE  LET r == Heard(e)
         IN  /\ r \in Engines(s, N) /\ Rearmed(e, r)
             /\ \A u : Has(r.deadlines, u) <=> u = "link" \/ Has(e.deadlines, u)
<1> DEFINE d == [e EXCEPT !.heardAt = now]
           at == now + LinkTimeout
           r == Arm(d, "link", at)
<1>1. d \in Engines(s, N) /\ Rearmed(e, d) /\ d.deadlines = e.deadlines
  BY DEF Engines, Rearmed, Same
<1>2. at \in Nat
  BY TimeAssumption
<1>3. Heard(e) = r /\ r = Arm(d, "link", at)
  BY DEF Heard
<1> HIDE DEF d, at, r
<1>4. r \in Engines(s, N) /\ Rearmed(d, r)
      /\ \A u : Has(r.deadlines, u) <=> u = "link" \/ Has(d.deadlines, u)
  BY <1>1, <1>2, <1>3, LinkTimer, ArmIs
<1>5. Rearmed(e, r)
  BY <1>1, <1>4 DEF Rearmed, Same
<1> QED
  BY <1>1, <1>3, <1>4, <1>5

LEMMA AnswerInIs ==
  ASSUME NEW s, NEW N, NEW e \in Engines(s, N), NEW start \in Nat,
         NEW msg \in Messages(s, N), msg.kind # "call", NEW ident \in Idents(s)
  PROVE  LET r == AnswerIn(e, msg, ident, start)
         IN  /\ r \in Engines(s, N) /\ Same(e, r) /\ r.slot = e.slot /\ r.hold = e.hold
             /\ r.deadlines = e.deadlines
             /\ r.out = IF TooLate(start) THEN e.out
                        ELSE Append(e.out, InItsSlot(msg, ident, start))
<1>1. InItsSlot(msg, ident, start) \in Transmissions(s, N)
      /\ Latest(N, InItsSlot(msg, ident, start).msg)
  BY InItsSlotType DEF InItsSlot, Latest
<1>2. CASE TooLate(start)
  BY <1>2 DEF AnswerIn, Same
<1>3. CASE ~TooLate(start)
  BY <1>1, <1>3, HandIs DEF AnswerIn
<1> QED
  BY <1>2, <1>3

\* The session, its call and what is left of it: a reset touches none of them.
SameCall(e, r) ==
  /\ r.state = e.state /\ r.role = e.role /\ r.session = e.session /\ r.remote = e.remote
  /\ r.tries = e.tries /\ r.left = e.left /\ r.owed = e.owed /\ r.alone = e.alone
  /\ r.repeats = e.repeats /\ r.hold = e.hold /\ r.out = e.out

LEMMA DropIdentifierIs ==
  ASSUME NEW s, NEW N, NEW e \in Engines(s, N)
  PROVE  LET r == DropIdentifier(e)
         IN  /\ r \in Engines(s, N) /\ Rearmed([e EXCEPT !.owed = 0], r) /\ r.owed = 0
             /\ \A u : Has(r.deadlines, u) <=> u # "ident" /\ Has(e.deadlines, u)
<1> DEFINE d == [e EXCEPT !.owed = 0]
           r == Disarm(d, "ident")
<1>1. d \in Engines(s, N) /\ d.deadlines = e.deadlines /\ d.owed = 0
  BY DEF Engines, Idents
<1>2. DropIdentifier(e) = r
  BY DEF DropIdentifier
<1> HIDE DEF d, r
<1>3. r \in Engines(s, N) /\ Rearmed(d, r)
      /\ \A u : Has(r.deadlines, u) <=> u # "ident" /\ Has(d.deadlines, u)
  BY <1>1, DisarmIs DEF r
<1>4. r.owed = 0
  BY <1>1, <1>3 DEF Rearmed, Same
<1> QED
  BY <1>1, <1>2, <1>3, <1>4 DEF d

LEMMA ResetSessionIs ==
  ASSUME NEW s, NEW N, NEW e \in Engines(s, N), now \in Nat
  PROVE  LET r == ResetSession(e)
         IN  /\ r \in Engines(s, N) /\ SameCall(e, r) /\ r.slot = NoSlot
             /\ r.asked = FALSE /\ r.peerIdent = 0 /\ r.silent = 0 /\ r.discTries = 0
             /\ \A u : Has(r.deadlines, u) <=>
                       u \notin {"proceed", "link"} /\ Has(e.deadlines, u)
<1> DEFINE d == [e EXCEPT !.slot = NoSlot, !.silent = 0, !.heardAt = now, !.asked = FALSE,
                          !.since = NoTime, !.discTries = 0, !.peerLeft = FALSE,
                          !.slaveLeaves = FALSE, !.reached = FALSE, !.peerIdent = 0]
           p == Disarm(d, "proceed")
           r == Disarm(p, "link")
<1>0. 0 \in 0 .. DiscRetries /\ NoSlot \in Slots /\ NoTime \in Times
      /\ 0 \in Idents(Peer(s))
  BY CountAssumption DEF Slots, Times, Idents
<1>1. d \in Engines(s, N)
  BY <1>0 DEF Engines
<1>2. SameCall(e, d) /\ d.slot = NoSlot /\ d.asked = FALSE /\ d.peerIdent = 0
      /\ d.silent = 0 /\ d.discTries = 0 /\ d.deadlines = e.deadlines
  BY DEF Engines, SameCall
<1>3. ResetSession(e) = r
  BY DEF ResetSession
<1> HIDE DEF d, p, r
<1>4. p \in Engines(s, N) /\ Rearmed(d, p)
      /\ \A u : Has(p.deadlines, u) <=> u # "proceed" /\ Has(d.deadlines, u)
  BY <1>1, DisarmIs DEF p
<1>5. r \in Engines(s, N) /\ Rearmed(p, r)
      /\ \A u : Has(r.deadlines, u) <=> u # "link" /\ Has(p.deadlines, u)
  BY <1>4, DisarmIs DEF r
<1>6. SameCall(e, r) /\ r.slot = NoSlot /\ r.asked = FALSE /\ r.peerIdent = 0
      /\ r.silent = 0 /\ r.discTries = 0
  BY <1>2, <1>4, <1>5 DEF SameCall, Rearmed, Same
<1> QED
  BY <1>2, <1>3, <1>4, <1>5, <1>6
LEMMA PeerType ==
  ASSUME NEW s \in Stations
  PROVE  Peer(s) \in Stations /\ Peer(s) # s /\ Stations = {s, Peer(s)} /\ Peer(Peer(s)) = s
<1>1. PICK a, b \in Stations : a # b /\ Stations = {a, b}
  BY StationAssumption
<1>2. Peer(s) \in Stations /\ Peer(s) # s
  BY <1>1 DEF Peer
<1>3. Stations = {s, Peer(s)}
  BY <1>1, <1>2
<1>4. Peer(Peer(s)) \in Stations /\ Peer(Peer(s)) # Peer(s)
  BY <1>1, <1>2 DEF Peer
<1> QED
  BY <1>2, <1>3, <1>4

LEMMA IdentNat ==
  ASSUME NEW s \in Stations, NEW i \in Idents(s)
  PROVE  i \in Nat
BY TimeAssumption DEF Idents

\* What a session that ends leaves: its number, to answer from, and the
\* identifier it owes, with the timer that sends it unless the leaving does.
LEMMA PlaceIdentifierIs ==
  ASSUME NEW s \in Stations, NEW N, NEW e \in Engines(s, N), now \in Nat,
         NEW reason, NEW wasMaster \in BOOLEAN
  PROVE  LET r == PlaceIdentifier(e, reason, wasMaster)
         IN  /\ r \in Engines(s, N) /\ Rearmed(e, r)
             /\ \A u : Has(e.deadlines, u) => Has(r.deadlines, u)
             /\ \A u : Has(r.deadlines, u) => u = "ident" \/ Has(e.deadlines, u)
             /\ ~(wasMaster /\ reason = "aborted") => Has(r.deadlines, "ident")
<1> DEFINE at == CASE wasMaster -> Max2(now, e.hold)
                   [] ~wasMaster /\ reason = "link timeout" -> now + Exchange + e.peerIdent
                   [] ~wasMaster /\ reason # "link timeout" ->
                        IF e.left = NoLeft THEN now ELSE now + Exchange
           r == PlaceIdentifier(e, reason, wasMaster)
<1>1. e.hold \in Nat /\ e.peerIdent \in Nat
  <2>1. e.hold \in Nat /\ e.peerIdent \in Idents(Peer(s))
    BY DEF Engines
  <2> QED
    BY <2>1, IdentNat, PeerType
<1>2. at \in Nat
  <2>1. CASE wasMaster
    <3>1. at = Max2(now, e.hold)
      BY <2>1
    <3> HIDE DEF at
    <3> QED
      BY <1>1, <3>1 DEF Max2
  <2>2. CASE ~wasMaster /\ reason = "link timeout"
    <3>1. at = now + Exchange + e.peerIdent
      BY <2>2
    <3> HIDE DEF at
    <3> QED
      BY <1>1, <3>1, TimeAssumption
  <2>3. CASE ~wasMaster /\ reason # "link timeout"
    <3>1. at = IF e.left = NoLeft THEN now ELSE now + Exchange
      BY <2>3
    <3> HIDE DEF at
    <3> QED
      BY <3>1, TimeAssumption
  <2> QED
    BY <2>1, <2>2, <2>3
<1>3. r = IF wasMaster /\ reason = "aborted" THEN e ELSE Arm(e, "ident", at)
  BY DEF PlaceIdentifier
<1> HIDE DEF at, r
<1>4. CASE wasMaster /\ reason = "aborted"
  BY <1>3, <1>4 DEF Rearmed, Same, r
<1>5. CASE ~(wasMaster /\ reason = "aborted")
  <2>1. r = Arm(e, "ident", at)
    BY <1>3, <1>5
  <2>2. r \in Engines(s, N) /\ Rearmed(e, r)
        /\ \A u : Has(r.deadlines, u) <=> u = "ident" \/ Has(e.deadlines, u)
    BY <1>2, <2>1, IdentTimer, ArmIs
  <2> QED
    BY <1>5, <2>2 DEF r
<1> QED
  BY <1>4, <1>5

Owes(e, s, reason) == e.state # "connecting" /\ Ident[s] > 0 /\ reason # "called again"

Ended(s, N, e, reason, r) ==
  /\ r \in Engines(s, N)
  /\ r.state = "idle" /\ r.role = "none" /\ r.slot = NoSlot
  /\ r.session = e.session /\ r.remote = e.remote /\ r.tries = e.tries
  /\ r.repeats = e.repeats /\ r.hold = e.hold /\ r.out = e.out
  /\ r.silent = 0 /\ r.discTries = 0
  /\ r.owed = IF Owes(e, s, reason) THEN Ident[s] ELSE 0
  /\ Owes(e, s, reason) => (r.alone <=> e.role # "master")
  /\ Owes(e, s, reason) /\ ~(e.role = "master" /\ reason = "aborted") =>
       Has(r.deadlines, "ident")

LEMMA EndSessionIs ==
  ASSUME NEW s \in Stations, NEW N, Numbering(N), NEW e \in Engines(s, N), now \in Nat,
         NEW reason, NEW discHeard, discHeard \in {TRUE, FALSE}
  PROVE  Ended(s, N, e, reason, EndSession(e, s, reason, discHeard))
<1> DEFINE up   == e.state # "connecting"
           wasMaster == e.role = "master"
           owes == Owes(e, s, reason)
           left == IF up /\ (reason \in LeftUnheard \/ discHeard)
                   THEN [session |-> e.session, until |-> now + LinkTimeout,
                         discHeard |-> discHeard, wasSlave |-> e.role = "slave"]
                   ELSE NoLeft
           off  == [e EXCEPT !.state = "idle", !.role = "none"]
           c    == Disarm(off, "connect")
           i    == Disarm(c, "ident")
           idle == ResetSession(i)
           owed == IF owes THEN Ident[s] ELSE 0
           ended == [idle EXCEPT !.peerIdent = e.peerIdent, !.left = left, !.owed = owed]
           lis  == \/ ~wasMaster
                   \/ reason \in {"no response", "link timeout"}
           late == [ended EXCEPT !.alone = ~wasMaster, !.listen = lis]
           r    == EndSession(e, s, reason, discHeard)
<1>1. r = IF ~owes THEN ended ELSE PlaceIdentifier(late, reason, wasMaster)
  BY DEF EndSession, Owes
<1>2. left \in Lefts /\ owed \in Idents(s) /\ wasMaster \in BOOLEAN /\ lis \in BOOLEAN
  <2>1. e.session \in Nat
    BY DEF Engines, Numbering
  <2>2. left \in Lefts
    <3>1. discHeard \in BOOLEAN
      OBVIOUS
    <3> QED
      BY <2>1, <3>1, TimeAssumption DEF Lefts, NoLeft
  <2> QED
    BY <2>2 DEF Idents
<1>3. off \in Engines(s, N)
  BY DEF Engines, States, Roles
<1>4. /\ off.state = "idle" /\ off.role = "none" /\ off.session = e.session
      /\ off.remote = e.remote /\ off.tries = e.tries /\ off.repeats = e.repeats
      /\ off.hold = e.hold /\ off.out = e.out
  BY DEF Engines
<1> HIDE DEF left, off, c, i, idle, owed, lis, up, owes
<1>5. c \in Engines(s, N) /\ Rearmed(off, c)
  BY <1>3, DisarmIs DEF c
<1>6. i \in Engines(s, N) /\ Rearmed(c, i)
  BY <1>5, DisarmIs DEF i
<1>7. idle \in Engines(s, N) /\ SameCall(i, idle) /\ idle.slot = NoSlot
      /\ idle.silent = 0 /\ idle.discTries = 0
  BY <1>6, ResetSessionIs DEF idle
<1>8. /\ idle.state = "idle" /\ idle.role = "none" /\ idle.session = e.session
      /\ idle.remote = e.remote /\ idle.tries = e.tries /\ idle.repeats = e.repeats
      /\ idle.hold = e.hold /\ idle.out = e.out
  BY <1>4, <1>5, <1>6, <1>7 DEF SameCall, Rearmed, Same
<1>9. e.peerIdent \in Idents(Peer(s))
  BY DEF Engines
<1>10. ended \in Engines(s, N)
  BY <1>2, <1>7, <1>9 DEF Engines
<1>11. /\ ended.state = "idle" /\ ended.role = "none" /\ ended.session = e.session
       /\ ended.remote = e.remote /\ ended.tries = e.tries /\ ended.repeats = e.repeats
       /\ ended.hold = e.hold /\ ended.out = e.out /\ ended.slot = NoSlot
       /\ ended.left = left /\ ended.owed = owed
       /\ ended.silent = 0 /\ ended.discTries = 0
  BY <1>7, <1>8 DEF Engines
<1> HIDE DEF ended
<1>12. late \in Engines(s, N)
  <2>1. ASSUME NEW x \in Engines(s, N), NEW a \in BOOLEAN, NEW b \in BOOLEAN
        PROVE  [x EXCEPT !.alone = a, !.listen = b] \in Engines(s, N)
    BY DEF Engines
  <2>2. (~wasMaster) \in BOOLEAN
    OBVIOUS
  <2> HIDE DEF wasMaster
  <2> QED
    BY <1>2, <1>10, <2>1, <2>2
<1>13. /\ late.state = "idle" /\ late.role = "none" /\ late.session = e.session
       /\ late.remote = e.remote /\ late.tries = e.tries /\ late.repeats = e.repeats
       /\ late.hold = e.hold /\ late.out = e.out /\ late.slot = NoSlot
       /\ late.left = left /\ late.owed = owed /\ (late.alone <=> ~wasMaster)
       /\ late.silent = 0 /\ late.discTries = 0
  BY <1>10, <1>11 DEF Engines
<1> HIDE DEF late, r
<1>14. CASE ~owes
  BY <1>1, <1>10, <1>11, <1>14 DEF owed, r, owes, Ended
<1>15. CASE owes
  <2>1. r = PlaceIdentifier(late, reason, wasMaster)
    BY <1>1, <1>15
  <2>2. /\ r \in Engines(s, N) /\ Rearmed(late, r)
        /\ ~(wasMaster /\ reason = "aborted") => Has(r.deadlines, "ident")
    BY <1>2, <1>12, <2>1, PlaceIdentifierIs
  <2> QED
    BY <1>13, <1>15, <2>2 DEF Rearmed, Same, owed, r, owes, Ended
<1> QED
  BY <1>14, <1>15
-----------------------------------------------------------------------------
(* What every operation keeps: the role fits the state, the counters their *)
(* bounds, and each wait has its timer - but for t, the one being taken.   *)

Shape(N, e) ==
  /\ e.role # "none" <=> Up(e)
  /\ e.state = "connecting" /\ e.tries > 0 => e.session \in N.call /\ e.slot # NoSlot
  /\ e.state \in {"connecting", "connected"} => e.discTries = 0
  /\ e.silent <= MaxRetries
  /\ e.role = "slave" => e.session \in N.accept
  /\ e.role = "master" => e.session \in N.agreed

TimedBut(e, t) ==
  /\ e.state = "connecting" => t = "connect" \/ Has(e.deadlines, "connect")
  /\ Up(e) => t = "link" \/ Has(e.deadlines, "link")
  /\ e.role = "master" => t = "proceed" \/ Has(e.deadlines, "proceed")
  /\ e.state = "idle" /\ e.owed > 0 =>
       \/ t = "ident" \/ Has(e.deadlines, "ident")
       \/ ~e.alone /\ (t = "leave" \/ Has(e.deadlines, "leave"))

Sound(s, N, e, t) == e \in Engines(s, N) /\ Shape(N, e) /\ TimedBut(e, t)

\* It is to be, or is, the master.
Leading(e) == e.state = "connecting" \/ e.role = "master"

\* No operation but the call itself makes a station call, or call afresh, and
\* none but an acceptance of the other's call makes it a slave.
Keeps(e, r) ==
  /\ r.state = "connecting" => e.state = "connecting" /\ r.tries >= e.tries
  /\ Leading(r) => Leading(e) /\ r.session = e.session
  /\ r.role = "slave" => e.role = "slave" /\ r.session = e.session

LEMMA KeepsOn ==
  ASSUME NEW s, NEW N, NEW e \in Engines(s, N), NEW d \in Engines(s, N),
         NEW r \in Engines(s, N), Keeps(e, d), Keeps(d, r)
  PROVE  Keeps(e, r)
<1>1. e.tries \in Int /\ d.tries \in Int /\ r.tries \in Int
  BY DEF Engines
<1> QED
  BY <1>1 DEF Keeps, Leading

\* A station that is idle has no role, and one that ended goes on in nothing.
LEMMA IdleKeeps ==
  ASSUME NEW s, NEW N, NEW t, NEW r, Sound(s, N, r, t), r.state = "idle"
  PROVE  \A x : Keeps(x, r)
<1>1. r.role = "none"
  BY DEF Sound, Shape, Up
<1> QED
  BY <1>1 DEF Keeps, Leading

LEMMA KeepsIdle ==
  ASSUME NEW s, NEW N, NEW t, NEW e, Sound(s, N, e, t), e.state = "idle",
         NEW r, Keeps(e, r)
  PROVE  \A x : Keeps(x, r)
<1>1. e.role = "none"
  BY DEF Sound, Shape, Up
<1> QED
  BY <1>1 DEF Keeps, Leading

\* An operation that changes none of the fields and disarms no timer.
LEMMA SameIsSound ==
  ASSUME NEW s, NEW N, NEW t, NEW e, Sound(s, N, e, t), NEW r \in Engines(s, N),
         Same(e, r), e.state = "connecting" => r.slot # NoSlot \/ r.slot = e.slot,
         \A u \in {"connect", "link", "proceed", "ident", "leave"} :
           Has(e.deadlines, u) => Has(r.deadlines, u)
  PROVE  Sound(s, N, r, t) /\ Keeps(e, r)
<1>1. Shape(N, r)
  BY DEF Sound, Shape, Same, Up
<1>2. TimedBut(r, t)
  BY DEF Sound, TimedBut, Same, Up
<1>3. Keeps(e, r)
  <2>1. e.tries \in Int
    BY DEF Sound, Engines
  <2> QED
    BY <2>1 DEF Keeps, Leading, Same
<1> QED
  BY <1>1, <1>2, <1>3 DEF Sound

LEMMA DisarmIsSound ==
  ASSUME NEW s, NEW N, NEW e, Sound(s, N, e, "none"), NEW t
  PROVE  Sound(s, N, Disarm(e, t), t) /\ Rearmed(e, Disarm(e, t)) /\ Keeps(e, Disarm(e, t))
<1> DEFINE r == Disarm(e, t)
<1> HIDE DEF r
<1>0. e \in Engines(s, N) /\ Shape(N, e) /\ TimedBut(e, "none")
  BY DEF Sound
<1>1. r \in Engines(s, N) /\ Rearmed(e, r)
      /\ \A u : Has(r.deadlines, u) <=> u # t /\ Has(e.deadlines, u)
  BY <1>0, DisarmIs DEF r
<1>2. Shape(N, r)
  BY <1>0, <1>1 DEF Shape, Rearmed, Same, Up
<1>3. TimedBut(r, t)
  BY <1>0, <1>1 DEF TimedBut, Rearmed, Same, Up
<1>4. Keeps(e, r)
  <2>1. e.tries \in Int
    BY <1>0 DEF Engines
  <2> QED
    BY <1>1, <2>1 DEF Keeps, Leading, Rearmed, Same
<1> QED
  BY <1>1, <1>2, <1>3, <1>4 DEF Sound, r

\* A session that ended has its identifier placed, but for an aborted master's.
EndsWell(s, N, e, reason, r) ==
  /\ Sound(s, N, r, IF e.role = "master" /\ reason = "aborted" THEN "leave" ELSE "none")
  /\ r.state = "idle" /\ Keeps(e, r)

LEMMA EndedIsSound ==
  ASSUME NEW s \in Stations, NEW N, Numbering(N), NEW e \in Engines(s, N), now \in Nat,
         NEW reason
  PROVE  /\ EndsWell(s, N, e, reason, EndSession(e, s, reason, FALSE))
         /\ EndsWell(s, N, e, reason, EndSession(e, s, reason, TRUE))
<1>1. Ended(s, N, e, reason, EndSession(e, s, reason, FALSE))
  BY EndSessionIs
<1>2. Ended(s, N, e, reason, EndSession(e, s, reason, TRUE))
  BY EndSessionIs
<1>3. ASSUME NEW r, Ended(s, N, e, reason, r)
      PROVE  EndsWell(s, N, e, reason, r)
  <2>1. Shape(N, r)
    BY <1>3, CountAssumption DEF Ended, Shape, Up
  <2>2. r.owed > 0 => Owes(e, s, reason)
    BY <1>3 DEF Ended
  <2>3. TimedBut(r, IF e.role = "master" /\ reason = "aborted" THEN "leave" ELSE "none")
    BY <1>3, <2>2 DEF Ended, TimedBut, Up
  <2> QED
    BY <1>3, <2>1, <2>3 DEF Ended, EndsWell, Sound, Keeps, Leading
<1> QED
  BY <1>1, <1>2, <1>3
\* Arming the timer being taken, or any other.
LEMMA ArmIsSound ==
  ASSUME NEW s, NEW N, NEW e, NEW t, Sound(s, N, e, t), NEW u \in Timers, NEW due \in Nat
  PROVE  /\ Sound(s, N, Arm(e, u, due), IF u = t THEN "none" ELSE t)
         /\ Rearmed(e, Arm(e, u, due)) /\ Keeps(e, Arm(e, u, due))
         /\ Has(Arm(e, u, due).deadlines, u)
<1> DEFINE r == Arm(e, u, due)
<1> HIDE DEF r
<1>0. e \in Engines(s, N) /\ Shape(N, e) /\ TimedBut(e, t)
  BY DEF Sound
<1>1. r \in Engines(s, N) /\ Rearmed(e, r)
      /\ \A v : Has(r.deadlines, v) <=> v = u \/ Has(e.deadlines, v)
  BY <1>0, ArmIs DEF r
<1>2. Shape(N, r)
  BY <1>0, <1>1 DEF Shape, Rearmed, Same, Up
<1>3. TimedBut(r, t)
  BY <1>0, <1>1 DEF TimedBut, Rearmed, Same, Up
<1>4. u = t => TimedBut(r, "none")
  BY <1>1, <1>3 DEF TimedBut
<1>5. Keeps(e, r)
  <2>1. e.tries \in Int
    BY <1>0 DEF Engines
  <2> QED
    BY <1>1, <2>1 DEF Keeps, Leading, Rearmed, Same
<1> QED
  BY <1>1, <1>2, <1>3, <1>4, <1>5 DEF Sound, r

LEMMA SoundBut ==
  ASSUME NEW s, NEW N, NEW e, NEW t, Sound(s, N, e, "none")
  PROVE  Sound(s, N, e, t)
BY DEF Sound, TimedBut

LEMMA KeepsItself ==
  ASSUME NEW s, NEW N, NEW e \in Engines(s, N)
  PROVE  Keeps(e, e)
<1>1. e.tries \in Int
  BY DEF Engines
<1> QED
  BY <1>1 DEF Keeps, Leading

LEMMA Later ==
  ASSUME NEW a \in Nat, NEW b \in Nat
  PROVE  Max2(a, b) \in Nat /\ Max2(a, b) >= a /\ Max2(a, b) >= b
BY DEF Max2

\* The holds of an engine and the clock are times.
LEMMA HoldNat ==
  ASSUME NEW s, NEW N, NEW e \in Engines(s, N)
  PROVE  e.hold \in Nat
BY DEF Engines

LEMMA EndUnreadIsSound ==
  ASSUME NEW s \in Stations, NEW N, Numbering(N), NEW e \in Engines(s, N), now \in Nat,
         NEW reason, reason # "aborted"
  PROVE  LET r == EndUnread(e, s, reason)
         IN  Sound(s, N, r, "none") /\ Keeps(e, r) /\ r.state = "idle"
<1> DEFINE d == EndSession(e, s, reason, FALSE)
           r == [d EXCEPT !.listen = TRUE]
<1>1. Sound(s, N, d, "none") /\ Keeps(e, d) /\ d.state = "idle"
  BY EndedIsSound DEF EndsWell
<1>2. EndUnread(e, s, reason) = IF d.owed > 0 THEN r ELSE d
  BY DEF EndUnread
<1> HIDE DEF d
<1>3. r \in Engines(s, N) /\ Same(d, r) /\ r.slot = d.slot /\ r.deadlines = d.deadlines
  BY <1>1 DEF Sound, Engines, Same
<1> HIDE DEF r
<1>4. Sound(s, N, r, "none") /\ r.state = "idle"
  BY <1>1, <1>3, SameIsSound DEF Same
<1>5. Keeps(e, r)
  BY <1>4, IdleKeeps
<1> QED
  BY <1>1, <1>2, <1>4, <1>5

LEMMA IdentifyIsSound ==
  ASSUME NEW s, NEW N, NEW e, Sound(s, N, e, "leave"), now \in Nat
  PROVE  LET r == IdentifyAfterLeaving(e)
         IN  Sound(s, N, r, "none") /\ Keeps(e, r) /\ r.state = e.state
<1>0. e \in Engines(s, N) /\ e.hold \in Nat
  BY HoldNat DEF Sound
<1> DEFINE at == Max2(now, e.hold)
           r == Arm(e, "ident", at)
<1>1. at \in Nat
  BY <1>0, Later
<1>2. IdentifyAfterLeaving(e) = IF e.owed > 0 /\ ~e.alone /\ e.state = "idle" THEN r ELSE e
  BY DEF IdentifyAfterLeaving
<1> HIDE DEF at, r
<1>3. CASE e.owed > 0 /\ ~e.alone /\ e.state = "idle"
  <2>1. Sound(s, N, r, "leave") /\ Rearmed(e, r) /\ Keeps(e, r) /\ Has(r.deadlines, "ident")
    BY <1>1, IdentTimer, ArmIsSound DEF r
  <2>2. TimedBut(r, "none")
    BY <2>1 DEF Sound, TimedBut
  <2> QED
    BY <1>2, <1>3, <2>1, <2>2 DEF Sound, Rearmed, Same
<1>4. CASE ~(e.owed > 0 /\ ~e.alone /\ e.state = "idle")
  <2>1. TimedBut(e, "none")
    BY <1>4 DEF Sound, TimedBut
  <2> QED
    BY <1>0, <1>2, <1>4, <2>1, KeepsItself DEF Sound
<1> QED
  BY <1>3, <1>4

LEMMA OweAgainIsSound ==
  ASSUME NEW s \in Stations, NEW N, NEW e, NEW t, Sound(s, N, e, t), now \in Nat,
         NEW ident \in Idents(s)
  PROVE  LET r == OweAgain(e, ident)
         IN  Sound(s, N, r, t) /\ Keeps(e, r)
<1> DEFINE d == [e EXCEPT !.owed = ident, !.alone = TRUE, !.listen = TRUE]
           at == now + Exchange
           r == Arm(d, "ident", at)
<1>0. e \in Engines(s, N) /\ at \in Nat
  BY TimeAssumption DEF Sound
<1>1. OweAgain(e, ident) = IF ident = 0 \/ e.state # "idle" \/ e.owed > 0 THEN e ELSE r
  BY DEF OweAgain
<1>2. CASE ident = 0 \/ e.state # "idle" \/ e.owed > 0
  BY <1>0, <1>1, <1>2, KeepsItself
<1>3. CASE ~(ident = 0 \/ e.state # "idle" \/ e.owed > 0)
  <2>1. d \in Engines(s, N)
    BY <1>0 DEF Engines
  <2>2. /\ d.state = e.state /\ d.role = e.role /\ d.session = e.session /\ d.tries = e.tries
        /\ d.slot = e.slot /\ d.discTries = e.discTries /\ d.silent = e.silent
        /\ d.deadlines = e.deadlines
    BY <1>0 DEF Engines
  <2> HIDE DEF d, at
  <2>4. r \in Engines(s, N) /\ Rearmed(d, r)
        /\ \A u : Has(r.deadlines, u) <=> u = "ident" \/ Has(d.deadlines, u)
    BY <1>0, <2>1, IdentTimer, ArmIs
  <2> HIDE DEF r
  <2>5. Shape(N, r)
    BY <2>2, <2>4 DEF Sound, Shape, Rearmed, Same, Up
  <2>6. TimedBut(r, t)
    BY <2>2, <2>4 DEF Sound, TimedBut, Rearmed, Same, Up
  <2> QED
    BY <1>1, <1>3, <2>2, <2>4, <2>5, <2>6 DEF Sound, Keeps, Leading, Rearmed, Same
<1> QED
  BY <1>2, <1>3
LEMMA SendIdentifierIsSound ==
  ASSUME NEW s \in Stations, NEW N, NEW e, Sound(s, N, e, "ident"), now \in Nat
  PROVE  LET r == SendIdentifier(e)
         IN  Sound(s, N, r, "none") /\ Keeps(e, r)
<1> DEFINE idle == ~(\/ e.owed = 0
                     \/ e.state # "idle" /\ ~(e.state = "connecting" /\ e.tries = 0))
           tx   == AtOnce(NoMessage, e.owed, e.listen, FALSE)
           sent == Hand(e, tx)
           end  == Max2(e.hold, now + e.owed)
           r    == [sent EXCEPT !.owed = 0, !.hold = end]
           wait == Arm(e, "ident", e.hold)
<1>0. e \in Engines(s, N) /\ e.hold \in Nat /\ e.owed \in Idents(s) /\ e.listen \in BOOLEAN
  BY DEF Sound, Engines
<1>1. SendIdentifier(e) = IF ~idle THEN e ELSE IF now < e.hold THEN wait
                          ELSE [sent EXCEPT !.owed = 0, !.hold = Max2(@, now + e.owed)]
  BY DEF SendIdentifier
<1>2. e.owed \in Nat
  BY <1>0, IdentNat
<1>3. tx \in Transmissions(s, N) /\ Latest(N, tx.msg)
  <2>1. tx.msg.kind # "call"
    BY DEF AtOnce, NoMessage, Message
  <2> QED
    BY <1>0, <2>1, NoMessageType, AtOnceType DEF Latest
<1> HIDE DEF tx
<1>4. sent \in Engines(s, N) /\ Same(e, sent) /\ sent.slot = e.slot /\ sent.hold = e.hold
      /\ sent.deadlines = e.deadlines
  BY <1>0, <1>3, HandIs
<1> HIDE DEF sent
<1>5. SendIdentifier(e) = IF ~idle THEN e ELSE IF now < e.hold THEN wait ELSE r
  BY <1>1, <1>4
<1>6. end \in Nat
  <2>1. now + e.owed \in Nat
    BY <1>2
  <2> QED
    BY <1>0, <2>1, Later
<1> HIDE DEF wait, end
<1>7. CASE ~idle
  <2>1. TimedBut(e, "none")
    BY <1>7 DEF Sound, TimedBut
  <2> QED
    BY <1>0, <1>5, <1>7, <2>1, KeepsItself DEF Sound
<1>8. CASE idle /\ now < e.hold
  <2>1. Sound(s, N, wait, "none") /\ Keeps(e, wait)
    BY <1>0, IdentTimer, ArmIsSound DEF wait
  <2> QED
    BY <1>5, <1>8, <2>1
<1>9. CASE idle /\ ~(now < e.hold)
  <2>1. r \in Engines(s, N)
    BY <1>4, <1>6 DEF Engines, Idents
  <2>2. /\ r.state = e.state /\ r.role = e.role /\ r.session = e.session /\ r.tries = e.tries
        /\ r.slot = e.slot /\ r.discTries = e.discTries /\ r.silent = e.silent
        /\ r.deadlines = e.deadlines /\ r.owed = 0
    BY <1>4 DEF Engines, Same
  <2> HIDE DEF r, idle
  <2>3. Shape(N, r)
    BY <2>2 DEF Sound, Shape, Up
  <2>4. TimedBut(r, "none")
    BY <2>2 DEF Sound, TimedBut, Up
  <2>5. Keeps(e, r)
    BY <1>0, <2>2, KeepsItself DEF Keeps, Leading
  <2> QED
    BY <1>5, <1>9, <2>1, <2>3, <2>4, <2>5 DEF Sound
<1> QED
  BY <1>7, <1>8, <1>9

\* What a frame of the other station is made of.
LEMMA FrameParts ==
  ASSUME NEW s, NEW M, NEW f \in Frames(s, M)
  PROVE  /\ f.msg \in Messages(s, M) /\ f.start \in Nat /\ f.end \in Nat
         /\ f.msg.session \in Nat /\ f.msg.ident \in Idents(s)
         /\ SlotStart(f.end) \in Nat
BY TimeAssumption DEF Frames, Messages, SlotStart

LEMMA AnswerDiscIsSound ==
  ASSUME NEW s \in Stations, NEW N, NEW e, NEW t, Sound(s, N, e, t), now \in Nat,
         NEW M, NEW f \in Frames(Peer(s), M), NEW kind \in {"ack", "disc"}
  PROVE  LET r == AnswerDisc(e, s, f, kind)
         IN  Sound(s, N, r, t) /\ Keeps(e, r)
<1> DEFINE start == SlotStart(f.end)
           ident == IF kind = "ack" THEN Ident[s] ELSE 0
           msg   == Message(kind, f.msg.session, Peer(s), FALSE, 0)
           sent  == AnswerIn(e, msg, ident, start)
           hold  == Max2(sent.hold, ClosingHold(e, s, start))
           free  == [sent EXCEPT !.owed = 0, !.hold = hold]
           r     == Disarm(free, "ident")
<1>0. e \in Engines(s, N) /\ e.hold \in Nat /\ e.peerIdent \in Idents(Peer(s))
  BY DEF Sound, Engines
<1>1. AnswerDisc(e, s, f, kind) = IF TooLate(start) \/ ident = 0 THEN sent ELSE r
  <2>1. AnswerIn(e, msg, ident, start) =
          IF TooLate(start) THEN e ELSE [e EXCEPT !.out = Append(@, InItsSlot(msg, ident, start))]
    BY DEF AnswerIn, Hand
  <2> QED
    BY <1>0, <2>1 DEF AnswerDisc, Engines
<1>2. start \in Nat /\ ident \in Idents(s) /\ msg \in Messages(s, N) /\ msg.kind # "call"
  <2>1. f.msg.session \in Nat /\ start \in Nat
    BY FrameParts
  <2>2. Peer(s) \in Stations
    BY PeerType
  <2>3. msg \in Messages(s, N) /\ msg.kind # "call"
    BY <2>1, <2>2 DEF Message, Messages, Kinds, Idents
  <2> QED
    BY <2>1, <2>3 DEF Idents
<1> HIDE DEF start, ident, msg
<1>3. sent \in Engines(s, N) /\ Same(e, sent) /\ sent.slot = e.slot /\ sent.hold = e.hold
      /\ sent.deadlines = e.deadlines
  BY <1>0, <1>2, AnswerInIs
<1> HIDE DEF sent
<1>4. Sound(s, N, sent, t) /\ Keeps(e, sent)
  BY <1>3, SameIsSound
<1>5. hold \in Nat
  <2>1. e.peerIdent \in Nat /\ Ident[s] \in Nat
    BY <1>0, IdentNat, PeerType, TimeAssumption
  <2>2. ClosingHold(e, s, start) \in Nat
    BY <1>2, <2>1, TimeAssumption DEF ClosingHold
  <2> QED
    BY <1>0, <1>3, <2>2, Later
<1> HIDE DEF hold
<1>6. free \in Engines(s, N)
  BY <1>3, <1>5 DEF Engines, Idents
<1>7. /\ free.state = e.state /\ free.role = e.role /\ free.session = e.session
      /\ free.tries = e.tries /\ free.slot = e.slot /\ free.discTries = e.discTries
      /\ free.silent = e.silent /\ free.deadlines = e.deadlines /\ free.owed = 0
  BY <1>3 DEF Engines, Same
<1> HIDE DEF free
<1>8. r \in Engines(s, N) /\ Rearmed(free, r)
      /\ \A u : Has(r.deadlines, u) <=> u # "ident" /\ Has(free.deadlines, u)
  BY <1>6, DisarmIs
<1> HIDE DEF r
<1>9. Shape(N, r)
  BY <1>7, <1>8 DEF Sound, Shape, Rearmed, Same, Up
<1>10. TimedBut(r, t)
  BY <1>7, <1>8 DEF Sound, TimedBut, Rearmed, Same, Up
<1>11. Keeps(e, r)
  BY <1>0, <1>7, <1>8, KeepsItself DEF Keeps, Leading, Rearmed, Same
<1> QED
  BY <1>1, <1>4, <1>8, <1>9, <1>10, <1>11 DEF Sound
\* A call not sent yet.
Fresh(e) == e.state = "connecting" /\ e.tries = 0

\* A call goes out under a number the station may call with: its latest.
MayCall(N, e) ==
  e.state = "connecting" =>
    e.session \in N.call /\ \A m \in N.call \cup N.sent : m <= e.session

LEMMA SendConnectIs ==
  ASSUME NEW s \in Stations, NEW N, Numbering(N), NEW e \in Engines(s, N), now \in Nat,
         e.state = "connecting", e.role = "none", e.discTries = 0, e.silent <= MaxRetries,
         e.tries < ConnectRetries, NEW jitter \in Nat, MayCall(N, e)
  PROVE  LET r == SendConnect(e, s, jitter)
         IN  /\ Sound(s, N, r, "none") /\ Keeps(e, r)
             /\ r.state = "connecting" /\ r.session = e.session /\ r.tries = e.tries + 1
<1> DEFINE d == [e EXCEPT !.tries = @ + 1, !.jitter = jitter]
           msg == Message("call", e.session, e.remote, FALSE, Ident[s])
           r == KeyGranting(d, "connect", Frame, msg)
<1>0. /\ e.session \in Nat /\ e.remote \in Stations \cup {Other} /\ e.tries \in Nat
      /\ Frame \in Nat /\ "connect" \in SlotKinds
  <2>1. e.tries \in 0 .. ConnectRetries
    BY DEF Engines
  <2>2. e.session \in Nat /\ e.remote \in Stations \cup {Other}
    BY DEF Engines, Numbering
  <2> QED
    BY <2>1, <2>2, TimeAssumption, CountAssumption DEF SlotKinds
<1>1. msg \in Messages(s, N) /\ Latest(N, msg) /\ e.session \in N.call
  BY <1>0 DEF Message, Messages, Kinds, Idents, Latest, MayCall
<1>2. d \in Engines(s, N) /\ d.tries = e.tries + 1
  <2>1. e.tries + 1 \in 0 .. ConnectRetries
    BY <1>0, CountAssumption
  <2> QED
    BY <2>1, ZenonT(60) DEF Engines
<1>3. /\ d.state = e.state /\ d.role = e.role /\ d.session = e.session
      /\ d.discTries = e.discTries /\ d.silent = e.silent /\ d.deadlines = e.deadlines
  BY DEF Engines
<1>4. SendConnect(e, s, jitter) = r
  BY DEF SendConnect
<1> HIDE DEF d, msg
<1>5. /\ r \in Engines(s, N) /\ Same(d, r) /\ r.slot \in Granted
      /\ d.state = "connecting" => Has(r.deadlines, "connect")
  BY <1>0, <1>1, <1>2, KeyGrantingIs, ZenonT(60)
<1>6. r.slot # NoSlot
  BY <1>5, SlotNotNone
<1> HIDE DEF r
<1>7. Shape(N, r)
  BY <1>1, <1>3, <1>5, <1>6 DEF Shape, Same, Up
<1>8. TimedBut(r, "none")
  BY <1>3, <1>5 DEF TimedBut, Same, Up
<1>9. Keeps(e, r)
  BY <1>0, <1>2, <1>3, <1>5 DEF Keeps, Leading, Same
<1> QED
  BY <1>2, <1>3, <1>4, <1>5, <1>7, <1>8, <1>9 DEF Sound, Same

LEMMA RetryConnectIsSound ==
  ASSUME NEW s \in Stations, NEW N, Numbering(N), NEW e, Sound(s, N, e, "connect"),
         MayCall(N, e), now \in Nat, NEW jitter \in Nat
  PROVE  LET r == RetryConnect(e, s, jitter)
         IN  Sound(s, N, r, "none") /\ Keeps(e, r) /\ ~Fresh(r)
<1> DEFINE r == RetryConnect(e, s, jitter)
           sent == SendConnect(e, s, jitter)
           ended == EndSession(e, s, "no answer", FALSE)
<1>0. e \in Engines(s, N) /\ Shape(N, e) /\ TimedBut(e, "connect")
  BY DEF Sound
<1>1. r = IF e.state # "connecting" THEN e
          ELSE IF e.tries >= ConnectRetries THEN ended ELSE sent
  BY DEF RetryConnect
<1> HIDE DEF r, sent, ended
<1>2. CASE e.state # "connecting"
  <2>1. TimedBut(e, "none")
    BY <1>0, <1>2 DEF TimedBut
  <2> QED
    BY <1>0, <1>1, <1>2, <2>1, KeepsItself DEF Sound, Fresh, r
<1>3. CASE e.state = "connecting" /\ e.tries >= ConnectRetries
  <2>1. EndsWell(s, N, e, "no answer", ended)
    BY <1>0, EndedIsSound DEF ended
  <2> QED
    BY <1>1, <1>3, <2>1 DEF EndsWell, Fresh, r
<1>4. CASE e.state = "connecting" /\ ~(e.tries >= ConnectRetries)
  <2>1. /\ e.tries \in Nat /\ e.tries < ConnectRetries /\ e.silent <= MaxRetries
        /\ e.discTries = 0 /\ e.role = "none"
    <3>1. e.tries \in 0 .. ConnectRetries
      BY <1>0 DEF Engines
    <3> QED
      BY <1>0, <1>4, <3>1, CountAssumption DEF Shape, Up
  <2>2. Sound(s, N, sent, "none") /\ Keeps(e, sent) /\ sent.tries = e.tries + 1
    BY <1>0, <1>4, <2>1, SendConnectIs DEF sent
  <2> QED
    BY <1>1, <1>4, <2>1, <2>2 DEF r, Fresh
<1> QED
  BY <1>2, <1>3, <1>4

\* A call is placed, and sent at once unless something is waited for.
Placed(e, remote, number) ==
  LET owing == IF e.owed = 0 THEN e
               ELSE IF remote = e.remote THEN DropIdentifier(e)
               ELSE Arm(e, "ident", Max2(now, e.hold))
  IN  ResetSession(Disarm(
        [owing EXCEPT !.remote = remote, !.session = number, !.state = "connecting",
                      !.role = "none", !.tries = 0, !.left = NoLeft], "leave"))

Sends(e, remote, number) ==
  LET call == Placed(e, remote, number)
  IN  now >= call.hold /\ ~Armed(call, "ident")

LEMMA ConnectIsSound ==
  ASSUME NEW s \in Stations, NEW N, Numbering(N), NEW e, Sound(s, N, e, "none"),
         e.state = "idle", now \in Nat, NEW jitter \in Nat,
         NEW remote \in Stations \cup {Other}, NEW number \in N.own,
         \/ ~Sends(e, remote, number)
         \/ number \in N.call /\ \A m \in N.call \cup N.sent : m <= number
  PROVE  LET r == Connect(e, s, remote, number, jitter)
         IN  /\ Sound(s, N, r, "none") /\ r.state = "connecting" /\ r.session = number
             /\ Fresh(r) <=> ~Sends(e, remote, number)
<1> DEFINE drop  == DropIdentifier(e)
           at    == Max2(now, e.hold)
           late  == Arm(e, "ident", at)
           owing == IF e.owed = 0 THEN e ELSE IF remote = e.remote THEN drop ELSE late
           begun == [owing EXCEPT !.remote = remote, !.session = number,
                                  !.state = "connecting", !.role = "none", !.tries = 0,
                                  !.left = NoLeft]
           quiet == Disarm(begun, "leave")
           call  == ResetSession(quiet)
           sent  == SendConnect(call, s, jitter)
           wait  == Arm(call, "connect", call.hold)
           r     == Connect(e, s, remote, number, jitter)
<1>0. e \in Engines(s, N) /\ e.hold \in Nat
  BY HoldNat DEF Sound
<1>1. call = Placed(e, remote, number)
  BY DEF Placed
<1>a. r = IF Sends(e, remote, number) THEN sent ELSE wait
  BY DEF Connect, Placed, Sends
<1>2. owing \in Engines(s, N)
  <2>1. drop \in Engines(s, N)
    BY <1>0, DropIdentifierIs
  <2>2. at \in Nat
    BY <1>0, Later
  <2> HIDE DEF at
  <2>3. late \in Engines(s, N)
    BY <1>0, <2>2, IdentTimer, ArmIs
  <2> QED
    BY <1>0, <2>1, <2>3
<1> HIDE DEF owing
<1>3. begun \in Engines(s, N)
  <2>1. NoLeft \in Lefts /\ 0 \in 0 .. ConnectRetries
    BY CountAssumption DEF NoLeft, Lefts
  <2> QED
    BY <1>2, <2>1 DEF Engines, States, Roles
<1>4. begun.state = "connecting" /\ begun.role = "none" /\ begun.session = number
      /\ begun.tries = 0
  BY <1>2 DEF Engines
<1> HIDE DEF begun
<1>5. quiet \in Engines(s, N) /\ Rearmed(begun, quiet)
  BY <1>3, DisarmIs
<1> HIDE DEF quiet
<1>6. call \in Engines(s, N) /\ SameCall(quiet, call) /\ call.silent = 0
      /\ call.discTries = 0
  BY <1>5, ResetSessionIs
<1> HIDE DEF call
<1>7. /\ call.state = "connecting" /\ call.role = "none" /\ call.session = number
      /\ call.tries = 0 /\ call.hold \in Nat
  BY <1>4, <1>5, <1>6, HoldNat DEF Rearmed, Same, SameCall
<1> HIDE DEF sent, wait, r
<1>8. CASE Sends(e, remote, number)
  <2>1. call.discTries = 0 /\ call.silent <= MaxRetries /\ call.tries < ConnectRetries
        /\ MayCall(N, call)
    BY <1>6, <1>7, <1>8, CountAssumption DEF MayCall
  <2>2. Sound(s, N, sent, "none") /\ sent.state = "connecting" /\ sent.session = call.session
        /\ sent.tries = call.tries + 1
    BY <1>6, <1>7, <2>1, SendConnectIs DEF sent
  <2> QED
    BY <1>7, <1>8, <1>a, <2>2 DEF Fresh, r
<1>9. CASE ~Sends(e, remote, number)
  <2>1. wait \in Engines(s, N) /\ Rearmed(call, wait) /\ Has(wait.deadlines, "connect")
    BY <1>6, <1>7, ConnectTimer, ArmIs, ZenonT(60) DEF wait
  <2>2. Shape(N, wait)
    BY <1>6, <1>7, <2>1, CountAssumption DEF Shape, Rearmed, Same, Up
  <2>3. TimedBut(wait, "none")
    BY <1>7, <2>1 DEF TimedBut, Rearmed, Same, Up
  <2> QED
    BY <1>7, <1>9, <1>a, <2>1, <2>2, <2>3 DEF Sound, Rearmed, Same, Fresh, r
<1> QED
  BY <1>8, <1>9
\* More sessions accepted, or to call with; no more calls sent.
Within(N, M) ==
  /\ N.own \subseteq M.own /\ N.call \subseteq M.call /\ M.sent \subseteq N.sent
  /\ N.accept \subseteq M.accept /\ N.agreed \subseteq M.agreed

LEMMA MessagesGrow ==
  ASSUME NEW s, NEW N, NEW M, N.call \subseteq M.call, N.accept \subseteq M.accept
  PROVE  Messages(s, N) \subseteq Messages(s, M)
BY DEF Messages

LEMMA FramesGrow ==
  ASSUME NEW s, NEW N, NEW M, N.call \subseteq M.call, N.accept \subseteq M.accept
  PROVE  Frames(s, N) \subseteq Frames(s, M)
<1>1. Messages(s, N) \subseteq Messages(s, M)
  BY MessagesGrow
<1> QED
  BY <1>1 DEF Frames

LEMMA QueuesGrow ==
  ASSUME NEW s, NEW N, NEW M, Within(N, M)
  PROVE  Queues(s, N) \subseteq Queues(s, M)
<1>1. Transmissions(s, N) \subseteq Transmissions(s, M)
  <2>1. Messages(s, N) \subseteq Messages(s, M)
    BY MessagesGrow DEF Within
  <2> QED
    BY <2>1 DEF Transmissions
<1>2. Seq(Transmissions(s, N)) \subseteq Seq(Transmissions(s, M))
  BY <1>1
<1>3. ASSUME NEW q, AfterSent(N, q)
      PROVE  AfterSent(M, q)
  BY <1>3 DEF AfterSent, Within
<1> QED
  BY <1>2, <1>3 DEF Queues

LEMMA SoundGrows ==
  ASSUME NEW s, NEW N, NEW M, Within(N, M), NEW e, NEW t, Sound(s, N, e, t)
  PROVE  Sound(s, M, e, t)
<1>1. Queues(s, N) \subseteq Queues(s, M)
  BY QueuesGrow
<1>2. e \in Engines(s, M)
  <2>1. e.out \in Queues(s, M) /\ e.session \in {0} \cup M.own
    BY <1>1 DEF Sound, Engines, Within
  <2>2. e = [e EXCEPT !.out = e.out, !.session = e.session]
    BY DEF Sound, Engines
  <2> QED
    BY <2>1, <2>2 DEF Sound, Engines
<1>3. Shape(N, e) => Shape(M, e)
  BY DEF Shape, Within
<1> QED
  BY <1>2, <1>3 DEF Sound

\* An acceptance, of a session that the other station has called with.
LEMMA ScheduleAcceptanceIsSound ==
  ASSUME NEW s \in Stations, NEW N, Numbering(N), NEW e, NEW t, Sound(s, N, e, t),
         e.session \in N.accept, NEW M, NEW f \in Frames(Peer(s), M)
  PROVE  LET r == ScheduleAcceptance(e, s, f)
         IN  Sound(s, N, r, t) /\ Keeps(e, r) /\ Same(e, r)
<1> DEFINE msg == Message("accept", e.session, Peer(s), FALSE, Ident[s])
           start == SlotStart(f.end)
           r == AnswerIn(e, msg, 0, start)
<1>0. e \in Engines(s, N) /\ start \in Nat /\ 0 \in Idents(s)
  BY FrameParts DEF Sound, Idents
<1>1. msg \in Messages(s, N) /\ msg.kind # "call"
  <2>1. Peer(s) \in Stations /\ e.session \in Nat
    BY PeerType DEF Numbering
  <2> QED
    BY <2>1 DEF Message, Messages, Kinds, Idents
<1>2. ScheduleAcceptance(e, s, f) = r
  BY DEF ScheduleAcceptance
<1> HIDE DEF msg, start
<1>3. r \in Engines(s, N) /\ Same(e, r) /\ r.slot = e.slot /\ r.deadlines = e.deadlines
  BY <1>0, <1>1, AnswerInIs
<1> HIDE DEF r
<1> QED
  BY <1>2, <1>3, SameIsSound

LEMMA AcceptCallIsSound ==
  ASSUME NEW s \in Stations, NEW N, Numbering(N), NEW e \in Engines(s, N), now \in Nat,
         NEW M, NEW f \in Frames(Peer(s), M), f.msg.session \in N.accept
  PROVE  LET r == AcceptCall(e, s, f)
         IN  /\ Sound(s, N, r, "none") /\ r.state = "connected" /\ r.role = "slave"
             /\ r.session = f.msg.session
<1> DEFINE drop  == DropIdentifier(e)
           begun == [drop EXCEPT !.remote = Peer(s), !.session = f.msg.session,
                                 !.left = NoLeft]
           quiet == Disarm(begun, "leave")
           clear == ResetSession(quiet)
           slave == [clear EXCEPT !.peerIdent = f.msg.ident, !.state = "connected",
                                  !.role = "slave"]
           heard == Heard(slave)
           r     == ScheduleAcceptance(heard, s, f)
<1>1. AcceptCall(e, s, f) = r
  BY DEF AcceptCall
<1>2. /\ f.msg.session \in N.own /\ f.msg.ident \in Idents(Peer(s))
      /\ Peer(s) \in Stations /\ NoLeft \in Lefts
  BY FrameParts, PeerType DEF Numbering, NoLeft, Lefts
<1>3. drop \in Engines(s, N)
  BY DropIdentifierIs
<1> HIDE DEF drop
<1>4. begun \in Engines(s, N) /\ begun.session = f.msg.session
  BY <1>2, <1>3 DEF Engines
<1> HIDE DEF begun
<1>5. quiet \in Engines(s, N) /\ Rearmed(begun, quiet)
  BY <1>4, DisarmIs
<1> HIDE DEF quiet
<1>6. clear \in Engines(s, N) /\ SameCall(quiet, clear) /\ clear.silent = 0
      /\ clear.discTries = 0
  BY <1>5, ResetSessionIs
<1> HIDE DEF clear
<1>7. clear.session = f.msg.session
  BY <1>4, <1>5, <1>6 DEF Rearmed, Same, SameCall
<1>8. slave \in Engines(s, N)
  BY <1>2, <1>6 DEF Engines, States, Roles
<1>9. /\ slave.state = "connected" /\ slave.role = "slave" /\ slave.silent = 0
      /\ slave.discTries = 0 /\ slave.session = f.msg.session
  BY <1>6, <1>7 DEF Engines
<1> HIDE DEF slave
<1>10. heard \in Engines(s, N) /\ Rearmed(slave, heard) /\ Has(heard.deadlines, "link")
  BY <1>8, HeardIs
<1> HIDE DEF heard
<1>11. Shape(N, heard)
  BY <1>9, <1>10, CountAssumption DEF Shape, Rearmed, Same, Up
<1>12. TimedBut(heard, "none")
  BY <1>9, <1>10 DEF TimedBut, Rearmed, Same, Up
<1>13. Sound(s, N, heard, "none") /\ heard.session = f.msg.session
       /\ heard.state = "connected" /\ heard.role = "slave"
  BY <1>9, <1>10, <1>11, <1>12 DEF Sound, Rearmed, Same
<1>14. Sound(s, N, r, "none") /\ Same(heard, r)
  BY <1>13, ScheduleAcceptanceIsSound
<1> QED
  BY <1>1, <1>13, <1>14 DEF Same

LEMMA HeardIsSound ==
  ASSUME NEW s, NEW N, NEW e, NEW t, Sound(s, N, e, t), now \in Nat
  PROVE  /\ Sound(s, N, Heard(e), t) /\ Rearmed(e, Heard(e)) /\ Keeps(e, Heard(e))
         /\ Has(Heard(e).deadlines, "link")
<1> DEFINE r == Heard(e)
<1> HIDE DEF r
<1>0. e \in Engines(s, N)
  BY DEF Sound
<1>1. r \in Engines(s, N) /\ Rearmed(e, r)
      /\ \A u : Has(r.deadlines, u) <=> u = "link" \/ Has(e.deadlines, u)
  BY <1>0, HeardIs DEF r
<1>2. Same(e, r) /\ r.slot = e.slot
  BY <1>1 DEF Rearmed
<1>3. Sound(s, N, r, t) /\ Keeps(e, r)
  BY <1>1, <1>2, SameIsSound
<1> QED
  BY <1>1, <1>3 DEF r

\* Called again under this session's number, a slave accepts it again.
LEMMA CalledAgainIsSound ==
  ASSUME NEW s \in Stations, NEW N, Numbering(N), NEW e, Sound(s, N, e, "none"), Up(e),
         now \in Nat, NEW M, NEW f \in Frames(Peer(s), M)
  PROVE  LET r == CalledAgain(e, s, f).e
         IN  Sound(s, N, r, "none") /\ Keeps(e, r)
<1> DEFINE ended == EndSession(e, s, "called again", FALSE)
           heard == Heard(e)
           again == ScheduleAcceptance(heard, s, f)
           r == CalledAgain(e, s, f).e
<1>0. e \in Engines(s, N)
  BY DEF Sound
<1>1. r = IF f.msg.session # e.session THEN ended
          ELSE IF e.role = "slave" /\ ~e.reached THEN again ELSE e
  BY DEF CalledAgain
<1> HIDE DEF ended, again, r
<1>2. CASE f.msg.session # e.session
  <2>1. EndsWell(s, N, e, "called again", ended)
    BY <1>0, EndedIsSound DEF ended
  <2> QED
    BY <1>1, <1>2, <2>1 DEF EndsWell, r
<1>3. CASE f.msg.session = e.session /\ (e.role = "slave" /\ ~e.reached)
  <2>1. Sound(s, N, heard, "none") /\ Rearmed(e, heard) /\ Keeps(e, heard)
    BY HeardIsSound
  <2>2. heard.session \in N.accept
    BY <1>3, <2>1 DEF Rearmed, Same, Sound, Shape
  <2> HIDE DEF heard
  <2>3. Sound(s, N, again, "none") /\ Keeps(heard, again)
    BY <2>1, <2>2, ScheduleAcceptanceIsSound DEF again
  <2>4. heard \in Engines(s, N) /\ again \in Engines(s, N)
    BY <2>1, <2>3 DEF Sound
  <2> QED
    BY <1>0, <1>1, <1>3, <2>1, <2>3, <2>4, KeepsOn DEF r
<1>4. CASE f.msg.session = e.session /\ ~(e.role = "slave" /\ ~e.reached)
  BY <1>0, <1>1, <1>4, KeepsItself DEF r
<1> QED
  BY <1>2, <1>3, <1>4

\* L has the session of the call that is read, N need not.
Taken(s, L, f, r) ==
  /\ Sound(s, L, r, "none") /\ r.state = "connected" /\ r.role = "slave"
  /\ r.session = f.msg.session

LEMMA OnRequestIsSound ==
  ASSUME NEW s \in Stations, NEW N, Numbering(N), NEW L, Numbering(L), Within(N, L),
         NEW e, Sound(s, N, e, "none"), now \in Nat,
         NEW M, NEW f \in Frames(Peer(s), M), f.msg.session \in L.accept
  PROVE  LET r == OnRequest(e, s, f)
         IN  \/ Sound(s, N, r, "none") /\ Keeps(e, r)
             \/ Taken(s, L, f, r)
<1> DEFINE again == IF Up(e) THEN CalledAgain(e, s, f) ELSE [e |-> e, answer |-> TRUE]
           d == again.e
           free == Disarm(d, "connect")
           taken == AcceptCall(free, s, f)
           r == OnRequest(e, s, f)
<1>0. e \in Engines(s, N)
  BY DEF Sound
<1>1. r \in {e, d, taken}
  BY DEF OnRequest
<1>2. Sound(s, N, d, "none") /\ Keeps(e, d)
  <2>1. CASE Up(e)
    BY <2>1, CalledAgainIsSound
  <2>2. CASE ~Up(e)
    BY <1>0, <2>2, KeepsItself
  <2> QED
    BY <2>1, <2>2
<1> HIDE DEF again, d
<1>3. free \in Engines(s, L)
  <2>1. Sound(s, N, free, "connect")
    BY <1>2, DisarmIsSound
  <2> HIDE DEF free
  <2> QED
    BY <2>1, SoundGrows DEF Sound
<1> HIDE DEF free
<1>4. Taken(s, L, f, taken)
  BY <1>3, AcceptCallIsSound DEF Taken
<1> HIDE DEF taken, r
<1> QED
  BY <1>0, <1>1, <1>2, <1>4, KeepsItself DEF r
\* An acceptance of the call that is out; there is none of a call not sent yet.
LEMMA OnAcceptanceIsSound ==
  ASSUME NEW s \in Stations, NEW N, Numbering(N), NEW e, Sound(s, N, e, "none"),
         now \in Nat, NEW M, NEW f \in Frames(Peer(s), M), f.msg.session \in N.agreed,
         Fresh(e) => f.msg.session # e.session
  PROVE  LET r == OnAcceptance(e, s, f)
         IN  Sound(s, N, r, "none") /\ Keeps(e, r)
<1> DEFINE free   == Disarm(e, "connect")
           begun  == [free EXCEPT !.peerIdent = f.msg.ident, !.state = "connected",
                                  !.role = "master"]
           master == Heard(begun)
           ended  == StateEnd(master, f.end)
           waits  == ArmWait(master)
           r      == OnAcceptance(e, s, f)
<1>0. e \in Engines(s, N) /\ Shape(N, e) /\ f.msg.ident \in Idents(Peer(s)) /\ f.end \in Nat
  BY FrameParts DEF Sound
<1>1. r = IF e.state # "connecting" \/ f.msg.session # e.session \/ f.msg.to # s THEN e
          ELSE IF InSlot(master, f) THEN ended ELSE waits
  BY DEF OnAcceptance
<1> HIDE DEF r, ended, waits
<1>2. CASE e.state # "connecting" \/ f.msg.session # e.session \/ f.msg.to # s
  BY <1>0, <1>1, <1>2, KeepsItself DEF r
<1>3. CASE ~(e.state # "connecting" \/ f.msg.session # e.session \/ f.msg.to # s)
  <2>1. e.tries > 0 /\ e.slot # NoSlot /\ e.silent <= MaxRetries
    <3>1. e.tries \in Nat
      BY <1>0 DEF Engines
    <3> QED
      BY <1>0, <1>3, <3>1 DEF Fresh, Shape
  <2>2. free \in Engines(s, N) /\ Rearmed(e, free)
    BY <1>0, DisarmIs
  <2>3. free.slot = e.slot /\ free.discTries = 0 /\ free.silent = e.silent
        /\ free.session = e.session
    BY <1>0, <1>3, <2>2 DEF Rearmed, Same, Shape
  <2> HIDE DEF free
  <2>4. begun \in Engines(s, N)
    BY <1>0, <2>2 DEF Engines, States, Roles
  <2>5. /\ begun.state = "connected" /\ begun.role = "master" /\ begun.slot = e.slot
        /\ begun.discTries = 0 /\ begun.silent = e.silent /\ begun.session = e.session
    BY <2>2, <2>3 DEF Engines
  <2> HIDE DEF begun
  <2>6. master \in Engines(s, N) /\ Rearmed(begun, master) /\ Has(master.deadlines, "link")
    BY <2>4, HeardIs
  <2> HIDE DEF master
  <2>7. /\ master.state = "connected" /\ master.role = "master" /\ Up(master)
        /\ master.slot # NoSlot /\ master.discTries = 0 /\ master.silent <= MaxRetries
        /\ master.session = e.session /\ e.session \in N.agreed
    BY <1>3, <2>1, <2>5, <2>6 DEF Rearmed, Same, Up
  <2>8. /\ ended \in Engines(s, N) /\ Same(master, ended)
        /\ Has(ended.deadlines, "link") /\ Has(ended.deadlines, "proceed")
    BY <1>0, <2>6, <2>7, StateEndIs, ZenonT(60) DEF ended
  <2>9. /\ waits \in Engines(s, N) /\ Same(master, waits)
        /\ Has(waits.deadlines, "link") /\ Has(waits.deadlines, "proceed")
    BY <2>6, <2>7, ArmWaitIs DEF waits
  <2>10. ASSUME NEW x \in {ended, waits}
         PROVE  Sound(s, N, x, "none") /\ Keeps(e, x)
    <3>1. /\ x \in Engines(s, N) /\ Same(master, x)
          /\ Has(x.deadlines, "link") /\ Has(x.deadlines, "proceed")
      BY <2>8, <2>9
    <3>2. Shape(N, x)
      BY <2>7, <3>1 DEF Shape, Same, Up
    <3>3. TimedBut(x, "none") /\ Keeps(e, x)
      BY <1>3, <2>7, <3>1 DEF TimedBut, Same, Up, Keeps, Leading
    <3> QED
      BY <3>1, <3>2, <3>3 DEF Sound
  <2> QED
    BY <1>1, <1>3, <2>10 DEF r
<1> QED
  BY <1>2, <1>3

LEMMA StateEndIsSound ==
  ASSUME NEW s, NEW N, NEW e, NEW t, Sound(s, N, e, t), now \in Nat, NEW end \in Nat
  PROVE  LET r == StateEnd(e, end)
         IN  Sound(s, N, r, t) /\ Keeps(e, r) /\ Same(e, r)
<1> DEFINE r == StateEnd(e, end)
<1> HIDE DEF r
<1>0. e \in Engines(s, N)
  BY DEF Sound
<1>1. /\ r \in Engines(s, N) /\ Same(e, r)
      /\ e.slot = NoSlot => r = e
      /\ e.slot # NoSlot => r.slot \in Granted
      /\ \A u : Has(e.deadlines, u) => Has(r.deadlines, u)
  BY <1>0, StateEndIs DEF r
<1>2. r.slot # NoSlot \/ r.slot = e.slot
  BY <1>1, SlotNotNone
<1>3. Sound(s, N, r, t) /\ Keeps(e, r)
  BY <1>1, <1>2, SameIsSound
<1> QED
  BY <1>1, <1>3 DEF r

\* A control frame of a session left.
LEMMA AnswerLeftIsSound ==
  ASSUME NEW s \in Stations, NEW N, Numbering(N), NEW e, Sound(s, N, e, "none"),
         now \in Nat, NEW M, NEW f \in Frames(Peer(s), M)
  PROVE  LET r == AnswerLeft(e, s, f)
         IN  Sound(s, N, r, "none") /\ Keeps(e, r)
<1> DEFINE at    == now + Exchange
           later == IF e.owed > 0 /\ e.alone THEN Arm(e, "ident", at) ELSE e
           still == [e EXCEPT !.left = NoLeft]
           gone  == Disarm(still, "leave")
           end   == f.end + e.peerIdent
           ended == IF e.slot.kind = "leave" /\ InSlot(e, f)
                    THEN StateEnd(gone, end) ELSE gone
           tells  == IdentifyAfterLeaving(ended)
           ack   == AnswerDisc(later, s, f, "ack")
           disc  == AnswerDisc(later, s, f, "disc")
           r     == AnswerLeft(e, s, f)
<1>0. e \in Engines(s, N) /\ f.end \in Nat /\ at \in Nat /\ end \in Nat
  <2>1. f.end \in Nat
    BY FrameParts
  <2>2. e \in Engines(s, N) /\ e.peerIdent \in Idents(Peer(s))
    BY DEF Sound, Engines
  <2>3. e.peerIdent \in Nat
    BY <2>2, IdentNat, PeerType
  <2> QED
    BY <2>1, <2>2, <2>3, TimeAssumption
<1>1. r \in {e, still, tells, ack, disc, later}
  BY DEF AnswerLeft
<1> HIDE DEF at, end
<1>2. Sound(s, N, later, "none") /\ Keeps(e, later)
  <2>1. Sound(s, N, Arm(e, "ident", at), "none") /\ Keeps(e, Arm(e, "ident", at))
    BY <1>0, IdentTimer, ArmIsSound
  <2> QED
    BY <1>0, <2>1, KeepsItself
<1> HIDE DEF later
<1>3. Sound(s, N, ack, "none") /\ Keeps(later, ack)
  BY <1>2, AnswerDiscIsSound
<1>4. Sound(s, N, disc, "none") /\ Keeps(later, disc)
  BY <1>2, AnswerDiscIsSound
<1>5. Sound(s, N, still, "none") /\ Keeps(e, still)
  <2>1. NoLeft \in Lefts
    BY DEF NoLeft, Lefts
  <2>2. still \in Engines(s, N)
    BY <1>0, <2>1 DEF Engines
  <2>3. /\ still.state = e.state /\ still.role = e.role /\ still.session = e.session
        /\ still.tries = e.tries /\ still.slot = e.slot /\ still.discTries = e.discTries
        /\ still.silent = e.silent /\ still.deadlines = e.deadlines /\ still.owed = e.owed
        /\ still.alone = e.alone
    BY <1>0 DEF Engines
  <2> HIDE DEF still
  <2>4. Shape(N, still)
    BY <2>3 DEF Sound, Shape, Up
  <2>5. TimedBut(still, "none")
    BY <2>3 DEF Sound, TimedBut, Up
  <2>6. Keeps(e, still)
    BY <1>0, <2>3, KeepsItself DEF Keeps, Leading
  <2> QED
    BY <2>2, <2>4, <2>5, <2>6 DEF Sound
<1> HIDE DEF still
<1>6. Sound(s, N, gone, "leave") /\ Keeps(still, gone)
  BY <1>5, DisarmIsSound
<1> HIDE DEF gone
<1>7. Sound(s, N, ended, "leave") /\ Keeps(gone, ended)
  <2>1. Sound(s, N, StateEnd(gone, end), "leave") /\ Keeps(gone, StateEnd(gone, end))
    BY <1>0, <1>6, StateEndIsSound
  <2>2. Keeps(gone, gone)
    BY <1>6, KeepsItself DEF Sound
  <2> QED
    BY <1>6, <2>1, <2>2
<1> HIDE DEF ended
<1>8. Sound(s, N, tells, "none") /\ Keeps(ended, tells)
  BY <1>7, IdentifyIsSound
<1> HIDE DEF tells, ack, disc, r
<1>9. /\ later \in Engines(s, N) /\ ack \in Engines(s, N) /\ disc \in Engines(s, N)
      /\ still \in Engines(s, N) /\ gone \in Engines(s, N) /\ ended \in Engines(s, N)
      /\ tells \in Engines(s, N)
  BY <1>2, <1>3, <1>4, <1>5, <1>6, <1>7, <1>8 DEF Sound
<1>10. Keeps(e, ack) /\ Keeps(e, disc)
  BY <1>0, <1>2, <1>3, <1>4, <1>9, KeepsOn
<1>11. Keeps(e, gone)
  BY <1>0, <1>5, <1>6, <1>9, KeepsOn
<1>12. Keeps(e, ended)
  BY <1>0, <1>7, <1>9, <1>11, KeepsOn
<1>13. Keeps(e, tells)
  BY <1>0, <1>8, <1>9, <1>12, KeepsOn
<1> QED
  BY <1>0, <1>1, <1>2, <1>3, <1>4, <1>5, <1>8, <1>10, <1>13, KeepsItself DEF r
-----------------------------------------------------------------------------
(* Control frames. *)

\* An engine that differs in nothing an operation has to keep.
LEMMA ChangedIsSound ==
  ASSUME NEW s, NEW N, NEW e, NEW t, Sound(s, N, e, t), NEW r \in Engines(s, N),
         r.role = e.role, r.session = e.session, r.tries = e.tries,
         r.slot = e.slot \/ r.slot # NoSlot, r.discTries = e.discTries,
         r.silent <= MaxRetries, r.deadlines = e.deadlines, r.owed = e.owed, r.alone = e.alone,
         r.state = e.state \/ (Up(e) /\ r.state = "disconnecting")
  PROVE  Sound(s, N, r, t) /\ Keeps(e, r)
<1>0. e \in Engines(s, N)
  BY DEF Sound
<1>1. Shape(N, r)
  BY DEF Sound, Shape, Up
<1>2. TimedBut(r, t)
  BY DEF Sound, TimedBut, Up
<1>3. Keeps(e, r)
  BY <1>0, KeepsItself DEF Keeps, Leading
<1> QED
  BY <1>1, <1>2, <1>3 DEF Sound

LEMMA MasterControlIsSound ==
  ASSUME NEW s \in Stations, NEW N, Numbering(N), NEW e, Sound(s, N, e, "none"), Up(e),
         now \in Nat, NEW M, NEW f \in Frames(Peer(s), M)
  PROVE  LET r == MasterControl(e, s, f)
         IN  Sound(s, N, r, "none") /\ Keeps(e, r)
<1> DEFINE heard  == Heard(e)
           end    == f.end + e.peerIdent
           over   == StateEnd(heard, end)
           reason == IF e.peerLeft THEN "peer disconnected" ELSE "closed"
           ended  == EndSession(over, s, reason, FALSE)
           left   == [heard EXCEPT !.peerLeft = TRUE, !.state = "disconnecting"]
           leaves == StateEnd(left, f.end)
           flag   == f.msg.flag
           since  == IF flag /\ heard.since = NoTime THEN now ELSE heard.since
           heeds  == [heard EXCEPT !.slaveLeaves = flag, !.since = since]
           goes   == StateEnd(heeds, f.end)
           r      == MasterControl(e, s, f)
<1>0. e \in Engines(s, N) /\ f.end \in Nat /\ end \in Nat /\ flag \in BOOLEAN
  <2>1. f.end \in Nat /\ flag \in BOOLEAN
    BY FrameParts DEF Messages
  <2>2. e \in Engines(s, N) /\ e.peerIdent \in Idents(Peer(s))
    BY DEF Sound, Engines
  <2>3. e.peerIdent \in Nat
    BY <2>2, IdentNat, PeerType
  <2> QED
    BY <2>1, <2>2, <2>3
<1>1. Sound(s, N, heard, "none") /\ Rearmed(e, heard) /\ Keeps(e, heard)
  BY HeardIsSound
<1>2. r \in {e, heard, ended, leaves, goes}
  <2>1. heeds = [heard EXCEPT !.slaveLeaves = f.msg.flag,
                              !.since = IF f.msg.flag /\ @ = NoTime THEN now ELSE @]
    BY <1>1 DEF Sound, Engines
  <2> HIDE DEF heard, heeds
  <2> QED
    BY <2>1 DEF MasterControl, heard
<1>3. heard \in Engines(s, N) /\ Up(heard) /\ heard.silent <= MaxRetries
  BY <1>1 DEF Sound, Shape, Rearmed, Same, Up
<1> HIDE DEF heard, end, reason, flag
<1>4. Sound(s, N, over, "none") /\ Keeps(heard, over)
  BY <1>0, <1>1, StateEndIsSound
<1> HIDE DEF over
<1>5. Sound(s, N, ended, "none") /\ Keeps(e, ended)
  <2>1. over \in Engines(s, N) /\ reason # "aborted"
    BY <1>4 DEF Sound, reason
  <2>2. EndsWell(s, N, over, reason, ended)
    BY <2>1, EndedIsSound
  <2>3. Sound(s, N, ended, "none") /\ ended.state = "idle"
    BY <2>1, <2>2 DEF EndsWell
  <2> QED
    BY <2>3, IdleKeeps
<1>6. Sound(s, N, leaves, "none") /\ Keeps(e, leaves)
  <2>1. left \in Engines(s, N)
    BY <1>3 DEF Engines, States
  <2>2. /\ left.role = heard.role /\ left.session = heard.session
        /\ left.tries = heard.tries /\ left.slot = heard.slot
        /\ left.discTries = heard.discTries /\ left.silent = heard.silent
        /\ left.deadlines = heard.deadlines /\ left.owed = heard.owed
        /\ left.alone = heard.alone /\ left.state = "disconnecting"
    BY <1>3 DEF Engines
  <2> HIDE DEF left
  <2>3. Sound(s, N, left, "none") /\ Keeps(heard, left)
    BY <1>1, <1>3, <2>1, <2>2, ChangedIsSound
  <2>4. Sound(s, N, leaves, "none") /\ Keeps(left, leaves)
    BY <1>0, <2>3, StateEndIsSound
  <2>5. heard \in Engines(s, N) /\ leaves \in Engines(s, N)
    BY <1>3, <2>4 DEF Sound
  <2>6. Keeps(heard, leaves)
    BY <2>1, <2>3, <2>4, <2>5, KeepsOn
  <2> QED
    BY <1>0, <1>1, <2>4, <2>5, <2>6, KeepsOn
<1>7. Sound(s, N, goes, "none") /\ Keeps(e, goes)
  <2>1. since \in Times
    BY <1>3 DEF Engines, Times
  <2> HIDE DEF since
  <2>2. heeds \in Engines(s, N)
    BY <1>0, <1>3, <2>1 DEF Engines
  <2>3. /\ heeds.role = heard.role /\ heeds.session = heard.session
        /\ heeds.tries = heard.tries /\ heeds.slot = heard.slot
        /\ heeds.discTries = heard.discTries /\ heeds.silent = heard.silent
        /\ heeds.deadlines = heard.deadlines /\ heeds.owed = heard.owed
        /\ heeds.alone = heard.alone /\ heeds.state = heard.state
        /\ heeds.silent <= MaxRetries
    BY <1>3 DEF Engines
  <2>a. heeds.state = heard.state \/ (Up(heard) /\ heeds.state = "disconnecting")
    BY <2>3
  <2> HIDE DEF heeds
  <2>4. Sound(s, N, heeds, "none") /\ Keeps(heard, heeds)
    BY <1>1, <2>2, <2>3, <2>a, ChangedIsSound
  <2>5. Sound(s, N, goes, "none") /\ Keeps(heeds, goes) /\ goes \in Engines(s, N)
    BY <1>0, <2>4, StateEndIsSound DEF Sound
  <2>6. Keeps(e, heeds)
    BY <1>0, <1>1, <1>3, <2>2, <2>4, KeepsOn
  <2> QED
    BY <1>0, <2>2, <2>5, <2>6, KeepsOn
<1> HIDE DEF ended, leaves, goes, r
<1> QED
  BY <1>0, <1>1, <1>2, <1>5, <1>6, <1>7, KeepsItself DEF r

LEMMA SlaveControlIsSound ==
  ASSUME NEW s \in Stations, NEW N, Numbering(N), NEW e, Sound(s, N, e, "none"), Up(e),
         now \in Nat, NEW M, NEW f \in Frames(Peer(s), M)
  PROVE  LET r == SlaveControl(e, s, f)
         IN  Sound(s, N, r, "none") /\ Keeps(e, r)
<1> DEFINE heard  == Heard(e)
           ended  == EndSession(heard, s, "peer disconnected", TRUE)
           leaves == AnswerDisc(ended, s, f, "ack")
           reads  == [heard EXCEPT !.reached = TRUE]
           msg    == Message("answer", e.session, Peer(s), e.asked, 0)
           start  == SlotStart(f.end)
           says   == AnswerIn(reads, msg, 0, start)
           r      == SlaveControl(e, s, f)
<1>0. /\ e \in Engines(s, N) /\ start \in Nat /\ 0 \in Idents(s)
      /\ msg \in Messages(s, N) /\ msg.kind # "call"
  <2>1. start \in Nat /\ Peer(s) \in Stations
    BY FrameParts, PeerType
  <2>2. e \in Engines(s, N) /\ e.session \in Nat /\ e.asked \in BOOLEAN
    BY DEF Sound, Engines, Numbering
  <2> QED
    BY <2>1, <2>2 DEF Message, Messages, Kinds, Idents
<1>1. Sound(s, N, heard, "none") /\ Rearmed(e, heard) /\ Keeps(e, heard)
  BY HeardIsSound
<1>2. r \in {leaves, says, heard}
  BY DEF SlaveControl
<1>3. heard \in Engines(s, N) /\ heard.silent <= MaxRetries
  BY <1>1 DEF Sound, Shape
<1> HIDE DEF heard, msg, start
<1>4. Sound(s, N, ended, "none") /\ ended.state = "idle"
  <2>1. EndsWell(s, N, heard, "peer disconnected", ended)
    BY <1>3, EndedIsSound
  <2> QED
    BY <2>1 DEF EndsWell
<1> HIDE DEF ended
<1>5. Sound(s, N, leaves, "none") /\ Keeps(ended, leaves)
  BY <1>4, AnswerDiscIsSound
<1>6. Keeps(e, leaves)
  BY <1>4, <1>5, KeepsIdle
<1>7. Sound(s, N, says, "none") /\ Keeps(e, says)
  <2>1. reads \in Engines(s, N)
    BY <1>3 DEF Engines
  <2>2. /\ reads.role = heard.role /\ reads.session = heard.session
        /\ reads.tries = heard.tries /\ reads.slot = heard.slot
        /\ reads.discTries = heard.discTries /\ reads.silent = heard.silent
        /\ reads.deadlines = heard.deadlines /\ reads.owed = heard.owed
        /\ reads.alone = heard.alone /\ reads.state = heard.state
        /\ reads.silent <= MaxRetries
    BY <1>3 DEF Engines
  <2>a. reads.state = heard.state \/ (Up(heard) /\ reads.state = "disconnecting")
    BY <2>2
  <2> HIDE DEF reads
  <2>3. Sound(s, N, reads, "none") /\ Keeps(heard, reads)
    BY <1>1, <2>1, <2>2, <2>a, ChangedIsSound
  <2>4. says \in Engines(s, N) /\ Same(reads, says) /\ says.slot = reads.slot
        /\ says.deadlines = reads.deadlines
    BY <1>0, <2>1, AnswerInIs
  <2> HIDE DEF says
  <2>5. Sound(s, N, says, "none") /\ Keeps(reads, says)
    BY <2>3, <2>4, SameIsSound
  <2>6. Keeps(e, reads)
    BY <1>0, <1>1, <1>3, <2>1, <2>3, KeepsOn
  <2> QED
    BY <1>0, <2>1, <2>4, <2>5, <2>6, KeepsOn
<1> HIDE DEF leaves, says, r
<1> QED
  BY <1>1, <1>2, <1>5, <1>6, <1>7 DEF r

LEMMA OnFrameIsSound ==
  ASSUME NEW s \in Stations, NEW N, Numbering(N), NEW L, Numbering(L), Within(N, L),
         NEW e, Sound(s, N, e, "none"), now \in Nat, NEW M, NEW f \in Frames(Peer(s), M),
         f.msg.kind = "call" => f.msg.session \in L.accept,
         f.msg.kind = "accept" => f.msg.session \in N.agreed,
         Fresh(e) /\ f.msg.kind = "accept" => f.msg.session # e.session
  PROVE  LET r == OnFrame(e, s, f)
         IN  \/ Sound(s, N, r, "none") /\ Keeps(e, r)
             \/ f.msg.kind = "call" /\ Taken(s, L, f, r)
<1> DEFINE r == OnFrame(e, s, f)
<1> HIDE DEF r
<1>0. e \in Engines(s, N)
  BY DEF Sound
<1>1. CASE f.msg.kind = "call"
  <2>1. r = OnRequest(e, s, f)
    BY <1>1 DEF OnFrame, r
  <2> QED
    BY <1>1, <2>1, OnRequestIsSound DEF r
<1>2. CASE f.msg.kind = "accept"
  <2>1. r = OnAcceptance(e, s, f)
    BY <1>2 DEF OnFrame, r
  <2> QED
    BY <1>2, <2>1, OnAcceptanceIsSound DEF r
<1>3. CASE f.msg.kind \notin {"call", "accept"}
  <2>1. \/ r \in {AnswerLeft(e, s, f), e}
        \/ Up(e) /\ r \in {MasterControl(e, s, f), SlaveControl(e, s, f)}
    BY <1>3 DEF OnFrame, OnControl, r
  <2> QED
    BY <1>0, <2>1, AnswerLeftIsSound, MasterControlIsSound, SlaveControlIsSound,
       KeepsItself DEF r
<1> QED
  BY <1>1, <1>2, <1>3
-----------------------------------------------------------------------------
(* Timers. *)

LEMMA CloseSlotIsSound ==
  ASSUME NEW s \in Stations, NEW N, Numbering(N), NEW e, NEW t, Sound(s, N, e, t),
         Up(e), now \in Nat
  PROVE  LET r == CloseSlot(e, s)
         IN  /\ r.state # "idle" => Sound(s, N, r, t)
             /\ r.state = "idle" => Sound(s, N, r, "none")
             /\ Keeps(e, r) /\ r.state \in {"idle", e.state}
             /\ r.state # "idle" => r.role = e.role
<1> DEFINE closed == [e EXCEPT !.slot = NoSlot]
           silent == [closed EXCEPT !.silent = @ + 1]
           quiet  == [closed EXCEPT !.silent = 0]
           ended  == EndSession(silent, s, "no response", FALSE)
           r      == CloseSlot(e, s)
<1>0. e \in Engines(s, N) /\ NoSlot \in Slots /\ e.silent \in Nat /\ e.state # "connecting"
  BY DEF Sound, Engines, Slots, Up
<1>1. r = IF e.slot = NoSlot THEN e ELSE IF e.slot.stated # NoTime THEN quiet
          ELSE IF silent.silent > MaxRetries THEN ended ELSE silent
  <2> HIDE DEF silent, quiet, closed, ended
  <2>1. r = CASE e.slot = NoSlot -> e
              [] e.slot # NoSlot /\ e.slot.stated # NoTime -> quiet
              [] OTHER -> IF silent.silent > MaxRetries THEN ended ELSE silent
    BY DEF CloseSlot, silent, quiet, closed, ended
  <2> HIDE DEF r
  <2> QED
    BY <2>1
<1>2. silent \in Engines(s, N) /\ quiet \in Engines(s, N)
  <2>1. closed \in Engines(s, N) /\ closed.silent = e.silent
    BY <1>0 DEF Engines
  <2> HIDE DEF closed
  <2>2. closed.silent + 1 \in Nat
    BY <1>0, <2>1
  <2> QED
    BY <2>1, <2>2 DEF Engines
<1>3. ASSUME NEW x \in {silent, quiet}
      PROVE  /\ x.state = e.state /\ x.role = e.role /\ x.session = e.session
             /\ x.tries = e.tries /\ x.discTries = e.discTries /\ x.deadlines = e.deadlines
             /\ x.owed = e.owed /\ x.alone = e.alone
  BY <1>0, <1>3 DEF Engines
<1>4. quiet.silent <= MaxRetries
  BY <1>0, CountAssumption DEF Engines
<1> HIDE DEF closed, silent, quiet
<1>5. ASSUME NEW x \in {silent, quiet}, x.silent <= MaxRetries
      PROVE  Sound(s, N, x, t) /\ Keeps(e, x)
  <2>1. Shape(N, x)
    BY <1>0, <1>3, <1>5 DEF Sound, Shape, Up
  <2>2. TimedBut(x, t) /\ Keeps(e, x)
    BY <1>0, <1>3, <1>5 DEF Sound, TimedBut, Up, Keeps, Leading
  <2> QED
    BY <1>2, <1>5, <2>1, <2>2 DEF Sound
<1>6. Sound(s, N, ended, "none") /\ ended.state = "idle" /\ Keeps(silent, ended)
  <2>1. EndsWell(s, N, silent, "no response", ended)
    BY <1>2, EndedIsSound
  <2> QED
    BY <2>1 DEF EndsWell
<1> HIDE DEF ended, r
<1>7. CASE r = e
  BY <1>0, <1>7, KeepsItself DEF r, Up
<1>8. CASE r = quiet
  BY <1>0, <1>3, <1>4, <1>5, <1>8 DEF r, Up
<1>9. CASE r = ended
  BY <1>6, <1>9, IdleKeeps DEF r
<1>10. CASE r = silent /\ silent.silent <= MaxRetries
  BY <1>0, <1>3, <1>5, <1>10 DEF r, Up
<1>11. silent.silent > MaxRetries \/ silent.silent <= MaxRetries
  BY <1>2, CountAssumption, SMTT(60) DEF Engines
<1> QED
  BY <1>1, <1>7, <1>8, <1>9, <1>10, <1>11

LEMMA SendHeaderIsSound ==
  ASSUME NEW s \in Stations, NEW N, Numbering(N), NEW e, Sound(s, N, e, "proceed"),
         Up(e), e.role = "master", now \in Nat
  PROVE  LET r == SendHeader(e, s)
         IN  Sound(s, N, r, "none") /\ Keeps(e, r)
<1> DEFINE msg == Message("header", e.session, Peer(s), FALSE, 0)
           r   == KeyGranting(e, "header", Frame, msg)
<1>0. e \in Engines(s, N) /\ "header" \in SlotKinds /\ Frame \in Nat
  BY TimeAssumption DEF Sound, SlotKinds
<1>1. msg \in Messages(s, N) /\ Latest(N, msg)
  <2>1. e.session \in Nat /\ Peer(s) \in Stations
    BY <1>0, PeerType DEF Engines, Numbering
  <2> QED
    BY <2>1 DEF Message, Messages, Kinds, Idents, Latest
<1>2. SendHeader(e, s) = r
  BY DEF SendHeader
<1> HIDE DEF msg
<1>3. /\ r \in Engines(s, N) /\ Same(e, r) /\ r.slot \in Granted
      /\ \A u : Has(e.deadlines, u) => Has(r.deadlines, u)
      /\ e.role = "master" /\ Up(e) => Has(r.deadlines, "proceed")
  BY <1>0, <1>1, KeyGrantingIs, ZenonT(60)
<1> HIDE DEF r
<1>4. r.slot # NoSlot
  BY <1>3, SlotNotNone
<1>5. Sound(s, N, r, "proceed") /\ Keeps(e, r)
  BY <1>3, <1>4, SameIsSound
<1>6. TimedBut(r, "none")
  BY <1>3, <1>5 DEF Sound, TimedBut
<1> QED
  BY <1>2, <1>5, <1>6 DEF Sound

LEMMA SendDiscIsSound ==
  ASSUME NEW s \in Stations, NEW N, Numbering(N), NEW e, Sound(s, N, e, "proceed"),
         e.state = "disconnecting", e.role = "master", e.discTries < DiscRetries, now \in Nat
  PROVE  LET r == SendDisc(e, s)
         IN  Sound(s, N, r, "none") /\ Keeps(e, r)
<1> DEFINE d    == [e EXCEPT !.discTries = @ + 1]
           msg  == Message("disc", e.session, Peer(s), FALSE, 0)
           room == Frame + e.peerIdent
           r    == KeyGranting(d, "disc", room, msg)
<1>0. e \in Engines(s, N) /\ "disc" \in SlotKinds /\ room \in Nat
  <2>1. e \in Engines(s, N) /\ e.peerIdent \in Idents(Peer(s))
    BY DEF Sound, Engines
  <2>2. e.peerIdent \in Nat
    BY <2>1, IdentNat, PeerType
  <2> QED
    BY <2>1, <2>2, TimeAssumption DEF SlotKinds
<1>1. msg \in Messages(s, N) /\ Latest(N, msg)
  <2>1. e.session \in Nat /\ Peer(s) \in Stations
    BY <1>0, PeerType DEF Engines, Numbering
  <2> QED
    BY <2>1 DEF Message, Messages, Kinds, Idents, Latest
<1>2. SendDisc(e, s) = r
  BY DEF SendDisc
<1> HIDE DEF msg, room
<1>3. d \in Engines(s, N)
  <2>1. e.discTries + 1 \in 0 .. DiscRetries
    <3>1. e.discTries \in 0 .. DiscRetries
      BY <1>0 DEF Engines
    <3> QED
      BY <3>1, CountAssumption
  <2> QED
    BY <1>0, <2>1 DEF Engines
<1>4. /\ d.state = e.state /\ d.role = e.role /\ d.session = e.session /\ d.tries = e.tries
      /\ d.slot = e.slot /\ d.silent = e.silent /\ d.deadlines = e.deadlines
      /\ d.owed = e.owed /\ d.alone = e.alone
  BY <1>0 DEF Engines
<1> HIDE DEF d
<1>5. Sound(s, N, d, "proceed") /\ Up(d)
  <2>1. Shape(N, d)
    BY <1>4 DEF Sound, Shape, Up
  <2>2. TimedBut(d, "proceed")
    BY <1>4 DEF Sound, TimedBut, Up
  <2> QED
    BY <1>3, <1>4, <2>1, <2>2 DEF Sound, Up
<1>6. /\ r \in Engines(s, N) /\ Same(d, r) /\ r.slot \in Granted
      /\ \A u : Has(d.deadlines, u) => Has(r.deadlines, u)
      /\ d.role = "master" /\ Up(d) => Has(r.deadlines, "proceed")
  BY <1>0, <1>1, <1>3, KeyGrantingIs, ZenonT(60)
<1> HIDE DEF r
<1>7. r.slot # NoSlot
  BY <1>6, SlotNotNone
<1>8. Sound(s, N, r, "proceed")
  BY <1>5, <1>6, <1>7, SameIsSound
<1>9. TimedBut(r, "none")
  BY <1>4, <1>5, <1>6, <1>8 DEF Sound, TimedBut
<1>10. Keeps(e, r)
  BY <1>4, <1>6 DEF Keeps, Leading, Same
<1> QED
  BY <1>2, <1>8, <1>9, <1>10 DEF Sound
LEMMA ProceedIsSound ==
  ASSUME NEW s \in Stations, NEW N, Numbering(N), NEW e, Sound(s, N, e, "proceed"),
         now \in Nat, NEW drained
  PROVE  LET r == Proceed(e, s, drained)
         IN  Sound(s, N, r, "none") /\ Keeps(e, r)
<1> DEFINE closed == CloseSlot(e, s)
           reason == IF closed.peerLeft THEN "peer disconnected" ELSE "closed (no DISC_ACK)"
           unread == EndUnread(closed, s, reason)
           disc   == SendDisc(closed, s)
           left   == [closed EXCEPT !.state = "disconnecting"]
           leaves == SendDisc(left, s)
           header == SendHeader(closed, s)
           master == e.role = "master" /\ Up(e)
           goes   == (closed.asked \/ closed.slaveLeaves) /\ CanLeave(closed, drained)
           r      == Proceed(e, s, drained)
<1>0. e \in Engines(s, N)
  BY DEF Sound
<1>1. r = IF ~master THEN e
          ELSE IF closed.state = "idle" THEN closed
          ELSE IF closed.state = "disconnecting"
          THEN IF closed.discTries >= DiscRetries THEN unread ELSE disc
          ELSE IF goes THEN leaves ELSE header
  BY DEF Proceed
<1>2. CASE ~master
  <2>1. TimedBut(e, "none")
    BY <1>2 DEF Sound, Shape, TimedBut
  <2> QED
    BY <1>0, <1>1, <1>2, <2>1, KeepsItself DEF Sound
<1>3. CASE master
  <2>1. /\ closed.state # "idle" => Sound(s, N, closed, "proceed")
        /\ closed.state = "idle" => Sound(s, N, closed, "none")
        /\ Keeps(e, closed) /\ closed.state \in {"idle", e.state}
        /\ closed.state # "idle" => closed.role = e.role
    BY <1>3, CloseSlotIsSound
  <2> HIDE DEF closed, unread, disc, leaves, header, goes
  <2>2. closed \in Engines(s, N)
    BY <2>1 DEF Sound
  <2>3. CASE closed.state = "idle"
    BY <1>1, <1>3, <2>1, <2>3
  <2>4. CASE closed.state = "disconnecting" /\ closed.discTries >= DiscRetries
    <3>1. reason # "aborted"
      OBVIOUS
    <3> HIDE DEF reason
    <3>2. Sound(s, N, unread, "none") /\ unread.state = "idle"
      BY <2>2, <3>1, EndUnreadIsSound DEF unread
    <3>3. Keeps(e, unread)
      BY <3>2, IdleKeeps
    <3> QED
      BY <1>1, <1>3, <2>4, <3>2, <3>3
  <2>5. CASE closed.state = "disconnecting" /\ ~(closed.discTries >= DiscRetries)
    <3>1. closed.discTries < DiscRetries
      <4>1. closed.discTries \in 0 .. DiscRetries
        BY <2>2 DEF Engines
      <4> QED
        BY <2>5, <4>1, CountAssumption
    <3>2. Sound(s, N, disc, "none") /\ Keeps(closed, disc)
      BY <1>3, <2>1, <2>5, <3>1, SendDiscIsSound DEF disc
    <3>3. Keeps(e, disc)
      BY <1>0, <2>1, <2>2, <3>2, KeepsOn DEF Sound
    <3> QED
      BY <1>1, <1>3, <2>5, <3>2, <3>3
  <2>6. CASE closed.state \notin {"idle", "disconnecting"}
    <3>1. /\ Sound(s, N, closed, "proceed") /\ closed.role = "master" /\ Up(closed)
          /\ closed.state = "connected" /\ closed.discTries = 0 /\ closed.silent <= MaxRetries
      BY <1>3, <2>1, <2>6 DEF Up, Sound, Shape
    <3>2. left \in Engines(s, N)
      BY <2>2 DEF Engines, States
    <3>3. /\ left.role = closed.role /\ left.session = closed.session
          /\ left.tries = closed.tries /\ left.slot = closed.slot
          /\ left.discTries = closed.discTries /\ left.silent = closed.silent
          /\ left.deadlines = closed.deadlines /\ left.owed = closed.owed
          /\ left.alone = closed.alone /\ left.state = "disconnecting"
      BY <2>2 DEF Engines
    <3> HIDE DEF left
    <3>4. Sound(s, N, left, "proceed") /\ Keeps(closed, left)
      BY <3>1, <3>2, <3>3, ChangedIsSound
    <3>5. Sound(s, N, leaves, "none") /\ Keeps(left, leaves)
      BY <3>1, <3>3, <3>4, CountAssumption, SendDiscIsSound DEF leaves
    <3>6. Sound(s, N, header, "none") /\ Keeps(closed, header)
      BY <3>1, SendHeaderIsSound DEF header
    <3>a. Keeps(e, left)
      BY <1>0, <2>1, <2>2, <3>2, <3>4, KeepsOn
    <3>7. Keeps(e, leaves) /\ Keeps(e, header)
      BY <1>0, <2>1, <2>2, <3>2, <3>5, <3>6, <3>a, KeepsOn DEF Sound
    <3> QED
      BY <1>1, <1>3, <2>6, <3>5, <3>6, <3>7
  <2> QED
    BY <2>3, <2>4, <2>5, <2>6
<1> QED
  BY <1>2, <1>3

LEMMA RepeatLeaveIsSound ==
  ASSUME NEW s \in Stations, NEW N, Numbering(N), NEW e, Sound(s, N, e, "leave"), now \in Nat
  PROVE  LET r == RepeatLeave(e, s)
         IN  Sound(s, N, r, "none") /\ Keeps(e, r)
<1> DEFINE still == [e EXCEPT !.left = NoLeft]
           fewer == [e EXCEPT !.repeats = @ - 1]
           msg   == Message("disc", e.left.session, Peer(s), FALSE, 0)
           room  == Frame + e.peerIdent
           sent  == KeyGranting(fewer, "leave", room, msg)
           again == Arm(sent, "leave", sent.hold)
           waits == Arm(e, "leave", e.hold)
           over  == IdentifyAfterLeaving(e)
           late  == IdentifyAfterLeaving(still)
           last  == IdentifyAfterLeaving(sent)
           r     == RepeatLeave(e, s)
<1>0. e \in Engines(s, N) /\ e.hold \in Nat /\ e.silent <= MaxRetries
  BY HoldNat DEF Sound, Shape
<1>1. r = IF e.left = NoLeft \/ e.state # "idle" \/ e.repeats = 0 THEN over
          ELSE IF now < e.hold THEN waits
          ELSE IF now > e.left.until THEN late
          ELSE IF sent.repeats > 0 THEN again ELSE last
  BY DEF RepeatLeave
<1>2. Sound(s, N, over, "none") /\ Keeps(e, over)
  BY IdentifyIsSound
<1>3. Sound(s, N, waits, "none") /\ Keeps(e, waits)
  BY <1>0, LeaveTimer, ArmIsSound
<1>4. Sound(s, N, late, "none") /\ Keeps(e, late)
  <2>1. still \in Engines(s, N)
    <3>1. NoLeft \in Lefts
      BY DEF NoLeft, Lefts
    <3> QED
      BY <1>0, <3>1 DEF Engines
  <2>2. /\ still.role = e.role /\ still.session = e.session /\ still.tries = e.tries
        /\ still.slot = e.slot /\ still.discTries = e.discTries
        /\ still.silent <= MaxRetries /\ still.deadlines = e.deadlines
        /\ still.owed = e.owed /\ still.alone = e.alone /\ still.state = e.state
    BY <1>0 DEF Engines
  <2> HIDE DEF still
  <2>3. Sound(s, N, still, "leave") /\ Keeps(e, still)
    BY <2>1, <2>2, ChangedIsSound
  <2>4. Sound(s, N, late, "none") /\ Keeps(still, late) /\ late \in Engines(s, N)
    BY <2>3, IdentifyIsSound DEF Sound
  <2> QED
    BY <1>0, <2>1, <2>3, <2>4, KeepsOn
<1>5. CASE e.state = "idle" /\ e.repeats # 0
  <2>1. fewer \in Engines(s, N)
    <3>1. e.repeats - 1 \in 0 .. LeaveRepeats
      <4>1. e.repeats \in 0 .. LeaveRepeats
        BY <1>0 DEF Engines
      <4> QED
        BY <1>5, <4>1, CountAssumption
    <3> QED
      BY <1>0, <3>1 DEF Engines
  <2>2. /\ fewer.role = e.role /\ fewer.session = e.session /\ fewer.tries = e.tries
        /\ fewer.slot = e.slot /\ fewer.discTries = e.discTries
        /\ fewer.silent <= MaxRetries /\ fewer.deadlines = e.deadlines
        /\ fewer.owed = e.owed /\ fewer.alone = e.alone /\ fewer.state = e.state
    BY <1>0 DEF Engines
  <2>3. msg \in Messages(s, N) /\ room \in Nat /\ "leave" \in SlotKinds /\ Latest(N, msg)
    <3>1. e.left \in Lefts /\ e.peerIdent \in Idents(Peer(s)) /\ Peer(s) \in Stations
      BY <1>0, PeerType DEF Engines
    <3>2. e.left.session \in Nat /\ e.peerIdent \in Nat
      BY <3>1, IdentNat DEF Lefts
    <3> QED
      BY <3>1, <3>2, TimeAssumption DEF Message, Messages, Kinds, Idents, SlotKinds, Latest
  <2> HIDE DEF fewer, msg, room
  <2>4. Sound(s, N, fewer, "leave")
    BY <2>1, <2>2, ChangedIsSound
  <2>5. /\ sent \in Engines(s, N) /\ Same(fewer, sent) /\ sent.slot \in Granted
        /\ \A u : Has(fewer.deadlines, u) => Has(sent.deadlines, u)
    BY <2>1, <2>3, KeyGrantingIs
  <2> HIDE DEF sent
  <2>6. sent.slot # NoSlot
    BY <2>5, SlotNotNone
  <2>7. Sound(s, N, sent, "leave") /\ sent.state = "idle" /\ sent.hold \in Nat
    BY <1>5, <2>2, <2>4, <2>5, <2>6, SameIsSound, HoldNat DEF Same
  <2>8. Sound(s, N, again, "none") /\ Keeps(sent, again)
    BY <2>7, LeaveTimer, ArmIsSound
  <2>9. Sound(s, N, last, "none") /\ Keeps(sent, last)
    BY <2>7, IdentifyIsSound
  <2>10. Keeps(e, again) /\ Keeps(e, last)
    BY <2>7, <2>8, <2>9, KeepsIdle
  <2> HIDE DEF over, waits, late, again, last, r
  <2> QED
    BY <1>1, <1>2, <1>3, <1>4, <1>5, <2>8, <2>9, <2>10 DEF r
<1>6. CASE ~(e.state = "idle" /\ e.repeats # 0)
  <2>1. r = over
    BY <1>1, <1>6
  <2> QED
    BY <1>2, <2>1
<1> QED
  BY <1>5, <1>6
LEMMA ExpireIsSound ==
  ASSUME NEW s \in Stations, NEW N, Numbering(N), NEW e, NEW timer \in Timers,
         Sound(s, N, e, timer), MayCall(N, e) \/ timer # "connect" \/ now < e.hold,
         now \in Nat, NEW choice \in Draws
  PROVE  LET r == Expire(e, s, timer, choice)
         IN  /\ Sound(s, N, r, "none") /\ Keeps(e, r)
             /\ timer = "connect" /\ ~(now < e.hold) => ~Fresh(r)
<1> DEFINE at    == e.heardAt + LinkTimeout
           alive == Arm(e, "link", at)
           ended == EndSession(e, s, "link timeout", FALSE)
           waits == Arm(e, "connect", e.hold)
           retry == RetryConnect(e, s, choice.jitter)
           goes  == Proceed(e, s, choice.drained)
           leave == RepeatLeave(e, s)
           tells == SendIdentifier(e)
           r     == Expire(e, s, timer, choice)
<1>0. e \in Engines(s, N) /\ e.hold \in Nat /\ at \in Nat /\ choice.jitter \in Nat
  <2>1. e \in Engines(s, N) /\ e.heardAt \in Nat /\ e.hold \in Nat
    BY DEF Sound, Engines
  <2>2. choice.jitter \in Jitter
    BY DEF Draws
  <2>3. choice.jitter \in Nat
    BY <2>2, TimeAssumption
  <2>4. at \in Nat
    BY <2>1, TimeAssumption
  <2> QED
    BY <2>1, <2>3, <2>4
<1>1. /\ timer = "link" => r = IF at > now THEN alive ELSE ended
      /\ timer = "connect" => r = IF now < e.hold THEN waits ELSE retry
      /\ timer = "proceed" => r = goes
      /\ timer = "leave" => r = leave
      /\ timer = "ident" => r = tells
  BY DEF Expire
<1> HIDE DEF at, alive, ended, waits, retry, goes, leave, tells, r
<1>2. CASE timer = "link"
  <2>1. Sound(s, N, alive, "none") /\ Keeps(e, alive)
    BY <1>0, <1>2, LinkTimer, ArmIsSound DEF alive
  <2>2. EndsWell(s, N, e, "link timeout", ended)
    BY <1>0, EndedIsSound DEF ended
  <2> QED
    BY <1>1, <1>2, <2>1, <2>2 DEF EndsWell, r
<1>3. CASE timer = "connect"
  <2>1. Sound(s, N, waits, "none") /\ Keeps(e, waits)
    BY <1>0, <1>3, ConnectTimer, ArmIsSound DEF waits
  <2>2. MayCall(N, e) => Sound(s, N, retry, "none") /\ Keeps(e, retry) /\ ~Fresh(retry)
    BY <1>0, <1>3, RetryConnectIsSound DEF retry
  <2> QED
    BY <1>1, <1>3, <2>1, <2>2 DEF r
<1>4. CASE timer = "proceed"
  <2>1. Sound(s, N, goes, "none") /\ Keeps(e, goes)
    BY <1>4, ProceedIsSound DEF goes
  <2> QED
    BY <1>1, <1>4, <2>1 DEF r
<1>5. CASE timer = "leave"
  <2>1. Sound(s, N, leave, "none") /\ Keeps(e, leave)
    BY <1>5, RepeatLeaveIsSound DEF leave
  <2> QED
    BY <1>1, <1>5, <2>1 DEF r
<1>6. CASE timer = "ident"
  <2>1. Sound(s, N, tells, "none") /\ Keeps(e, tells)
    BY <1>6, SendIdentifierIsSound DEF tells
  <2> QED
    BY <1>1, <1>6, <2>1 DEF r
<1>7. timer \in {"connect", "proceed", "leave", "ident", "link"}
  BY DEF Timers
<1> QED
  BY <1>2, <1>3, <1>4, <1>5, <1>6, <1>7

\* M has the number of the call that is not sent yet, and N may lack it.
LEMMA TakeIsSound ==
  ASSUME NEW s \in Stations, NEW N, Numbering(N), NEW M, Numbering(M),
         NEW e, Sound(s, M, e, "none"), MayCall(M, e), Fresh(e) => Sound(s, N, e, "none"),
         NEW timer, now \in Nat, NEW choice \in Draws
  PROVE  LET r == Take(e, s, timer, choice)
         IN  /\ Sound(s, M, r, "none") /\ Keeps(e, r)
             /\ Fresh(r) => Sound(s, N, r, "none")
<1> DEFINE d == Disarm(e, timer)
           t == Expire(d, s, timer, choice)
           r == Take(e, s, timer, choice)
<1>0. e \in Engines(s, M)
  BY DEF Sound
<1>1. r \in {e, t} /\ (Armed(e, timer) \/ r = e)
  BY DEF Take
<1>2. CASE r = e
  BY <1>0, <1>2, KeepsItself
<1>3. CASE r = t /\ Armed(e, timer)
  <2>1. timer \in Timers
    <3>1. e.deadlines \in Deadlines /\ Has(e.deadlines, timer)
      BY <1>0, <1>3, EngineDeadlines, ArmedIsHas
    <3>2. PICK i \in DOMAIN e.deadlines : e.deadlines[i].timer = timer
      BY <3>1 DEF Has
    <3>3. e.deadlines \in Seq(Deadline)
      BY <3>1 DEF Deadlines
    <3>4. e.deadlines[i] \in Deadline
      BY <3>2, <3>3
    <3> QED
      BY <3>2, <3>4 DEF Deadline
  <2>2. Sound(s, M, d, timer) /\ Rearmed(e, d) /\ Keeps(e, d)
    BY DisarmIsSound
  <2>3. Fresh(e) => Sound(s, N, d, timer)
    BY DisarmIsSound
  <2>4. MayCall(M, d) /\ d.hold = e.hold
    BY <2>2 DEF MayCall, Rearmed, Same
  <2> HIDE DEF d
  <2>5. /\ Sound(s, M, t, "none") /\ Keeps(d, t)
        /\ timer = "connect" /\ ~(now < d.hold) => ~Fresh(t)
    BY <2>1, <2>2, <2>4, ExpireIsSound
  <2> HIDE DEF t
  <2>6. d \in Engines(s, M) /\ t \in Engines(s, M)
    BY <2>2, <2>5 DEF Sound
  <2>7. Keeps(e, t)
    BY <1>0, <2>2, <2>5, <2>6, KeepsOn
  <2>8. ASSUME Fresh(t)
        PROVE  Sound(s, N, t, "none")
    <3>1. Fresh(e)
      <4>1. e.tries \in Nat
        <5>1. e.tries \in 0 .. ConnectRetries
          BY <1>0 DEF Engines
        <5> QED
          BY <5>1, CountAssumption
      <4> QED
        BY <2>7, <2>8, <4>1 DEF Fresh, Keeps, Leading
    <3>2. timer # "connect" \/ now < d.hold
      BY <2>5, <2>8
    <3> QED
      BY <2>1, <2>3, <3>1, <3>2, ExpireIsSound DEF t
  <2> QED
    BY <1>3, <2>5, <2>7, <2>8
<1> QED
  BY <1>1, <1>2, <1>3
\* The engine after each of the timers that a pass takes.
PassedBy(e, s, choice, g, m) ==
  g = [n \in 0 .. m |->
         IF n = 0 THEN e
         ELSE Take(g[n - 1], s, e.deadlines[Order(e)[n]].timer, choice)]

LEMMA PassedExists ==
  ASSUME NEW e, NEW s, NEW choice, NEW m \in Nat
  PROVE  \E g : PassedBy(e, s, choice, g, m)
<1> DEFINE T == {n \in Nat : \E g : PassedBy(e, s, choice, g, n)}
           timer(n) == e.deadlines[Order(e)[n]].timer
<1>0. \A g, n : PassedBy(e, s, choice, g, n) <=>
        g = [i \in 0 .. n |-> IF i = 0 THEN e ELSE Take(g[i - 1], s, timer(i), choice)]
  BY DEF PassedBy
<1> HIDE DEF timer
<1>1. 0 \in T
  <2>1. PassedBy(e, s, choice, [n \in 0 .. 0 |-> e], 0)
    BY DEF PassedBy
  <2> QED
    BY <2>1
<1>2. ASSUME NEW n \in Nat, n \in T
      PROVE  n + 1 \in T
  <2>1. PICK g : PassedBy(e, s, choice, g, n)
    BY <1>2
  <2> DEFINE last == Take(g[n], s, timer(n + 1), choice)
             h == [i \in 0 .. (n + 1) |-> IF i = n + 1 THEN last ELSE g[i]]
             k == [i \in 0 .. (n + 1) |->
                     IF i = 0 THEN e ELSE Take(h[i - 1], s, timer(i), choice)]
  <2>2. ASSUME NEW i \in 0 .. (n + 1)
        PROVE  h[i] = k[i]
    <3>1. CASE i = n + 1
      <4>1. i # 0 /\ i - 1 = n /\ n \in 0 .. (n + 1) /\ n # n + 1
        BY <3>1
      <4>2. h[n] = g[n]
        BY <4>1
      <4> QED
        BY <3>1, <4>1, <4>2
    <3>2. CASE i # n + 1 /\ i # 0
      <4>1. i \in 0 .. n /\ i - 1 \in 0 .. (n + 1) /\ i - 1 # n + 1
        BY <3>2
      <4>2. g[i] = Take(g[i - 1], s, timer(i), choice)
        BY <1>0, <2>1, <3>2, <4>1
      <4>3. h[i] = g[i] /\ h[i - 1] = g[i - 1]
        BY <3>2, <4>1
      <4> HIDE DEF h
      <4> QED
        BY <3>2, <4>2, <4>3
    <3>3. CASE i = 0
      <4>1. 0 \in 0 .. n /\ 0 # n + 1
        OBVIOUS
      <4>2. g[0] = e
        BY <1>0, <2>1, <4>1
      <4> QED
        BY <3>3, <4>1, <4>2
    <3> QED
      BY <3>1, <3>2, <3>3
  <2>3. h = [i \in 0 .. (n + 1) |-> h[i]] /\ k = [i \in 0 .. (n + 1) |-> k[i]]
    OBVIOUS
  <2>4. h = k
    <3> HIDE DEF h, k
    <3> QED
      BY <2>2, <2>3
  <2>5. PassedBy(e, s, choice, h, n + 1)
    <3> HIDE DEF h
    <3> QED
      BY <1>0, <2>4
  <2> QED
    BY <2>5
<1> HIDE DEF T
<1>3. Nat \subseteq T
  BY <1>1, <1>2, SetInduction
<1> QED
  BY <1>3 DEF T

LEMMA PassIsPassed ==
  ASSUME NEW e, NEW s, NEW choice, Len(e.deadlines) \in Nat
  PROVE  \E g : /\ PassedBy(e, s, choice, g, Len(e.deadlines))
                /\ Pass(e, s, choice) = g[Len(e.deadlines)]
<1> DEFINE g == CHOOSE g : PassedBy(e, s, choice, g, Len(e.deadlines))
<1>1. PassedBy(e, s, choice, g, Len(e.deadlines))
  BY PassedExists
<1>2. Pass(e, s, choice) = g[Len(e.deadlines)]
  BY DEF Pass, PassedBy
<1> QED
  BY <1>1, <1>2

LEMMA PassIsSound ==
  ASSUME NEW s \in Stations, NEW N, Numbering(N), NEW M, Numbering(M),
         NEW e, Sound(s, M, e, "none"), MayCall(M, e), Fresh(e) => Sound(s, N, e, "none"),
         now \in Nat, NEW choice \in Draws
  PROVE  LET r == Pass(e, s, choice)
         IN  /\ Sound(s, M, r, "none") /\ Keeps(e, r)
             /\ Fresh(r) => Sound(s, N, r, "none")
<1> DEFINE m == Len(e.deadlines)
<1>0. e \in Engines(s, M) /\ m \in Nat
  <2>1. e \in Engines(s, M)
    BY DEF Sound
  <2>2. e.deadlines \in Seq(Deadline)
    BY <2>1, EngineDeadlines DEF Deadlines
  <2> QED
    BY <2>1, <2>2, LenProperties
<1>1. PICK g : PassedBy(e, s, choice, g, m) /\ Pass(e, s, choice) = g[m]
  BY <1>0, PassIsPassed
<1> HIDE DEF m
<1> DEFINE Good(x) == /\ Sound(s, M, x, "none") /\ Keeps(e, x)
                      /\ Fresh(x) => Sound(s, N, x, "none")
           T == {n \in Nat : n <= m => Good(g[n])}
<1>2. 0 \in T
  <2>1. g[0] = e
    BY <1>0, <1>1 DEF PassedBy
  <2>2. Good(e)
    BY <1>0, KeepsItself
  <2> HIDE DEF Good
  <2> QED
    BY <2>1, <2>2
<1>3. ASSUME NEW n \in Nat, n \in T
      PROVE  n + 1 \in T
  <2>1. CASE n + 1 <= m
    <3> DEFINE x == g[n]
               timer == e.deadlines[Order(e)[n + 1]].timer
               y == Take(x, s, timer, choice)
    <3>1. n + 1 \in 0 .. m /\ n + 1 # 0 /\ (n + 1) - 1 = n /\ n <= m
      BY <1>0, <2>1
    <3>2. g[n + 1] = y
      BY <1>1, <3>1 DEF PassedBy
    <3>3. Good(x)
      BY <1>3, <3>1
    <3> HIDE DEF x, timer
    <3>4. x \in Engines(s, M) /\ MayCall(M, x)
      BY <3>3 DEF Sound, MayCall, Keeps, Leading
    <3>5. Sound(s, M, y, "none") /\ Keeps(x, y) /\ (Fresh(y) => Sound(s, N, y, "none"))
      BY <3>3, <3>4, TakeIsSound
    <3> HIDE DEF y
    <3>6. Keeps(e, y)
      BY <1>0, <3>3, <3>4, <3>5, KeepsOn DEF Sound
    <3> QED
      BY <3>2, <3>5, <3>6
  <2>2. CASE ~(n + 1 <= m)
    BY <2>2
  <2> QED
    BY <2>1, <2>2
<1> HIDE DEF T
<1>4. Nat \subseteq T
  BY <1>2, <1>3, SetInduction
<1> HIDE DEF Good
<1>5. Good(g[m])
  BY <1>0, <1>4 DEF T
<1> QED
  BY <1>1, <1>5 DEF Good
-----------------------------------------------------------------------------
(* What the driver reports. *)

LEMMA OutFacts ==
  ASSUME NEW s, NEW N, NEW e \in Engines(s, N), e.out # <<>>
  PROVE  /\ Head(e.out) \in Transmissions(s, N)
         /\ Tail(e.out) \in Queues(s, N) /\ Len(Tail(e.out)) = Len(e.out) - 1
         /\ Len(e.out) \in Nat \ {0} /\ e.out[1] = Head(e.out)
<1>1. e.out \in Queues(s, N)
  BY DEF Engines
<1>2. e.out \in Seq(Transmissions(s, N))
  BY <1>1 DEF Queues
<1> QED
  BY <1>1, <1>2, TailInTurn, HeadTailProperties, EmptySeq, LenProperties

LEMMA TransmissionParts ==
  ASSUME NEW s \in Stations, NEW N, NEW tx \in Transmissions(s, N)
  PROVE  /\ tx.ident \in Idents(s) /\ tx.start \in Times /\ tx.msg \in Messages(s, N)
         /\ tx.start # NoTime => FramesEnd(tx) \in Nat
<1>1. tx.ident \in Idents(s) /\ tx.start \in Times /\ tx.msg \in Messages(s, N)
  BY DEF Transmissions
<1> QED
  BY <1>1, TimeAssumption DEF Times, FramesEnd

\* The driver is done with the oldest.
LEMMA SpentIsSound ==
  ASSUME NEW s \in Stations, NEW N, NEW e, NEW t, Sound(s, N, e, t), e.out # <<>>
  PROVE  LET r == [e EXCEPT !.out = Tail(@)]
         IN  /\ Sound(s, N, r, t) /\ Keeps(e, r) /\ r.state = e.state /\ r.slot = e.slot
             /\ r.role = e.role /\ r.out = Tail(e.out) /\ r.session = e.session
<1> DEFINE q == Tail(e.out)
           r == [e EXCEPT !.out = q]
<1>0. e \in Engines(s, N) /\ q \in Queues(s, N) /\ e.silent <= MaxRetries
  BY OutFacts DEF Sound, Shape
<1>a. [e EXCEPT !.out = Tail(@)] = r
  BY <1>0 DEF Engines
<1> HIDE DEF q
<1>1. r \in Engines(s, N)
  BY <1>0 DEF Engines
<1>2. /\ r.role = e.role /\ r.session = e.session /\ r.tries = e.tries
      /\ r.slot = e.slot /\ r.discTries = e.discTries
      /\ r.silent <= MaxRetries /\ r.deadlines = e.deadlines
      /\ r.owed = e.owed /\ r.alone = e.alone /\ r.state = e.state /\ r.out = q
  BY <1>0 DEF Engines
<1> HIDE DEF r
<1>3. Sound(s, N, r, t) /\ Keeps(e, r)
  BY <1>1, <1>2, ChangedIsSound
<1> QED
  BY <1>a, <1>2, <1>3 DEF q

LEMMA OnTxDoneIsSound ==
  ASSUME NEW s \in Stations, NEW N, NEW e, NEW t, Sound(s, N, e, t), e.out # <<>>,
         now \in Nat, NEW end \in Nat
  PROVE  LET r == OnTxDone(e, end)
         IN  Sound(s, N, r, t) /\ Keeps(e, r)
<1> DEFINE done == [e EXCEPT !.out = Tail(@)]
           slot == [done.slot EXCEPT !.final = TRUE]
           d    == [done EXCEPT !.slot = slot]
           open == OpenSlot(d, end)
           r    == OnTxDone(e, end)
<1>0. e \in Engines(s, N)
  BY DEF Sound
<1>1. Sound(s, N, done, t) /\ Keeps(e, done) /\ done.slot = e.slot /\ done.state = e.state
      /\ done.role = e.role
  BY SpentIsSound
<1>2. (r = open /\ e.slot # NoSlot) \/ r = done
  <2>1. d = [done EXCEPT !.slot.final = TRUE]
    BY <1>0 DEF Engines
  <2> QED
    BY <2>1 DEF OnTxDone
<1>3. done \in Engines(s, N) /\ done.silent <= MaxRetries
  BY <1>1 DEF Sound, Shape
<1> HIDE DEF done
<1>4. CASE r = open /\ e.slot # NoSlot
  <2>1. slot \in Granted
    <3>1. done.slot \in Granted
      BY <1>1, <1>3, <1>4 DEF Engines, Slots
    <3> QED
      BY <3>1 DEF Granted
  <2>2. slot # NoSlot /\ slot \in Slots
    BY <2>1, SlotNotNone
  <2> HIDE DEF slot
  <2>3. d \in Engines(s, N)
    BY <1>3, <2>2 DEF Engines
  <2>4. /\ d.role = done.role /\ d.session = done.session /\ d.tries = done.tries
        /\ d.slot = slot /\ d.discTries = done.discTries
        /\ d.silent <= MaxRetries /\ d.deadlines = done.deadlines
        /\ d.owed = done.owed /\ d.alone = done.alone /\ d.state = done.state
    BY <1>3 DEF Engines
  <2> HIDE DEF d
  <2>5. Sound(s, N, d, t) /\ Keeps(done, d) /\ d.slot # NoSlot
    BY <1>1, <2>2, <2>3, <2>4, ChangedIsSound
  <2>6. /\ open \in Engines(s, N) /\ Same(d, open) /\ open.slot \in Granted
        /\ \A u : Has(d.deadlines, u) => Has(open.deadlines, u)
    BY <2>3, <2>5, OpenSlotIs
  <2> HIDE DEF open
  <2>7. open.slot # NoSlot
    BY <2>6, SlotNotNone
  <2>8. Sound(s, N, open, t) /\ Keeps(d, open)
    BY <2>5, <2>6, <2>7, SameIsSound
  <2>9. Keeps(e, d)
    BY <1>0, <1>1, <1>3, <2>3, <2>5, KeepsOn
  <2>10. Keeps(e, open)
    BY <1>0, <2>3, <2>6, <2>8, <2>9, KeepsOn
  <2> QED
    BY <1>4, <2>8, <2>10
<1>5. CASE r = done
  BY <1>1, <1>5
<1> QED
  BY <1>2, <1>4, <1>5

LEMMA OnTxDroppedIsSound ==
  ASSUME NEW s \in Stations, NEW N, NEW e, NEW t, Sound(s, N, e, t), e.out # <<>>,
         now \in Nat
  PROVE  LET r == OnTxDropped(e)
         IN  Sound(s, N, r, t) /\ Keeps(e, r)
<1> DEFINE done == [e EXCEPT !.out = Tail(@)]
           ident == Head(e.out).ident
           r == OweAgain(done, ident)
<1>0. e \in Engines(s, N) /\ ident \in Idents(s)
  <2>1. e \in Engines(s, N)
    BY DEF Sound
  <2> QED
    BY <2>1, OutFacts, TransmissionParts
<1>1. Sound(s, N, done, t) /\ Keeps(e, done)
  BY SpentIsSound
<1>2. OnTxDropped(e) = r
  BY DEF OnTxDropped
<1> HIDE DEF done, ident
<1>3. Sound(s, N, r, t) /\ Keeps(done, r)
  BY <1>0, <1>1, OweAgainIsSound
<1>4. done \in Engines(s, N) /\ r \in Engines(s, N)
  BY <1>1, <1>3 DEF Sound
<1> QED
  BY <1>0, <1>1, <1>2, <1>3, <1>4, KeepsOn
\* An abort ends the session, so what the flush before it leaves need only be an
\* engine.
LEMMA OweAgainType ==
  ASSUME NEW s \in Stations, NEW N, NEW e \in Engines(s, N), now \in Nat,
         NEW ident \in Idents(s)
  PROVE  OweAgain(e, ident) \in Engines(s, N) /\ OweAgain(e, ident).out = e.out
<1> DEFINE d == [e EXCEPT !.owed = ident, !.alone = TRUE, !.listen = TRUE]
           at == now + Exchange
           r == Arm(d, "ident", at)
<1>1. OweAgain(e, ident) \in {e, r}
  BY DEF OweAgain
<1>2. d \in Engines(s, N) /\ d.out = e.out
  BY DEF Engines
<1>3. at \in Nat
  BY TimeAssumption
<1> HIDE DEF d, at
<1>4. r \in Engines(s, N) /\ Rearmed(d, r)
  BY <1>2, <1>3, IdentTimer, ArmIs
<1> HIDE DEF r
<1> QED
  BY <1>1, <1>2, <1>4 DEF Rearmed

LEMMA SpentType ==
  ASSUME NEW s, NEW N, NEW e \in Engines(s, N), e.out # <<>>
  PROVE  [e EXCEPT !.out = Tail(@)] \in Engines(s, N)
         /\ [e EXCEPT !.out = Tail(@)].out = Tail(e.out)
         /\ [e EXCEPT !.out = Tail(@)].slot = e.slot
<1> DEFINE q == Tail(e.out)
<1>1. q \in Queues(s, N)
  BY OutFacts
<1>2. [e EXCEPT !.out = Tail(@)] = [e EXCEPT !.out = q]
  BY DEF Engines
<1> HIDE DEF q
<1>3. [e EXCEPT !.out = q] \in Engines(s, N) /\ [e EXCEPT !.out = q].out = q
      /\ [e EXCEPT !.out = q].slot = e.slot
  BY <1>1 DEF Engines
<1> QED
  BY <1>2, <1>3 DEF q

LEMMA OnTxDroppedType ==
  ASSUME NEW s \in Stations, NEW N, NEW e \in Engines(s, N), e.out # <<>>, now \in Nat
  PROVE  OnTxDropped(e) \in Engines(s, N) /\ OnTxDropped(e).out = Tail(e.out)
<1> DEFINE done == [e EXCEPT !.out = Tail(@)]
           ident == Head(e.out).ident
<1>1. done \in Engines(s, N) /\ done.out = Tail(e.out)
  BY SpentType
<1>2. ident \in Idents(s)
  BY OutFacts, TransmissionParts
<1>3. OnTxDropped(e) = OweAgain(done, ident)
  BY DEF OnTxDropped
<1> HIDE DEF done, ident
<1> QED
  BY <1>1, <1>2, <1>3, OweAgainType

LEMMA OnTxCutUnreadType ==
  ASSUME NEW s \in Stations, NEW N, NEW e \in Engines(s, N), e.out # <<>>, now \in Nat
  PROVE  OnTxCutUnread(e) \in Engines(s, N)
<1> DEFINE done == [e EXCEPT !.out = Tail(@)]
           ident == Head(e.out).ident
           cut == OweAgain(done, ident)
           free == [cut EXCEPT !.slot = NoSlot, !.hold = now]
           armed == Arm(free, "proceed", now)
<1>1. done \in Engines(s, N)
  BY SpentType
<1>2. ident \in Idents(s)
  BY OutFacts, TransmissionParts
<1>3. OnTxCutUnread(e) \in {cut, free, armed}
  BY DEF OnTxCutUnread
<1> HIDE DEF done, ident
<1>4. cut \in Engines(s, N)
  BY <1>1, <1>2, OweAgainType
<1> HIDE DEF cut
<1>5. free \in Engines(s, N)
  <2>1. NoSlot \in Slots
    BY DEF Slots
  <2> QED
    BY <1>4, <2>1 DEF Engines
<1> HIDE DEF free
<1>6. armed \in Engines(s, N)
  BY <1>5, ProceedTimer, ArmIs
<1> QED
  BY <1>3, <1>4, <1>5, <1>6

LEMMA OnTxDoneType ==
  ASSUME NEW s \in Stations, NEW N, NEW e \in Engines(s, N), e.out # <<>>, now \in Nat,
         NEW end \in Nat
  PROVE  OnTxDone(e, end) \in Engines(s, N)
<1> DEFINE done == [e EXCEPT !.out = Tail(@)]
           slot == [done.slot EXCEPT !.final = TRUE]
           d    == [done EXCEPT !.slot = slot]
           open == OpenSlot(d, end)
<1>1. done \in Engines(s, N) /\ done.slot = e.slot
  BY SpentType
<1>2. (OnTxDone(e, end) = open /\ e.slot # NoSlot) \/ OnTxDone(e, end) = done
  <2>1. d = [done EXCEPT !.slot.final = TRUE]
    BY <1>1 DEF Engines
  <2> QED
    BY <2>1 DEF OnTxDone
<1> HIDE DEF done
<1>3. CASE e.slot # NoSlot
  <2>1. slot \in Granted
    <3>1. done.slot \in Granted
      BY <1>1, <1>3 DEF Engines, Slots
    <3> QED
      BY <3>1 DEF Granted
  <2>2. slot # NoSlot /\ slot \in Slots
    BY <2>1, SlotNotNone
  <2> HIDE DEF slot
  <2>3. d \in Engines(s, N) /\ d.slot = slot
    BY <1>1, <2>2 DEF Engines
  <2> HIDE DEF d
  <2>4. open \in Engines(s, N)
    BY <2>2, <2>3, OpenSlotIs
  <2> QED
    BY <1>1, <1>2, <2>4
<1>4. CASE e.slot = NoSlot
  BY <1>1, <1>2, <1>4
<1> QED
  BY <1>3, <1>4

\* What is left of the queue as the driver drops it.
DroppedBy(off, g, m) ==
  g = [n \in 0 .. m |-> IF n = 0 THEN off ELSE OnTxDropped(g[n - 1])]

LEMMA DroppedExists ==
  ASSUME NEW off, NEW m \in Nat
  PROVE  \E g : DroppedBy(off, g, m)
<1> DEFINE T == {n \in Nat : \E g : DroppedBy(off, g, n)}
<1>1. 0 \in T
  <2>1. DroppedBy(off, [n \in 0 .. 0 |-> off], 0)
    BY DEF DroppedBy
  <2> QED
    BY <2>1
<1>2. ASSUME NEW n \in Nat, n \in T
      PROVE  n + 1 \in T
  <2>1. PICK g : DroppedBy(off, g, n)
    BY <1>2
  <2> DEFINE last == OnTxDropped(g[n])
             h == [i \in 0 .. (n + 1) |-> IF i = n + 1 THEN last ELSE g[i]]
             k == [i \in 0 .. (n + 1) |-> IF i = 0 THEN off ELSE OnTxDropped(h[i - 1])]
  <2>2. ASSUME NEW i \in 0 .. (n + 1)
        PROVE  h[i] = k[i]
    <3>1. CASE i = n + 1
      <4>1. i # 0 /\ i - 1 = n /\ n \in 0 .. (n + 1) /\ n # n + 1
        BY <3>1
      <4>2. h[n] = g[n]
        BY <4>1
      <4> QED
        BY <3>1, <4>1, <4>2
    <3>2. CASE i # n + 1 /\ i # 0
      <4>1. i \in 0 .. n /\ i - 1 \in 0 .. (n + 1) /\ i - 1 # n + 1
        BY <3>2
      <4>2. g[i] = OnTxDropped(g[i - 1])
        BY <2>1, <3>2, <4>1 DEF DroppedBy
      <4>3. h[i] = g[i] /\ h[i - 1] = g[i - 1]
        BY <3>2, <4>1
      <4> HIDE DEF h
      <4> QED
        BY <3>2, <4>2, <4>3
    <3>3. CASE i = 0
      <4>1. 0 \in 0 .. n /\ 0 # n + 1
        OBVIOUS
      <4>2. g[0] = off
        BY <2>1, <4>1 DEF DroppedBy
      <4> QED
        BY <3>3, <4>1, <4>2
    <3> QED
      BY <3>1, <3>2, <3>3
  <2>3. h = [i \in 0 .. (n + 1) |-> h[i]] /\ k = [i \in 0 .. (n + 1) |-> k[i]]
    OBVIOUS
  <2>4. h = k
    <3> HIDE DEF h, k
    <3> QED
      BY <2>2, <2>3
  <2>5. DroppedBy(off, h, n + 1)
    <3> HIDE DEF h
    <3> QED
      BY <2>4 DEF DroppedBy
  <2> QED
    BY <2>5
<1> HIDE DEF T
<1>3. Nat \subseteq T
  BY <1>1, <1>2, SetInduction
<1> QED
  BY <1>3 DEF T

LEMMA FlushedType ==
  ASSUME NEW s \in Stations, NEW N, NEW e \in Engines(s, N), now \in Nat
  PROVE  Flushed(e) \in Engines(s, N)
<1> DEFINE on  == e.out # <<>> /\ Head(e.out).start # NoTime
           off == IF ~on THEN e
                  ELSE IF CutUnread(Head(e.out)) THEN OnTxCutUnread(e)
                  ELSE OnTxDone(e, FramesEnd(Head(e.out)))
           m   == Len(off.out)
           g   == CHOOSE g : DroppedBy(off, g, m)
<1>1. off \in Engines(s, N)
  <2>1. CASE ~on
    BY <2>1
  <2>2. CASE on
    <3>1. FramesEnd(Head(e.out)) \in Nat
      BY <2>2, OutFacts, TransmissionParts
    <3>2. OnTxCutUnread(e) \in Engines(s, N)
      BY <2>2, OnTxCutUnreadType
    <3>3. OnTxDone(e, FramesEnd(Head(e.out))) \in Engines(s, N)
      BY <2>2, <3>1, OnTxDoneType
    <3> QED
      BY <3>2, <3>3
  <2> QED
    BY <2>1, <2>2
<1>2. m \in Nat
  <2>1. off.out \in Seq(Transmissions(s, N))
    BY <1>1 DEF Engines, Queues
  <2> QED
    BY <2>1, LenProperties
<1>3. Flushed(e) = g[m]
  BY DEF Flushed, DroppedBy
<1> HIDE DEF off
<1>4. DroppedBy(off, g, m)
  BY <1>2, DroppedExists
<1> HIDE DEF g
<1> DEFINE Good(n) == g[n] \in Engines(s, N) /\ Len(g[n].out) = m - n
           T == {n \in Nat : n <= m => Good(n)}
<1>5. 0 \in T
  BY <1>1, <1>2, <1>4 DEF DroppedBy
<1>6. ASSUME NEW n \in Nat, n \in T
      PROVE  n + 1 \in T
  <2>1. CASE n + 1 <= m
    <3> DEFINE x == g[n]
    <3>1. n + 1 \in 0 .. m /\ n + 1 # 0 /\ (n + 1) - 1 = n /\ n <= m
      BY <1>2, <2>1
    <3>2. g[n + 1] = OnTxDropped(x)
      BY <1>4, <3>1 DEF DroppedBy
    <3>3. x \in Engines(s, N) /\ Len(x.out) = m - n
      BY <1>6, <3>1
    <3> HIDE DEF x
    <3>4. x.out # <<>>
      BY <1>2, <2>1, <3>3, EmptySeq
    <3>5. OnTxDropped(x) \in Engines(s, N) /\ Len(OnTxDropped(x).out) = Len(x.out) - 1
      BY <3>3, <3>4, OnTxDroppedType, OutFacts
    <3> QED
      BY <1>2, <3>2, <3>3, <3>5
  <2>2. CASE ~(n + 1 <= m)
    BY <2>2
  <2> QED
    BY <2>1, <2>2
<1> HIDE DEF T
<1>7. Nat \subseteq T
  BY <1>5, <1>6, SetInduction
<1>8. Good(m)
  BY <1>2, <1>7 DEF T
<1> QED
  BY <1>3, <1>8

LEMMA AbortIsSound ==
  ASSUME NEW s \in Stations, NEW N, Numbering(N), NEW e \in Engines(s, N), now \in Nat
  PROVE  Sound(s, N, Abort(e, s), "none") /\ Abort(e, s).state = "idle"
<1> DEFINE ended == EndSession(e, s, "aborted", FALSE)
           d     == [ended EXCEPT !.repeats = LeaveRepeats]
           at    == Max2(now, ended.hold)
           leave == Arm(d, "leave", at)
           tells == IdentifyAfterLeaving(ended)
           r     == Abort(e, s)
<1>1. r = IF e.role = "master" /\ ended.left # NoLeft THEN leave
          ELSE IF e.role = "master" THEN tells ELSE ended
  BY DEF Abort
<1>2. EndsWell(s, N, e, "aborted", ended)
  BY EndedIsSound
<1> HIDE DEF ended, r
<1>3. ended.state = "idle" /\ ended \in Engines(s, N)
      /\ Sound(s, N, ended, IF e.role = "master" THEN "leave" ELSE "none")
      /\ ended.silent <= MaxRetries
  BY <1>2 DEF EndsWell, Sound, Shape
<1>4. CASE e.role # "master"
  BY <1>1, <1>3, <1>4 DEF r
<1>5. CASE e.role = "master"
  <2>1. d \in Engines(s, N)
    <3>1. LeaveRepeats \in 0 .. LeaveRepeats
      BY CountAssumption
    <3> QED
      BY <1>3, <3>1 DEF Engines
  <2>2. /\ d.role = ended.role /\ d.session = ended.session /\ d.tries = ended.tries
        /\ d.slot = ended.slot /\ d.discTries = ended.discTries
        /\ d.silent <= MaxRetries /\ d.deadlines = ended.deadlines
        /\ d.owed = ended.owed /\ d.alone = ended.alone /\ d.state = ended.state
    BY <1>3 DEF Engines
  <2> HIDE DEF d
  <2>3. Sound(s, N, d, "leave")
    BY <1>3, <1>5, <2>1, <2>2, ChangedIsSound
  <2>4. at \in Nat
    <3>1. ended.hold \in Nat
      BY <1>3, HoldNat
    <3> QED
      BY <3>1, Later
  <2> HIDE DEF at
  <2>5. Sound(s, N, leave, "none") /\ Rearmed(d, leave)
    BY <2>3, <2>4, LeaveTimer, ArmIsSound
  <2> HIDE DEF leave
  <2>6. leave.state = "idle"
    BY <1>3, <2>2, <2>5 DEF Rearmed, Same
  <2>7. Sound(s, N, tells, "none") /\ tells.state = "idle"
    BY <1>3, <1>5, IdentifyIsSound
  <2> QED
    BY <1>1, <1>5, <2>5, <2>6, <2>7 DEF r
<1> QED
  BY <1>4, <1>5

\* The oldest goes on the air: M has the number of a call among those sent.
LEMMA StartedIsSound ==
  ASSUME NEW s, NEW N, NEW e, NEW t, Sound(s, N, e, t), e.out # <<>>, now \in Nat,
         NEW M, M.own = N.own, M.call = N.call, M.accept = N.accept, M.agreed = N.agreed,
         \A m \in M.sent :
           m \in N.sent \/ (IsCall(Head(e.out)) /\ m = Head(e.out).msg.session)
  PROVE  LET r == [e EXCEPT !.out[1].start = now]
         IN  Sound(s, M, r, t) /\ Keeps(e, r)
<1> DEFINE tx == [e.out[1] EXCEPT !.start = now]
           q  == [e.out EXCEPT ![1] = tx]
           r  == [e EXCEPT !.out = q]
<1>0. e \in Engines(s, N) /\ e.silent <= MaxRetries
  BY DEF Sound, Shape
<1>1. /\ e.out \in Seq(Transmissions(s, N)) /\ Len(e.out) \in Nat \ {0}
      /\ e.out[1] \in Transmissions(s, N) /\ e.out[1] = Head(e.out)
      /\ InTurn(e.out) /\ AfterSent(N, e.out)
  BY <1>0, OutFacts DEF Engines, Queues
<1>2. [e EXCEPT !.out[1].start = now] = r
  BY <1>0, <1>1 DEF Engines
<1>a. Transmissions(s, N) = Transmissions(s, M)
  BY DEF Transmissions, Messages
<1>3. tx \in Transmissions(s, M) /\ tx.msg = e.out[1].msg
  <2>1. now \in Times
    BY DEF Times
  <2>2. tx \in Transmissions(s, N) /\ tx.msg = e.out[1].msg
    BY <1>1, <2>1 DEF Transmissions
  <2> QED
    BY <1>a, <2>2
<1> HIDE DEF tx
<1>4. q \in Queues(s, M)
  <2>1. q \in Seq(Transmissions(s, M)) /\ DOMAIN q = DOMAIN e.out
    BY <1>1, <1>3, <1>a
  <2>2. \A i \in DOMAIN e.out : q[i].msg = e.out[i].msg
    BY <1>1, <1>3
  <2>3. 1 \in DOMAIN e.out /\ \A i \in DOMAIN e.out : i = 1 \/ 1 < i
    <3>1. DOMAIN e.out = 1 .. Len(e.out)
      BY <1>1, LenProperties
    <3> QED
      BY <1>1, <3>1
  <2> HIDE DEF q
  <2>4. InTurn(q)
    BY <1>1, <2>1, <2>2 DEF InTurn, IsCall
  <2>5. ASSUME NEW i \in DOMAIN q, IsCall(q[i]), NEW m \in M.sent
        PROVE  m <= q[i].msg.session
    <3>1. i \in DOMAIN e.out /\ IsCall(e.out[i]) /\ q[i].msg = e.out[i].msg
      BY <2>1, <2>2, <2>5 DEF IsCall
    <3>2. CASE m \in N.sent
      BY <1>1, <3>1, <3>2 DEF AfterSent
    <3>3. CASE IsCall(e.out[1]) /\ m = e.out[1].msg.session
      <4>1. e.out[1].msg.session \in Nat
        BY <1>1 DEF Transmissions, Messages
      <4>2. i = 1 \/ 1 < i
        BY <2>3, <3>1
      <4> QED
        BY <1>1, <2>3, <3>1, <3>3, <4>1, <4>2 DEF InTurn
    <3> QED
      BY <1>1, <3>2, <3>3
  <2> QED
    BY <2>1, <2>4, <2>5 DEF AfterSent, Queues
<1> HIDE DEF q
<1>5. r \in Engines(s, M)
  BY <1>0, <1>4 DEF Engines
<1>6. /\ r.role = e.role /\ r.session = e.session /\ r.tries = e.tries
      /\ r.slot = e.slot /\ r.discTries = e.discTries
      /\ r.silent <= MaxRetries /\ r.deadlines = e.deadlines
      /\ r.owed = e.owed /\ r.alone = e.alone /\ r.state = e.state
  BY <1>0 DEF Engines
<1> HIDE DEF r
<1>7. Shape(M, r)
  BY <1>6 DEF Sound, Shape, Up
<1>8. TimedBut(r, t)
  BY <1>6 DEF Sound, TimedBut, Up
<1>9. Keeps(e, r)
  BY <1>0, <1>6, KeepsItself DEF Keeps, Leading
<1> QED
  BY <1>2, <1>5, <1>7, <1>8, <1>9 DEF Sound

-----------------------------------------------------------------------------
(* The two stations. w[s] has the numbers that s has called with, those of *)
(* its calls that have been on the air, and those that it has accepted: of *)
(* sessions that the other has called it with. k is the last number drawn. *)

Histories(k) ==
  [call : SUBSET (1 .. k), sent : SUBSET (1 .. k), accept : SUBSET (1 .. k)]

Witnesses(k) ==
  {w \in [Stations -> Histories(k)] :
     \A s \in Stations : /\ w[s].sent \subseteq w[s].call
                         /\ w[s].accept \subseteq w[Peer(s)].sent}

Num(w, s, k) == [own |-> 1 .. k, call |-> w[s].call, sent |-> w[s].sent,
                 accept |-> w[s].accept, agreed |-> w[Peer(s)].accept]

\* A station calls, or is the master, under a number later than all that it has
\* accepted, the latest it has called with; a slave is in the latest accepted.
Ranked(N, e) ==
  /\ Leading(e) => (\A m \in N.accept : m < e.session) /\ (\A m \in N.call : m <= e.session)
  /\ e.role = "slave" => \A m \in N.accept : m <= e.session

\* A call not sent yet is under a number that no frame can carry.
Engine(w, k, s, e) ==
  /\ Sound(s, Num(w, s, k), e, "none") /\ Ranked(Num(w, s, k), e)
  /\ Fresh(e) => e.session \in (1 .. k) \ w[s].call

Engined(w, k, g) == \A s \in Stations : Engine(w, k, s, g[s])

\* What s may still read: calls that were sent, each no earlier than what s has
\* accepted and than the calls sent before it.
Heeded(w, s, q) ==
  \A f \in q : IsCall(f) =>
    /\ f.msg.session \in w[Peer(s)].sent
    /\ \A m \in w[s].accept : m <= f.msg.session
    /\ \A g \in q : IsCall(g) /\ f.start < g.start => f.msg.session <= g.msg.session

AiredTo(w, k, s, q, t) ==
  /\ q \subseteq Frames(Peer(s), Num(w, Peer(s), k)) /\ IsFiniteSet(q)
  /\ \A f \in q : f.start <= t
  /\ Heeded(w, s, q)

Aired(w, k, a, t) == \A s \in Stations : AiredTo(w, k, s, a[s], t)

LEMMA WitnessParts ==
  ASSUME NEW k \in Nat, NEW w \in Witnesses(k), NEW s \in Stations
  PROVE  /\ w \in [Stations -> Histories(k)] /\ w[s] \in Histories(k)
         /\ w[s].call \subseteq 1 .. k /\ w[s].sent \subseteq 1 .. k
         /\ w[s].accept \subseteq 1 .. k
         /\ w[s].sent \subseteq w[s].call /\ w[s].accept \subseteq w[Peer(s)].sent
<1>1. w \in [Stations -> Histories(k)] /\ w[s] \in Histories(k)
      /\ w[s].sent \subseteq w[s].call /\ w[s].accept \subseteq w[Peer(s)].sent
  BY DEF Witnesses
<1> QED
  BY <1>1 DEF Histories

LEMMA NumIsNumbering ==
  ASSUME NEW k \in Nat, NEW w \in Witnesses(k), NEW s \in Stations
  PROVE  Numbering(Num(w, s, k))
BY WitnessParts DEF Numbering, Num

\* One station's history grows.
LEMMA WitnessGrows ==
  ASSUME NEW k \in Nat, NEW w \in Witnesses(k), NEW s \in Stations, NEW h \in Histories(k),
         w[s].sent \subseteq h.sent, h.sent \subseteq h.call,
         h.accept \subseteq w[Peer(s)].sent
  PROVE  LET v == [w EXCEPT ![s] = h]
         IN  v \in Witnesses(k) /\ v[s] = h /\ v[Peer(s)] = w[Peer(s)]
<1> DEFINE v == [w EXCEPT ![s] = h]
<1>1. w \in [Stations -> Histories(k)]
  BY DEF Witnesses
<1>2. v \in [Stations -> Histories(k)] /\ v[s] = h
      /\ \A p \in Stations : p # s => v[p] = w[p]
  BY <1>1
<1> HIDE DEF v
<1>3. Peer(s) \in Stations /\ Peer(s) # s /\ Stations = {s, Peer(s)} /\ Peer(Peer(s)) = s
  BY PeerType
<1>4. /\ w[Peer(s)].sent \subseteq w[Peer(s)].call
      /\ w[Peer(s)].accept \subseteq w[s].sent
  BY <1>3, WitnessParts
<1>5. ASSUME NEW p \in Stations
      PROVE  v[p].sent \subseteq v[p].call /\ v[p].accept \subseteq v[Peer(p)].sent
  <2>1. CASE p = s
    BY <1>2, <1>3, <2>1
  <2>2. CASE p = Peer(s)
    BY <1>2, <1>3, <1>4, <2>2
  <2> QED
    BY <1>3, <2>1, <2>2
<1>6. v \in Witnesses(k)
  BY <1>2, <1>5 DEF Witnesses
<1> QED
  BY <1>2, <1>3, <1>6 DEF v

\* A number more: every station's history may go on as it is.
LEMMA WitnessLonger ==
  ASSUME NEW k \in Nat, NEW w \in Witnesses(k), NEW l \in Nat, k <= l
  PROVE  w \in Witnesses(l)
<1>1. 1 .. k \subseteq 1 .. l
  OBVIOUS
<1>2. Histories(k) \subseteq Histories(l)
  BY <1>1 DEF Histories
<1> QED
  BY <1>2 DEF Witnesses

\* One engine takes a step and its history grows: the other sees no more than
\* that what it has called with is accepted.
LEMMA EnginedStep ==
  ASSUME NEW k \in Nat, NEW w, NEW v, NEW g, g = [p \in Stations |-> g[p]],
         Engined(w, k, g), NEW s \in Stations, NEW r, Engine(v, k, s, r),
         v[Peer(s)] = w[Peer(s)], w[s].accept \subseteq v[s].accept
  PROVE  Engined(v, k, [g EXCEPT ![s] = r])
<1> DEFINE h == [g EXCEPT ![s] = r]
<1>1. h[s] = r /\ \A p \in Stations : p # s => h[p] = g[p]
  OBVIOUS
<1> HIDE DEF h
<1>2. Peer(s) \in Stations /\ Peer(s) # s /\ Stations = {s, Peer(s)} /\ Peer(Peer(s)) = s
  BY PeerType
<1>3. Engine(v, k, Peer(s), g[Peer(s)])
  <2> DEFINE p == Peer(s)
             N == Num(w, p, k)
             M == Num(v, p, k)
  <2>1. Engine(w, k, p, g[p])
    BY <1>2 DEF Engined
  <2>2. Within(N, M) /\ M.accept = N.accept /\ M.call = N.call
    BY <1>2 DEF Within, Num
  <2>3. Sound(p, N, g[p], "none") /\ Ranked(N, g[p])
        /\ (Fresh(g[p]) => g[p].session \in (1 .. k) \ w[p].call)
    BY <2>1 DEF Engine
  <2> HIDE DEF N, M
  <2>4. Sound(p, M, g[p], "none") /\ Ranked(M, g[p])
    BY <2>2, <2>3, SoundGrows DEF Ranked
  <2> QED
    BY <2>3, <2>4 DEF Engine, M
<1> QED
  BY <1>1, <1>2, <1>3 DEF Engined, h

\* The frames of a station that reads nothing, or loses some, as time goes on.
LEMMA AiredStays ==
  ASSUME NEW k \in Nat, NEW l \in Nat, NEW w, NEW v, NEW s \in Stations,
         NEW q, NEW t \in Nat, AiredTo(w, k, s, q, t), NEW b, b \subseteq q,
         NEW at \in Nat, t <= at,
         v[s].accept = w[s].accept,
         w[Peer(s)].call \subseteq v[Peer(s)].call,
         w[Peer(s)].sent \subseteq v[Peer(s)].sent,
         w[Peer(s)].accept \subseteq v[Peer(s)].accept
  PROVE  AiredTo(v, l, s, b, at)
<1> DEFINE N == Num(w, Peer(s), k)
           M == Num(v, Peer(s), l)
<1>1. Frames(Peer(s), N) \subseteq Frames(Peer(s), M)
  <2>1. N.call \subseteq M.call /\ N.accept \subseteq M.accept
    BY DEF Num
  <2> HIDE DEF N, M
  <2> QED
    BY <2>1, FramesGrow
<1>2. q \subseteq Frames(Peer(s), N) /\ IsFiniteSet(q) /\ Heeded(w, s, q)
      /\ \A f \in q : f.start <= t
  BY DEF AiredTo
<1> HIDE DEF N
<1>3. IsFiniteSet(b)
  BY <1>2, FS_Subset
<1>4. \A f \in b : f.start <= at
  <2>1. \A f \in b : f.start \in Nat /\ f.start <= t
    BY <1>2 DEF Frames
  <2> QED
    BY <2>1
<1>5. Heeded(v, s, b)
  BY <1>2 DEF Heeded
<1> QED
  BY <1>1, <1>2, <1>3, <1>4, <1>5 DEF AiredTo

-----------------------------------------------------------------------------
(* The inductive invariant. The two stations' histories are not in the     *)
(* state: that there are such histories is what it says.                   *)

Placing(w) ==
  /\ w \in Witnesses(session)
  /\ eng = [s \in Stations |-> eng[s]] /\ air = [s \in Stations |-> air[s]]
  /\ Engined(w, session, eng) /\ Aired(w, session, air, now)

Counted ==
  now \in 0 .. MaxTime /\ session \in 0 .. MaxSession /\ lost \in 0 .. MaxLost /\ apart \in Nat

IInv == Counted /\ \E w \in Witnesses(session) : Placing(w)

LEMMA CountsNat ==
  Counted => /\ now \in Nat /\ now <= MaxTime /\ session \in Nat
             /\ lost \in Nat /\ lost <= MaxLost /\ apart \in Nat
BY CountAssumption DEF Counted

LEMMA Counting ==
  ASSUME Counted, now' \in {now, now + 1}, now' <= MaxTime, session' = session,
         lost' \in Nat, lost' <= MaxLost, apart' \in Nat
  PROVE  Counted'
BY CountAssumption DEF Counted

\* One engine takes a step, in which its history may grow.
LEMMA EngineStep ==
  ASSUME Counted, NEW w, Placing(w), NEW s \in Stations, NEW r,
         eng' = [eng EXCEPT ![s] = r], session' = session, Counted',
         NEW v \in Witnesses(session), Engine(v, session, s, r),
         v[Peer(s)] = w[Peer(s)], w[s].accept \subseteq v[s].accept,
         air' = [p \in Stations |-> air'[p]], Aired(v, session, air', now')
  PROVE  IInv'
<1>1. session \in Nat
  BY CountsNat
<1>2. eng = [p \in Stations |-> eng[p]] /\ Engined(w, session, eng)
  BY DEF Placing
<1>3. Engined(v, session, [eng EXCEPT ![s] = r])
  BY <1>1, <1>2, EnginedStep
<1>4. eng' = [p \in Stations |-> eng'[p]]
  BY <1>2
<1>5. PICK x : x = v
  OBVIOUS
<1>6. Placing(x)' /\ x \in Witnesses(session')
  <2>1. x \in Witnesses(session') /\ Engined(x, session', eng')
        /\ Aired(x, session', air', now')
    BY <1>3, <1>5
  <2> QED
    BY <1>4, <2>1 DEF Placing
<1> QED
  BY <1>6 DEF IInv

\* A step that calls nobody and accepts no call.
LEMMA KeptStep ==
  ASSUME Counted, NEW w, Placing(w), NEW s \in Stations, NEW r,
         eng' = [eng EXCEPT ![s] = r], session' = session, Counted',
         Sound(s, Num(w, s, session), r, "none"), Keeps(eng[s], r),
         air' = [p \in Stations |-> air'[p]], Aired(w, session, air', now')
  PROVE  IInv'
<1> DEFINE e == eng[s]
           N == Num(w, s, session)
<1>1. w \in Witnesses(session) /\ Sound(s, N, e, "none") /\ Ranked(N, e)
      /\ (Fresh(e) => e.session \in (1 .. session) \ w[s].call)
  BY DEF Placing, Engined, Engine
<1>2. e.tries \in Nat /\ r.tries \in Nat
  <2>1. e.tries \in 0 .. ConnectRetries /\ r.tries \in 0 .. ConnectRetries
    BY <1>1 DEF Sound, Engines
  <2> QED
    BY <2>1, CountAssumption
<1> HIDE DEF e, N
<1>3. Fresh(r) => Fresh(e) /\ r.session = e.session
  BY <1>2 DEF Fresh, Keeps, Leading, e
<1>4. Ranked(N, r)
  BY <1>1 DEF Ranked, Keeps, e
<1>5. Engine(w, session, s, r)
  BY <1>1, <1>3, <1>4 DEF Engine, N
<1> QED
  BY <1>1, <1>5, EngineStep
-----------------------------------------------------------------------------
(* The actions. *)

LEMMA Before ==
  ASSUME Counted, NEW w, Placing(w), NEW s \in Stations
  PROVE  /\ now \in Nat /\ session \in Nat /\ w \in Witnesses(session)
         /\ Numbering(Num(w, s, session)) /\ Sound(s, Num(w, s, session), eng[s], "none")
         /\ Ranked(Num(w, s, session), eng[s])
         /\ Fresh(eng[s]) => eng[s].session \in (1 .. session) \ w[s].call
         /\ eng = [p \in Stations |-> eng[p]] /\ air = [p \in Stations |-> air[p]]
         /\ Aired(w, session, air, now) /\ Engined(w, session, eng)
<1>1. now \in Nat /\ session \in Nat
  BY CountsNat
<1>2. /\ w \in Witnesses(session) /\ Aired(w, session, air, now)
      /\ eng = [p \in Stations |-> eng[p]] /\ air = [p \in Stations |-> air[p]]
      /\ Engined(w, session, eng)
  BY DEF Placing
<1>3. Engine(w, session, s, eng[s])
  BY <1>2 DEF Engined
<1> QED
  BY <1>1, <1>2, <1>3, NumIsNumbering DEF Engine

\* One station's frames are fewer; the other's are as they were.
LEMMA AiredFewer ==
  ASSUME NEW k \in Nat, NEW w, NEW a, a = [p \in Stations |-> a[p]], NEW t \in Nat,
         Aired(w, k, a, t), NEW s \in Stations, NEW b, b \subseteq a[s]
  PROVE  LET c == [a EXCEPT ![s] = b]
         IN  c = [p \in Stations |-> c[p]] /\ Aired(w, k, c, t)
<1> DEFINE c == [a EXCEPT ![s] = b]
<1>1. c = [p \in Stations |-> c[p]] /\ \A p \in Stations : c[p] \subseteq a[p]
  OBVIOUS
<1> HIDE DEF c
<1>2. ASSUME NEW p \in Stations
      PROVE  AiredTo(w, k, p, c[p], t)
  <2>1. AiredTo(w, k, p, a[p], t) /\ c[p] \subseteq a[p] /\ t <= t
    BY <1>1 DEF Aired
  <2> QED
    BY <2>1, AiredStays
<1> QED
  BY <1>1, <1>2 DEF Aired, c

\* Nothing on the air changes.
LEMMA QuietStep ==
  ASSUME Counted, NEW w, Placing(w), NEW s \in Stations, NEW r,
         eng' = [eng EXCEPT ![s] = r], session' = session, now' = now, air' = air,
         lost' \in Nat, lost' <= MaxLost, apart' = apart,
         Sound(s, Num(w, s, session), r, "none"), Keeps(eng[s], r)
  PROVE  IInv'
<1>1. Counted'
  BY CountsNat, Counting
<1>2. air' = [p \in Stations |-> air'[p]] /\ Aired(w, session, air', now')
  BY Before
<1> QED
  BY <1>1, <1>2, KeptStep

LEMMA DisconnectStep ==
  ASSUME Counted, NEW w, Placing(w), NEW s \in Stations, Disconnect(s)
  PROVE  IInv'
<1> DEFINE e == eng[s]
           since == IF e.since = NoTime THEN now ELSE e.since
           r == [e EXCEPT !.asked = TRUE, !.since = since]
           N == Num(w, s, session)
<1>1. now \in Nat /\ Sound(s, N, e, "none") /\ eng = [p \in Stations |-> eng[p]]
  BY Before
<1>2. /\ eng' = [eng EXCEPT ![s].asked = TRUE, ![s].since = IF @ = NoTime THEN now ELSE @]
      /\ UNCHANGED <<now, air, session, lost, apart>>
  BY DEF Disconnect
<1> HIDE DEF N
<1>3. e \in Engines(s, N) /\ e.silent <= MaxRetries
  BY <1>1 DEF Sound, Shape
<1>4. eng' = [eng EXCEPT ![s] = r]
  BY <1>1, <1>2, <1>3 DEF Engines
<1>5. since \in Times
  BY <1>1, <1>3 DEF Engines, Times
<1> HIDE DEF e, since
<1>6. r \in Engines(s, N)
  BY <1>3, <1>5 DEF Engines
<1>7. /\ r.role = e.role /\ r.session = e.session /\ r.tries = e.tries
      /\ r.slot = e.slot /\ r.discTries = e.discTries
      /\ r.silent <= MaxRetries /\ r.deadlines = e.deadlines
      /\ r.owed = e.owed /\ r.alone = e.alone /\ r.state = e.state
  BY <1>3 DEF Engines
<1> HIDE DEF r
<1>8. Sound(s, N, r, "none") /\ Keeps(e, r)
  BY <1>1, <1>6, <1>7, ChangedIsSound
<1> QED
  BY <1>2, <1>4, <1>8, CountsNat, QuietStep DEF e, N

LEMMA OperatorAbortsStep ==
  ASSUME Counted, NEW w, Placing(w), NEW s \in Stations, OperatorAborts(s)
  PROVE  IInv'
<1> DEFINE e == eng[s]
           r == Abort(Flushed(e), s)
           N == Num(w, s, session)
           p == Peer(s)
           rest == {f \in air[p] : f.start # Head(e.out).start}
<1>1. /\ now \in Nat /\ session \in Nat /\ Numbering(N) /\ Sound(s, N, e, "none")
      /\ air = [q \in Stations |-> air[q]] /\ Aired(w, session, air, now)
  BY Before
<1>2. /\ eng' = [eng EXCEPT ![s] = r]
      /\ air' = [air EXCEPT ![p] = rest] \/ air' = air
      /\ UNCHANGED <<now, session, lost, apart>>
  BY DEF OperatorAborts
<1>3. Flushed(e) \in Engines(s, N)
  BY <1>1, FlushedType DEF Sound
<1>4. Sound(s, N, r, "none") /\ r.state = "idle"
  BY <1>1, <1>3, AbortIsSound
<1> HIDE DEF r
<1>5. Keeps(e, r)
  BY <1>4, IdleKeeps
<1>6. Counted'
  BY <1>2, CountsNat, Counting
<1>7. air' = [q \in Stations |-> air'[q]] /\ Aired(w, session, air', now')
  <2>1. p \in Stations
    BY PeerType
  <2>2. rest \subseteq air[p]
    OBVIOUS
  <2> HIDE DEF rest, p
  <2>3. CASE air' = [air EXCEPT ![p] = rest]
    BY <1>1, <1>2, <2>1, <2>2, <2>3, AiredFewer
  <2>4. CASE air' = air
    BY <1>1, <1>2, <2>4
  <2> QED
    BY <1>2, <2>3, <2>4
<1> HIDE DEF e, N
<1> QED
  BY <1>2, <1>4, <1>5, <1>6, <1>7, KeptStep DEF e, N

LEMMA TxDoneStep ==
  ASSUME Counted, NEW w, Placing(w), NEW s \in Stations, TxDone(s)
  PROVE  IInv'
<1> DEFINE e == eng[s]
           end == FramesEnd(Head(e.out))
           r == OnTxDone(e, end)
           N == Num(w, s, session)
<1>1. now \in Nat /\ Sound(s, N, e, "none") /\ e.out # <<>>
  BY Before DEF TxDone
<1>2. /\ eng' = [eng EXCEPT ![s] = r] /\ UNCHANGED <<now, air, session, lost, apart>>
      /\ Head(e.out).start # NoTime
  BY DEF TxDone
<1>3. end \in Nat
  BY <1>1, <1>2, OutFacts, TransmissionParts DEF Sound
<1> HIDE DEF e, N, end
<1>4. Sound(s, N, r, "none") /\ Keeps(e, r)
  BY <1>1, <1>3, OnTxDoneIsSound
<1> HIDE DEF r
<1> QED
  BY <1>2, <1>4, CountsNat, QuietStep DEF e, N

LEMMA TxDroppedStep ==
  ASSUME Counted, NEW w, Placing(w), NEW s \in Stations, TxDropped(s)
  PROVE  IInv'
<1> DEFINE e == eng[s]
           r == OnTxDropped(e)
           N == Num(w, s, session)
<1>1. now \in Nat /\ Sound(s, N, e, "none") /\ e.out # <<>>
  BY Before DEF TxDropped
<1>2. /\ eng' = [eng EXCEPT ![s] = r] /\ UNCHANGED <<now, air, session, apart>>
      /\ lost < MaxLost /\ lost' = lost + 1
  BY DEF TxDropped
<1> HIDE DEF e, N
<1>3. Sound(s, N, r, "none") /\ Keeps(e, r)
  BY <1>1, OnTxDroppedIsSound
<1> HIDE DEF r
<1>4. lost' \in Nat /\ lost' <= MaxLost
  BY <1>2, CountsNat, CountAssumption
<1> QED
  BY <1>2, <1>3, <1>4, QuietStep DEF e, N

\* A call on the air is the latest that was, and later than those accepted.
LEMMA RadiateStep ==
  ASSUME Counted, NEW w, Placing(w), NEW s \in Stations, Radiate(s)
  PROVE  IInv'
<1> DEFINE e == eng[s]
           tx == Head(e.out)
           r == [e EXCEPT !.out[1].start = now]
           N == Num(w, s, session)
           p == Peer(s)
           f == [msg |-> tx.msg, start |-> now, end |-> now + Frame]
           kept == {g \in air[s] : g.end <= now}
           heard == IF \/ tx.msg = NoMessage \/ Radiates(p, now) \/ now >= fade[p]
                    THEN air[p] ELSE air[p] \cup {f}
           add == IF IsCall(tx) THEN {tx.msg.session} ELSE {}
           h == [w[s] EXCEPT !.sent = @ \cup add]
           v == [w EXCEPT ![s] = h]
           M == Num(v, s, session)
<1>1. /\ now \in Nat /\ session \in Nat /\ Numbering(N) /\ Sound(s, N, e, "none")
      /\ Ranked(N, e) /\ (Fresh(e) => e.session \in (1 .. session) \ w[s].call)
      /\ w \in Witnesses(session) /\ Aired(w, session, air, now)
      /\ air = [q \in Stations |-> air[q]] /\ eng = [q \in Stations |-> eng[q]]
  BY Before
<1>2. /\ eng' = [eng EXCEPT ![s].out[1].start = now] /\ e.out # <<>>
      /\ UNCHANGED <<now, session, lost, apart>>
  BY DEF Radiate, CanStart
<1>3. p \in Stations /\ p # s /\ Peer(p) = s /\ Stations = {s, p}
  BY PeerType
<1>4. air' = [air EXCEPT ![s] = kept, ![p] = heard]
  BY <1>1, <1>3 DEF Radiate
<1>5. eng' = [eng EXCEPT ![s] = r]
  BY <1>1, <1>2
<1>6. e \in Engines(s, N) /\ tx.msg \in Messages(s, N)
  BY <1>1, <1>2, OutFacts, TransmissionParts DEF Sound
<1>7. /\ heard = air[p] \/ heard = air[p] \cup {f}
      /\ kept \subseteq air[s]
  OBVIOUS
<1> HIDE DEF heard, kept
<1>8. /\ IsCall(tx) => tx.msg.session \in w[s].call /\ tx.msg.session \in add
      /\ add \subseteq w[s].call
      /\ \A m \in add : IsCall(tx) /\ m = tx.msg.session
  BY <1>6 DEF Messages, IsCall, Num
<1> HIDE DEF add
<1>9. /\ w[s] \in Histories(session)
      /\ w[s].call \subseteq 1 .. session /\ w[s].sent \subseteq w[s].call
      /\ w[s].accept \subseteq w[p].sent /\ w[p].accept \subseteq w[s].sent
  BY <1>1, <1>3, WitnessParts
<1>10. h \in Histories(session) /\ h.call = w[s].call /\ h.accept = w[s].accept
       /\ h.sent = w[s].sent \cup add
  BY <1>8, <1>9 DEF Histories
<1> HIDE DEF h
<1>11. v \in Witnesses(session) /\ v[s] = h /\ v[p] = w[p]
  BY <1>1, <1>8, <1>9, <1>10, WitnessGrows
<1> HIDE DEF v
<1>12. IsCall(tx) => \A m \in w[s].sent : m <= tx.msg.session
  <2>1. AfterSent(N, e.out) /\ e.out[1] = tx /\ 1 \in DOMAIN e.out
    <3>1. e.out \in Queues(s, N)
      BY <1>6 DEF Engines
    <3>2. e.out \in Seq(Transmissions(s, N)) /\ AfterSent(N, e.out)
      BY <3>1 DEF Queues
    <3>3. DOMAIN e.out = 1 .. Len(e.out) /\ Len(e.out) \in Nat \ {0} /\ e.out[1] = tx
      BY <1>2, <1>6, <3>2, OutFacts, LenProperties
    <3> QED
      BY <3>2, <3>3
  <2> HIDE DEF tx, e
  <2> QED
    BY <2>1 DEF AfterSent, Num
<1>13. M.own = N.own /\ M.call = N.call /\ M.accept = N.accept /\ M.agreed = N.agreed
       /\ M.sent = N.sent \cup add
  BY <1>10, <1>11 DEF Num
<1>14. Engine(v, session, s, r)
  <2> HIDE DEF e, N, M, r
  <2>1. Sound(s, M, r, "none") /\ Keeps(e, r)
    BY <1>1, <1>2, <1>8, <1>13, StartedIsSound DEF r, tx
  <2>2. Ranked(M, r)
    BY <1>1, <1>13, <2>1 DEF Ranked, Keeps
  <2>3. e.tries \in Nat /\ r.tries \in Nat
    <3>1. e.tries \in 0 .. ConnectRetries /\ r.tries \in 0 .. ConnectRetries
      BY <1>6, <2>1 DEF Sound, Engines
    <3> QED
      BY <3>1, CountAssumption
  <2>4. Fresh(r) => r.session \in (1 .. session) \ v[s].call
    BY <1>1, <1>10, <1>11, <2>1, <2>3 DEF Fresh, Keeps, Leading
  <2> QED
    BY <2>1, <2>2, <2>4 DEF Engine, M
<1>15. f \in Frames(s, M) /\ f.start = now /\ f.msg = tx.msg
  <2>1. tx.msg \in Messages(s, M)
    BY <1>6, <1>13 DEF Messages
  <2>2. now + Frame \in Nat
    BY <1>1, TimeAssumption
  <2> QED
    BY <1>1, <2>1, <2>2 DEF Frames
<1> HIDE DEF f, r
<1>16. AiredTo(v, session, s, kept, now)
  <2>1. AiredTo(w, session, s, air[s], now) /\ now <= now
    BY <1>1 DEF Aired
  <2> QED
    BY <1>1, <1>7, <1>10, <1>11, <2>1, AiredStays
<1>17. AiredTo(v, session, p, heard, now)
  <2>1. AiredTo(w, session, p, air[p], now) /\ now <= now
    BY <1>1, <1>3 DEF Aired
  <2>2. AiredTo(v, session, p, air[p], now)
    BY <1>1, <1>3, <1>10, <1>11, <2>1, AiredStays
  <2>3. CASE heard = air[p] \cup {f}
    <3> DEFINE q == air[p]
    <3>1. q \subseteq Frames(s, M) /\ IsFiniteSet(q) /\ (\A g \in q : g.start <= now)
          /\ Heeded(v, p, q)
      BY <1>3, <2>2 DEF AiredTo, M
    <3>2. IsFiniteSet(heard)
      BY <2>3, <3>1, FS_AddElement
    <3>3. heard \subseteq Frames(s, M) /\ \A g \in heard : g.start <= now
      BY <1>1, <1>15, <2>3, <3>1
    <3>4. \A g \in q : g.start \in Nat
      BY <3>1 DEF Frames
    <3>5. Heeded(w, p, q)
      BY <2>1 DEF AiredTo
    <3> HIDE DEF q, M, tx
    <3>6. ASSUME NEW g \in heard, IsCall(g)
          PROVE  /\ g.msg.session \in v[s].sent
                 /\ \A m \in v[p].accept : m <= g.msg.session
                 /\ \A x \in heard :
                      IsCall(x) /\ g.start < x.start => g.msg.session <= x.msg.session
      <4>1. CASE g = f
        <5>1. IsCall(tx) /\ g.msg.session = tx.msg.session
          BY <1>15, <3>6, <4>1 DEF IsCall
        <5>2. \A x \in heard : ~(g.start < x.start)
          BY <1>1, <1>15, <2>3, <3>1, <3>4, <4>1 DEF q
        <5> QED
          BY <1>8, <1>9, <1>10, <1>11, <1>12, <5>1, <5>2
      <4>2. CASE g \in q
        <5>1. /\ g.msg.session \in v[s].sent
              /\ \A m \in v[p].accept : m <= g.msg.session
              /\ \A x \in q :
                   IsCall(x) /\ g.start < x.start => g.msg.session <= x.msg.session
          BY <1>3, <3>1, <3>6, <4>2 DEF Heeded
        <5>2. g.msg.session \in w[s].sent
          BY <1>3, <3>5, <3>6, <4>2 DEF Heeded
        <5>3. IsCall(f) => g.msg.session <= f.msg.session
          BY <1>12, <1>15, <5>2 DEF IsCall
        <5> QED
          BY <2>3, <5>1, <5>3 DEF q
      <4> QED
        BY <2>3, <3>6, <4>1, <4>2 DEF q
    <3>7. Heeded(v, p, heard)
      BY <1>3, <3>6 DEF Heeded
    <3> QED
      BY <1>3, <3>2, <3>3, <3>7 DEF AiredTo, M
  <2> QED
    BY <1>7, <2>2, <2>3
<1>18. air' = [q \in Stations |-> air'[q]] /\ Aired(v, session, air', now')
  <2>1. air'[s] = kept /\ air'[p] = heard /\ air' = [q \in Stations |-> air'[q]]
    BY <1>1, <1>3, <1>4
  <2>2. now' = now
    BY <1>2
  <2> QED
    BY <1>3, <1>16, <1>17, <2>1, <2>2 DEF Aired
<1>19. Counted'
  BY <1>2, CountsNat, Counting
<1> HIDE DEF e, N, M, tx
<1> QED
  BY <1>2, <1>5, <1>10, <1>11, <1>14, <1>18, <1>19, EngineStep

\* A call that is taken is the latest accepted, and those after it on the air are
\* no earlier.
LEMMA ReadStep ==
  ASSUME Counted, NEW w, Placing(w), NEW s \in Stations, Read(s)
  PROVE  IInv'
<1> DEFINE e == eng[s]
           N == Num(w, s, session)
           p == Peer(s)
           M == Num(w, p, session)
<1>1. /\ now \in Nat /\ session \in Nat /\ Numbering(N) /\ Sound(s, N, e, "none")
      /\ Fresh(e) => e.session \in (1 .. session) \ w[s].call
      /\ w \in Witnesses(session) /\ Aired(w, session, air, now)
      /\ air = [q \in Stations |-> air[q]]
  BY Before
<1>2. PICK f \in air[s] :
        /\ lost' = lost + Cardinality({g \in air[s] : g.start < f.start}) /\ lost' <= MaxLost
        /\ eng' = [eng EXCEPT ![s] = OnFrame(@, s, f)]
        /\ air' = [air EXCEPT ![s] = {g \in @ : g.start > f.start}]
        /\ UNCHANGED <<now, session, apart>>
  BY DEF Read
<1>3. p \in Stations /\ p # s /\ Peer(p) = s /\ Stations = {s, p}
  BY PeerType
<1> DEFINE n == f.msg.session
           add == IF IsCall(f) THEN {n} ELSE {}
           h == [w[s] EXCEPT !.accept = @ \cup add]
           v == [w EXCEPT ![s] = h]
           L == Num(v, s, session)
           r == OnFrame(e, s, f)
           rest == {g \in air[s] : g.start > f.start}
<1>4. /\ air[s] \subseteq Frames(p, M) /\ IsFiniteSet(air[s]) /\ Heeded(w, s, air[s])
      /\ \A g \in air[s] : g.start <= now
  BY <1>1 DEF Aired, AiredTo
<1>5. lost' \in Nat
  <2> DEFINE gone == {g \in air[s] : g.start < f.start}
  <2>1. IsFiniteSet(gone)
    BY <1>4, FS_Subset
  <2>2. Cardinality(gone) \in Nat
    BY <2>1, FS_CardinalityType
  <2> HIDE DEF gone
  <2>3. lost' = lost + Cardinality(gone)
    BY <1>2 DEF gone
  <2> QED
    BY <2>2, <2>3, CountsNat
<1>6. eng' = [eng EXCEPT ![s] = r] /\ air' = [air EXCEPT ![s] = rest]
      /\ (\A g \in rest : g \in air[s] /\ f.start < g.start) /\ rest \subseteq air[s]
  <2>1. \A g \in air[s] : g.start \in Nat
    BY <1>4 DEF Frames
  <2>2. \A g \in rest : f.start < g.start
    BY <2>1
  <2> QED
    BY <1>2, <2>2
<1> HIDE DEF rest
<1>7. f \in Frames(p, M) /\ f.msg \in Messages(p, M) /\ n \in Nat
  BY <1>4 DEF Frames, Messages
<1>8. /\ w[s] \in Histories(session)
      /\ w[s].call \subseteq 1 .. session /\ w[s].sent \subseteq w[s].call
      /\ w[s].accept \subseteq w[p].sent /\ w[p].accept \subseteq w[s].sent
      /\ w[p].sent \subseteq 1 .. session
  BY <1>1, <1>3, WitnessParts
<1>9. IsCall(f) => /\ n \in w[p].sent
                   /\ \A m \in w[s].accept : m <= n
                   /\ \A g \in rest : IsCall(g) => n <= g.msg.session
  BY <1>3, <1>4, <1>6 DEF Heeded
<1>10. f.msg.kind = "accept" => n \in w[p].accept
  BY <1>7 DEF Messages, Num
<1>11. (IsCall(f) => n \in add) /\ add \subseteq w[p].sent
       /\ \A m \in add : IsCall(f) /\ m = n
  BY <1>9
<1> HIDE DEF add, n
<1>12. h \in Histories(session) /\ h.call = w[s].call /\ h.sent = w[s].sent
       /\ h.accept = w[s].accept \cup add
  BY <1>8, <1>11 DEF Histories
<1> HIDE DEF h
<1>13. v \in Witnesses(session) /\ v[s] = h /\ v[p] = w[p]
  BY <1>1, <1>8, <1>11, <1>12, WitnessGrows
<1> HIDE DEF v
<1>14. Numbering(L) /\ Within(N, L) /\ L.accept = w[s].accept \cup add
       /\ N.agreed = w[p].accept
  <2>1. Numbering(L)
    BY <1>1, <1>13, NumIsNumbering
  <2> QED
    BY <1>12, <1>13, <2>1 DEF Within, Num
<1>15. \/ Sound(s, N, r, "none") /\ Keeps(e, r)
       \/ IsCall(f) /\ Taken(s, L, f, r)
  <2>1. f.msg.kind = "call" => f.msg.session \in L.accept
    BY <1>11, <1>14 DEF IsCall, n
  <2>2. f.msg.kind = "accept" => f.msg.session \in N.agreed
    BY <1>10, <1>14 DEF n
  <2>3. Fresh(e) /\ f.msg.kind = "accept" => f.msg.session # e.session
    BY <1>1, <1>8, <1>10 DEF n
  <2> HIDE DEF e, N, M, L, p
  <2> QED
    BY <1>1, <1>7, <1>14, <2>1, <2>2, <2>3, OnFrameIsSound DEF p, IsCall
<1> HIDE DEF r
<1>16. Counted'
  BY <1>2, <1>5, CountsNat, Counting
<1>17. CASE Sound(s, N, r, "none") /\ Keeps(e, r)
  <2> HIDE DEF e, N, p, M, L
  <2>1. air' = [q \in Stations |-> air'[q]] /\ Aired(w, session, air', now')
    <3>1. air' = [air EXCEPT ![s] = rest] /\ rest \subseteq air[s] /\ now' = now
      BY <1>2, <1>6
    <3>2. air' = [q \in Stations |-> air'[q]] /\ Aired(w, session, air', now)
      BY <1>1, <3>1, AiredFewer
    <3> QED
      BY <3>1, <3>2
  <2> QED
    BY <1>2, <1>6, <1>16, <1>17, <2>1, KeptStep DEF e, N
<1>18. CASE IsCall(f) /\ Taken(s, L, f, r)
  <2>1. Sound(s, L, r, "none") /\ r.state = "connected" /\ r.role = "slave"
        /\ r.session = n
    BY <1>18 DEF Taken, n
  <2>2. Ranked(L, r)
    BY <1>7, <1>9, <1>11, <1>14, <1>18, <2>1 DEF Ranked, Leading
  <2>3. Engine(v, session, s, r)
    BY <2>1, <2>2 DEF Engine, L, Fresh
  <2>4. AiredTo(v, session, s, rest, now)
    <3>1. rest \subseteq Frames(p, Num(v, p, session))
      <4>1. M.call \subseteq Num(v, p, session).call
            /\ M.accept \subseteq Num(v, p, session).accept
        BY <1>13 DEF Num
      <4> HIDE DEF M
      <4>2. Frames(p, M) \subseteq Frames(p, Num(v, p, session))
        BY <4>1, FramesGrow
      <4> QED
        BY <1>4, <1>6, <4>2
    <3>2. IsFiniteSet(rest)
      BY <1>4, <1>6, FS_Subset
    <3>3. \A g \in rest : g.start <= now
      BY <1>4, <1>6
    <3>4. ASSUME NEW g \in rest, IsCall(g)
          PROVE  /\ g.msg.session \in v[p].sent
                 /\ \A m \in v[s].accept : m <= g.msg.session
                 /\ \A x \in rest :
                      IsCall(x) /\ g.start < x.start => g.msg.session <= x.msg.session
      <4>1. /\ g.msg.session \in w[p].sent
            /\ \A m \in w[s].accept : m <= g.msg.session
            /\ \A x \in air[s] :
                 IsCall(x) /\ g.start < x.start => g.msg.session <= x.msg.session
        BY <1>3, <1>4, <1>6, <3>4 DEF Heeded
      <4>2. \A m \in add : m <= g.msg.session
        BY <1>9, <1>11, <3>4
      <4> QED
        BY <1>6, <1>12, <1>13, <4>1, <4>2
    <3>5. Heeded(v, s, rest)
      BY <1>3, <3>4 DEF Heeded
    <3> QED
      BY <3>1, <3>2, <3>3, <3>5 DEF AiredTo
  <2>5. AiredTo(v, session, p, air[p], now)
    <3>1. AiredTo(w, session, p, air[p], now) /\ now <= now
      BY <1>1, <1>3 DEF Aired
    <3> QED
      BY <1>1, <1>3, <1>12, <1>13, <3>1, AiredStays
  <2>6. air' = [q \in Stations |-> air'[q]] /\ Aired(v, session, air', now')
    <3>1. air'[s] = rest /\ air'[p] = air[p] /\ air' = [q \in Stations |-> air'[q]]
      BY <1>1, <1>3, <1>6
    <3>2. now' = now
      BY <1>2
    <3> QED
      BY <1>3, <2>4, <2>5, <3>1, <3>2 DEF Aired
  <2>7. v[Peer(s)] = w[Peer(s)] /\ w[s].accept \subseteq v[s].accept
    BY <1>12, <1>13
  <2> HIDE DEF e, N, M, p, L
  <2> QED
    BY <1>2, <1>6, <1>13, <1>16, <2>3, <2>6, <2>7, EngineStep
<1> QED
  BY <1>15, <1>17, <1>18

\* A pass may send the call that waited: the latest the station has called with.
LEMMA RunTimersStep ==
  ASSUME Counted, NEW w, Placing(w), NEW s \in Stations, RunTimers(s)
  PROVE  IInv'
<1> DEFINE e == eng[s]
           add == IF Fresh(e) THEN {e.session} ELSE {}
           h == [w[s] EXCEPT !.call = @ \cup add]
           v == [w EXCEPT ![s] = h]
           N == Num(w, s, session)
           M == Num(v, s, session)
<1>1. /\ now \in Nat /\ session \in Nat /\ Numbering(N) /\ Sound(s, N, e, "none")
      /\ Ranked(N, e) /\ (Fresh(e) => e.session \in (1 .. session) \ w[s].call)
      /\ w \in Witnesses(session) /\ Aired(w, session, air, now)
      /\ air = [q \in Stations |-> air[q]]
  BY Before
<1>2. PICK choice \in Draws : eng' = [eng EXCEPT ![s] = Pass(@, s, choice)]
  BY DEF RunTimers
<1>3. UNCHANGED <<now, air, session, lost, apart>>
  BY DEF RunTimers
<1>4. add \subseteq 1 .. session /\ (Fresh(e) => e.session \in add)
      /\ \A m \in add : m = e.session
  BY <1>1
<1>5. /\ w[s] \in Histories(session)
      /\ w[s].call \subseteq 1 .. session /\ w[s].sent \subseteq w[s].call
      /\ w[s].accept \subseteq w[Peer(s)].sent
  BY <1>1, WitnessParts
<1>6. Peer(s) \in Stations /\ Peer(s) # s /\ Peer(Peer(s)) = s /\ Stations = {s, Peer(s)}
  BY PeerType
<1> HIDE DEF add
<1>7. h \in Histories(session) /\ h.call = w[s].call \cup add /\ h.sent = w[s].sent
      /\ h.accept = w[s].accept
  BY <1>4, <1>5 DEF Histories
<1> HIDE DEF h
<1>8. v \in Witnesses(session) /\ v[s] = h /\ v[Peer(s)] = w[Peer(s)]
  <2>1. w[s].sent \subseteq h.sent /\ h.sent \subseteq h.call
        /\ h.accept \subseteq w[Peer(s)].sent
    BY <1>5, <1>7
  <2> QED
    BY <1>1, <1>7, <2>1, WitnessGrows
<1> HIDE DEF v
<1>9. Numbering(M)
  BY <1>1, <1>8, NumIsNumbering
<1>10. Within(N, M) /\ M.accept = N.accept /\ M.call = N.call \cup add
       /\ N.sent \subseteq N.call /\ M.sent = N.sent /\ N.call = w[s].call
  BY <1>5, <1>7, <1>8 DEF Within, Num
<1>11. e.session \in Nat /\ e.tries \in Nat
  <2>1. e.session \in {0} \cup N.own /\ e.tries \in 0 .. ConnectRetries
    BY <1>1 DEF Sound, Engines
  <2> QED
    BY <1>1, <2>1, CountAssumption DEF Numbering
<1>12. MayCall(M, e)
  <2>1. e.state = "connecting" => Fresh(e) \/ e.session \in N.call
    BY <1>1, <1>11 DEF Sound, Shape, Fresh
  <2>2. e.state = "connecting" => \A m \in N.call : m <= e.session
    BY <1>1 DEF Ranked, Leading
  <2>3. e.session \in Nat /\ (\A m \in add : m = e.session)
        /\ (Fresh(e) => e.session \in add)
    BY <1>4, <1>11
  <2>4. M.call = N.call \cup add /\ M.sent \subseteq N.call
    BY <1>10
  <2> HIDE DEF e, N, M
  <2>5. e.state = "connecting" => e.session \in M.call
    BY <2>1, <2>3, <2>4
  <2>6. e.state = "connecting" => \A m \in M.call \cup M.sent : m <= e.session
    BY <2>2, <2>3, <2>4
  <2> QED
    BY <2>5, <2>6 DEF MayCall
<1> DEFINE r == Pass(e, s, choice)
<1> HIDE DEF e, N, M
<1>13. /\ Sound(s, M, r, "none") /\ Keeps(e, r)
       /\ Fresh(r) => Sound(s, N, r, "none")
  <2>1. Sound(s, M, e, "none")
    BY <1>1, <1>10, SoundGrows
  <2> QED
    BY <1>1, <1>9, <1>12, <2>1, PassIsSound
<1>14. eng' = [eng EXCEPT ![s] = r]
  BY <1>2 DEF e
<1> HIDE DEF r
<1>15. CASE Fresh(r)
  BY <1>3, <1>13, <1>14, <1>15, CountsNat, QuietStep DEF e, N
<1>16. CASE ~Fresh(r)
  <2>1. Counted'
    BY <1>3, CountsNat, Counting
  <2>2. Ranked(M, r)
    BY <1>1, <1>4, <1>10, <1>11, <1>13 DEF Ranked, Keeps
  <2>3. Engine(v, session, s, r)
    BY <1>13, <1>16, <2>2 DEF Engine, M
  <2>4. ASSUME NEW q \in Stations
        PROVE  AiredTo(v, session, q, air[q], now)
    <3>1. AiredTo(w, session, q, air[q], now) /\ now <= now
      BY <1>1, <2>4 DEF Aired
    <3>2. \A x \in Stations : /\ v[x].accept = w[x].accept /\ v[x].sent = w[x].sent
                              /\ w[x].call \subseteq v[x].call
      BY <1>6, <1>7, <1>8
    <3>3. Peer(q) \in Stations
      BY PeerType
    <3> QED
      BY <1>1, <2>4, <3>1, <3>2, <3>3, AiredStays
  <2>5. air' = [q \in Stations |-> air'[q]] /\ Aired(v, session, air', now')
    BY <1>1, <1>3, <2>4 DEF Aired
  <2>6. w[s].accept \subseteq v[s].accept
    BY <1>7, <1>8
  <2> QED
    BY <1>3, <1>8, <1>14, <2>1, <2>3, <2>5, <2>6, EngineStep
<1> QED
  BY <1>15, <1>16

\* A number more is drawn: every engine may go on as it is.
LEMMA EnginedLonger ==
  ASSUME NEW k \in Nat, NEW w, NEW g, Engined(w, k, g)
  PROVE  Engined(w, k + 1, g)
<1>1. ASSUME NEW s \in Stations
      PROVE  Engine(w, k + 1, s, g[s])
  <2> DEFINE N == Num(w, s, k)
             M == Num(w, s, k + 1)
  <2>1. 1 .. k \subseteq 1 .. k + 1
    OBVIOUS
  <2>2. Within(N, M) /\ M.accept = N.accept /\ M.call = N.call
    BY <2>1 DEF Within, Num
  <2>3. Sound(s, N, g[s], "none") /\ Ranked(N, g[s])
        /\ (Fresh(g[s]) => g[s].session \in (1 .. k) \ w[s].call)
    BY DEF Engined, Engine
  <2> HIDE DEF N, M
  <2>4. Sound(s, M, g[s], "none") /\ Ranked(M, g[s])
    BY <2>2, <2>3, SoundGrows DEF Ranked
  <2> QED
    BY <2>1, <2>3, <2>4 DEF Engine, M
<1> QED
  BY <1>1 DEF Engined

\* A call is placed under a number later than any before; it may go out at once.
LEMMA CallStep ==
  ASSUME Counted, NEW w, Placing(w), NEW s \in Stations, Call(s)
  PROVE  IInv'
<1> DEFINE e == eng[s]
           k == session + 1
<1>1. /\ now \in Nat /\ session \in Nat /\ w \in Witnesses(session)
      /\ Sound(s, Num(w, s, session), e, "none") /\ Aired(w, session, air, now)
      /\ Engined(w, session, eng)
      /\ air = [q \in Stations |-> air[q]] /\ eng = [q \in Stations |-> eng[q]]
  BY Before
<1>2. PICK remote \in Stations \cup {Other}, jitter \in Jitter :
        eng' = [eng EXCEPT ![s] = Connect(@, s, remote, session + 1, jitter)]
  BY DEF Call
<1>3. /\ session' = k /\ session < MaxSession /\ e.state = "idle"
      /\ UNCHANGED <<now, air, lost, apart>>
  BY DEF Call
<1> DEFINE add == IF Sends(e, remote, k) THEN {k} ELSE {}
           h == [w[s] EXCEPT !.call = @ \cup add]
           v == [w EXCEPT ![s] = h]
           N == Num(v, s, k)
           r == Connect(e, s, remote, k, jitter)
<1>4. /\ k \in Nat /\ k \in 1 .. k /\ k \notin 1 .. session /\ session <= k
      /\ \A m \in 1 .. session : m < k /\ m <= k
  BY <1>1
<1>5. eng' = [eng EXCEPT ![s] = r]
  BY <1>2
<1>6. add \subseteq {k} /\ (Sends(e, remote, k) => k \in add)
      /\ (~Sends(e, remote, k) => add = {})
  OBVIOUS
<1>7. /\ w[s].call \subseteq 1 .. session /\ w[s].sent \subseteq w[s].call
      /\ w[s].accept \subseteq 1 .. session
      /\ w[s].accept \subseteq w[Peer(s)].sent
  BY <1>1, WitnessParts
<1>8. Engined(w, k, eng)
  BY <1>1, EnginedLonger
<1>9. w \in Witnesses(k) /\ w[s] \in Histories(k)
  <2>1. w \in Witnesses(k)
    BY <1>1, <1>4, WitnessLonger
  <2> QED
    BY <1>4, <2>1, WitnessParts
<1>10. Peer(s) \in Stations /\ Peer(s) # s /\ Stations = {s, Peer(s)}
  BY PeerType
<1> HIDE DEF add, k
<1>11. h \in Histories(k) /\ h.call = w[s].call \cup add /\ h.sent = w[s].sent
       /\ h.accept = w[s].accept
  BY <1>4, <1>6, <1>9 DEF Histories
<1> HIDE DEF h
<1>12. v \in Witnesses(k) /\ v[s] = h /\ v[Peer(s)] = w[Peer(s)]
  <2>1. w[s].sent \subseteq h.sent /\ h.sent \subseteq h.call
        /\ h.accept \subseteq w[Peer(s)].sent
    BY <1>7, <1>11
  <2> QED
    BY <1>4, <1>9, <1>11, <2>1, WitnessGrows
<1> HIDE DEF v
<1>13. /\ Numbering(N) /\ N.own = 1 .. k /\ N.call = w[s].call \cup add
       /\ N.sent = w[s].sent /\ N.accept = w[s].accept
  <2>1. Numbering(N)
    BY <1>4, <1>12, NumIsNumbering
  <2> QED
    BY <1>11, <1>12, <2>1 DEF Num
<1>14. Sound(s, N, e, "none")
  <2>1. Within(Num(w, s, session), N)
    <3>1. 1 .. session \subseteq 1 .. k
      BY <1>1, <1>4
    <3> QED
      BY <1>11, <1>12, <3>1 DEF Within, Num
  <2> QED
    BY <1>1, <2>1, SoundGrows
<1>15. \A m \in N.call \cup N.sent : m <= k
  BY <1>4, <1>6, <1>7, <1>13
<1>16. k \in N.own /\ (~Sends(e, remote, k) \/ k \in N.call)
  BY <1>4, <1>6, <1>13
<1>17. jitter \in Nat
  BY TimeAssumption
<1> HIDE DEF e, N
<1>18. /\ Sound(s, N, r, "none") /\ r.state = "connecting" /\ r.session = k
       /\ Fresh(r) <=> ~Sends(e, remote, k)
  <2>1. \/ ~Sends(e, remote, k)
        \/ k \in N.call /\ \A m \in N.call \cup N.sent : m <= k
    BY <1>15, <1>16
  <2>2. Numbering(N) /\ k \in N.own /\ e.state = "idle" /\ now \in Nat
    BY <1>1, <1>3, <1>13, <1>16
  <2> QED
    BY <1>14, <1>17, <2>1, <2>2, ConnectIsSound
<1> HIDE DEF r
<1>19. Engine(v, k, s, r)
  <2>1. r.role = "none"
    BY <1>18 DEF Sound, Shape, Up
  <2>2. Ranked(N, r)
    BY <1>4, <1>7, <1>13, <1>15, <1>18, <2>1 DEF Ranked
  <2>3. Fresh(r) => r.session \in (1 .. k) \ v[s].call
    BY <1>4, <1>6, <1>7, <1>11, <1>12, <1>18
  <2> QED
    BY <1>18, <2>2, <2>3 DEF Engine, N
<1>20. Engined(v, k, eng')
  <2>1. w[s].accept \subseteq v[s].accept
    BY <1>11, <1>12
  <2> QED
    BY <1>1, <1>4, <1>5, <1>8, <1>12, <1>19, <2>1, EnginedStep
<1>21. Aired(v, k, air, now)
  <2>1. ASSUME NEW q \in Stations
        PROVE  AiredTo(v, k, q, air[q], now)
    <3>1. AiredTo(w, session, q, air[q], now) /\ now <= now
      BY <1>1, <2>1 DEF Aired
    <3>2. \A x \in Stations : /\ v[x].accept = w[x].accept /\ v[x].sent = w[x].sent
                              /\ w[x].call \subseteq v[x].call
      BY <1>10, <1>11, <1>12
    <3>3. Peer(q) \in Stations
      BY PeerType
    <3> QED
      BY <1>1, <1>4, <2>1, <3>1, <3>2, <3>3, AiredStays
  <2> QED
    BY <2>1 DEF Aired
<1>22. PICK x : x = v
  OBVIOUS
<1>23. Placing(x)' /\ x \in Witnesses(session')
  <2>1. eng' = [q \in Stations |-> eng'[q]] /\ air' = [q \in Stations |-> air'[q]]
    BY <1>1, <1>3, <1>5
  <2>2. x \in Witnesses(session') /\ Engined(x, session', eng')
        /\ Aired(x, session', air', now')
    BY <1>3, <1>12, <1>20, <1>21, <1>22
  <2> QED
    BY <2>1, <2>2 DEF Placing
<1>24. Counted'
  <2>1. k \in 0 .. MaxSession
    BY <1>1, <1>3, CountAssumption DEF k
  <2> QED
    BY <1>3, <2>1 DEF Counted
<1> QED
  BY <1>23, <1>24 DEF IInv

LEMMA TickStep ==
  ASSUME Counted, NEW w, Placing(w), Tick
  PROVE  IInv'
<1> DEFINE kept(q) == {f \in air[q] : now < f.end + ReadDelay}
           gone == UNION {{q} \X (air[q] \ air'[q]) : q \in Stations}
<1>1. /\ now \in Nat /\ session \in Nat /\ w \in Witnesses(session)
      /\ Aired(w, session, air, now) /\ Engined(w, session, eng)
      /\ eng = [q \in Stations |-> eng[q]]
  BY CountsNat DEF Placing
<1>2. /\ now < MaxTime /\ now' = now + 1
      /\ air' = [q \in Stations |-> kept(q)]
      /\ lost' = lost + Cardinality(gone) /\ lost' <= MaxLost
      /\ apart' = apart + 1 \/ apart' = 0
      /\ UNCHANGED <<eng, session>>
  BY DEF Tick
<1>3. ASSUME NEW q \in Stations
      PROVE  air'[q] \subseteq air[q] /\ IsFiniteSet(air[q])
  <2>1. air'[q] = kept(q)
    BY <1>2
  <2>2. kept(q) \subseteq air[q]
    OBVIOUS
  <2>3. IsFiniteSet(air[q])
    BY <1>1 DEF Aired, AiredTo
  <2> QED
    BY <2>1, <2>2, <2>3
<1>4. Cardinality(gone) \in Nat
  <2>1. ASSUME NEW q \in Stations
        PROVE  IsFiniteSet({q} \X (air[q] \ air'[q]))
    <3>1. IsFiniteSet(air[q] \ air'[q])
      BY <1>3, FS_Difference
    <3>2. IsFiniteSet({q})
      BY FS_Singleton
    <3> QED
      BY <3>1, <3>2, FS_Product
  <2>2. PICK a, b \in Stations : Stations = {a, b}
    BY StationAssumption
  <2> DEFINE A == {a} \X (air[a] \ air'[a])
             B == {b} \X (air[b] \ air'[b])
  <2>3. gone = A \cup B
    BY <2>2
  <2>4. IsFiniteSet(A) /\ IsFiniteSet(B)
    BY <2>1
  <2> HIDE DEF gone, A, B
  <2>5. IsFiniteSet(gone)
    BY <2>3, <2>4, FS_Union
  <2> QED
    BY <2>5, FS_CardinalityType
<1>5. Aired(w, session, air', now')
  <2>1. ASSUME NEW q \in Stations
        PROVE  AiredTo(w, session, q, air'[q], now + 1)
    <3>1. AiredTo(w, session, q, air[q], now) /\ now <= now + 1 /\ now + 1 \in Nat
      BY <1>1, <2>1 DEF Aired
    <3>2. air'[q] \subseteq air[q]
      BY <1>3
    <3> QED
      BY <1>1, <3>1, <3>2, AiredStays
  <2> QED
    BY <1>2, <2>1 DEF Aired
<1> HIDE DEF gone
<1>6. lost' \in Nat /\ apart' \in Nat
  BY <1>2, <1>4, CountsNat
<1>7. now' \in {now, now + 1} /\ now' <= MaxTime
  BY <1>2, CountsNat, CountAssumption
<1>8. Counted'
  BY <1>2, <1>6, <1>7, Counting
<1>9. air' = [q \in Stations |-> air'[q]]
  BY <1>2
<1> HIDE DEF kept
<1>10. Placing(w)' /\ w \in Witnesses(session')
  BY <1>1, <1>2, <1>5, <1>9 DEF Placing
<1> QED
  BY <1>8, <1>10 DEF IInv

-----------------------------------------------------------------------------
(* What holds always. *)

LEMMA IInvHolds == Init => IInv
<1> SUFFICES ASSUME Init PROVE IInv
  OBVIOUS
<1> DEFINE w == [s \in Stations |-> [call |-> {}, sent |-> {}, accept |-> {}]]
<1>1. /\ now = 0 /\ session = 0 /\ lost = 0 /\ apart = 0
      /\ eng = [s \in Stations |-> NewEngine] /\ air = [s \in Stations |-> {}]
  BY DEF Init
<1>2. Counted
  BY <1>1, CountAssumption DEF Counted
<1>3. w \in Witnesses(session) /\ (\A s \in Stations : w[s].accept = {} /\ w[s].call = {})
  <2>1. [call |-> {}, sent |-> {}, accept |-> {}] \in Histories(session)
    BY DEF Histories
  <2>2. w \in [Stations -> Histories(session)]
    BY <2>1
  <2>3. \A s \in Stations : w[s].sent = {} /\ w[s].accept = {} /\ w[s].call = {}
    OBVIOUS
  <2> QED
    BY <2>2, <2>3 DEF Witnesses
<1>4. ASSUME NEW s \in Stations
      PROVE  Engine(w, 0, s, eng[s]) /\ AiredTo(w, 0, s, air[s], 0)
  <2> DEFINE N == Num(w, s, 0)
             e == NewEngine
  <2>1. N.accept = {} /\ N.call = {}
    BY <1>3 DEF Num
  <2> HIDE DEF N
  <2>2. <<>> \in Seq(Transmissions(s, N)) /\ <<>> \in Deadlines
    BY EmptySeq DEF Deadlines
  <2>3. <<>> \in Queues(s, N)
    BY <2>2 DEF Queues, InTurn, AfterSent
  <2>4. NoLeft \in Lefts /\ NoSlot \in Slots /\ NoTime \in Times
    BY DEF NoLeft, Lefts, Slots, Times
  <2>5. e \in Engines(s, N)
    BY <2>2, <2>3, <2>4, CountAssumption DEF NewEngine, Engines, States, Roles, Idents
  <2>6. e.state = "idle" /\ e.role = "none" /\ e.silent = 0 /\ e.owed = 0
    BY DEF NewEngine
  <2> HIDE DEF e
  <2>7. Shape(N, e) /\ TimedBut(e, "none") /\ ~Fresh(e) /\ Ranked(N, e)
    BY <2>6, CountAssumption DEF Shape, TimedBut, Fresh, Up, Ranked, Leading
  <2>8. eng[s] = e /\ air[s] = {}
    BY <1>1 DEF e
  <2>9. AiredTo(w, 0, s, {}, 0)
    BY FS_EmptySet DEF AiredTo, Heeded
  <2> QED
    BY <2>5, <2>7, <2>8, <2>9 DEF Engine, Sound, N
<1> HIDE DEF w
<1>5. Engined(w, session, eng) /\ Aired(w, session, air, now)
  BY <1>1, <1>4 DEF Engined, Aired
<1>6. Placing(w)
  BY <1>1, <1>3, <1>5 DEF Placing
<1> QED
  BY <1>2, <1>3, <1>6 DEF IInv

LEMMA IInvStays == IInv /\ [Next]_vars => IInv'
<1> SUFFICES ASSUME IInv, [Next]_vars PROVE IInv'
  OBVIOUS
<1>1. PICK w \in Witnesses(session) : Placing(w)
  BY DEF IInv
<1>2. Counted
  BY DEF IInv
<1>3. CASE Tick
  BY <1>1, <1>2, <1>3, TickStep
<1>4. ASSUME NEW s \in Stations,
             \/ Call(s) \/ Disconnect(s) \/ OperatorAborts(s)
             \/ Radiate(s) \/ TxDone(s) \/ TxDropped(s) \/ Read(s) \/ RunTimers(s)
      PROVE  IInv'
  BY <1>1, <1>2, <1>4, CallStep, DisconnectStep, OperatorAbortsStep, RadiateStep,
     TxDoneStep, TxDroppedStep, ReadStep, RunTimersStep
<1>5. CASE UNCHANGED vars
  <2>1. UNCHANGED <<now, eng, air, session, lost, apart>>
    BY <1>5 DEF vars
  <2>2. Counted' /\ Placing(w)' /\ w \in Witnesses(session')
    BY <1>1, <1>2, <2>1 DEF Counted, Placing
  <2> QED
    BY <2>2 DEF IInv
<1> QED
  BY <1>3, <1>4, <1>5 DEF Next

\* Whatever is called, left, aborted, lost or read late, there are histories of
\* the two stations that account for their engines and for what is on the air.
THEOREM IInvAlways == Spec => []IInv
<1> QED
  BY IInvHolds, IInvStays, PTL DEF Spec

LEMMA IInvTyped == IInv => TypeOK
<1> SUFFICES ASSUME IInv PROVE TypeOK
  OBVIOUS
<1>1. Counted /\ \E w \in Witnesses(session) : Placing(w)
  BY DEF IInv
<1>2. PICK w \in Witnesses(session) : Placing(w)
  BY <1>1
<1>3. ASSUME NEW s \in Stations
      PROVE  LET e == eng[s]
             IN  /\ e.state \in {"idle", "connecting", "connected", "disconnecting"}
                 /\ e.role \in {"none", "master", "slave"}
                 /\ e.role # "none" <=> Up(e)
                 /\ e.session \in Numbers /\ e.remote \in Stations \cup {Other}
                 /\ e.hold \in Nat /\ e.owed \in {0, Ident[s]}
                 /\ e.peerIdent \in {0, Ident[Peer(s)]}
                 /\ e.tries \in 0 .. ConnectRetries /\ e.discTries \in 0 .. DiscRetries
                 /\ e.silent \in 0 .. MaxRetries /\ e.repeats \in 0 .. LeaveRepeats
                 /\ \A i, j \in DOMAIN e.deadlines :
                      e.deadlines[i].timer \in Timers
                      /\ (i # j => e.deadlines[i].timer # e.deadlines[j].timer)
                 /\ \A f \in air[s] : f.msg.kind \in Kinds
  <2> DEFINE e == eng[s]
             N == Num(w, s, session)
  <2>1. Sound(s, N, e, "none") /\ Aired(w, session, air, now)
    BY <1>1, <1>2, Before
  <2>2. {0} \cup N.own \subseteq Numbers
    <3>1. session \in 0 .. MaxSession
      BY <1>1 DEF Counted
    <3> QED
      BY <3>1, CountAssumption DEF Num, Numbers
  <2> HIDE DEF e, N
  <2>3. e \in Engines(s, N) /\ Shape(N, e)
    BY <2>1 DEF Sound
  <2>4. /\ e.state \in States /\ e.role \in Roles /\ (e.role # "none" <=> Up(e))
        /\ e.session \in Numbers /\ e.remote \in Stations \cup {Other}
        /\ e.hold \in Nat /\ e.owed \in {0, Ident[s]} /\ e.peerIdent \in {0, Ident[Peer(s)]}
        /\ e.tries \in 0 .. ConnectRetries /\ e.discTries \in 0 .. DiscRetries
        /\ e.repeats \in 0 .. LeaveRepeats
    BY <2>2, <2>3 DEF Engines, Shape, Idents
  <2>5. e.silent \in 0 .. MaxRetries
    BY <2>3, CountAssumption DEF Engines, Shape
  <2>6. e.deadlines \in Seq(Deadline)
        /\ \A i, j \in DOMAIN e.deadlines :
             e.deadlines[i].timer = e.deadlines[j].timer => i = j
    BY <2>3 DEF Engines, Deadlines
  <2>7. ASSUME NEW i \in DOMAIN e.deadlines
        PROVE  e.deadlines[i].timer \in Timers
    <3>1. e.deadlines[i] \in Deadline
      BY <2>6
    <3> QED
      BY <3>1 DEF Deadline
  <2>8. ASSUME NEW f \in air[s]
        PROVE  f.msg.kind \in Kinds
    <3>1. f \in Frames(Peer(s), Num(w, Peer(s), session))
      BY <2>1 DEF Aired, AiredTo
    <3>2. f.msg \in Messages(Peer(s), Num(w, Peer(s), session))
      BY <3>1 DEF Frames
    <3> QED
      BY <3>2 DEF Messages
  <2> QED
    BY <2>4, <2>5, <2>6, <2>7, <2>8 DEF e, States, Roles
<1>4. /\ now \in 0 .. MaxTime /\ session \in Numbers /\ lost \in 0 .. MaxLost /\ apart \in Nat
  BY <1>1 DEF Counted, Numbers
<1> QED
  BY <1>3, <1>4 DEF TypeOK

\* The engines' states and roles, their counters and their clocks are what they
\* are declared to be; no timer is armed twice (Deadlines::arm replaces).
THEOREM Typed == Spec => []TypeOK
<1> QED
  BY IInvAlways, IInvTyped, PTL

LEMMA IInvTimed == IInv => WaitIsTimed /\ IdentPlaced
<1> SUFFICES ASSUME IInv PROVE WaitIsTimed /\ IdentPlaced
  OBVIOUS
<1>1. PICK w \in Witnesses(session) : Placing(w)
  BY DEF IInv
<1>2. ASSUME NEW s \in Stations
      PROVE  /\ eng[s].state = "connecting" => Armed(eng[s], "connect")
             /\ Up(eng[s]) => Armed(eng[s], "link")
             /\ eng[s].role = "master" => Armed(eng[s], "proceed")
             /\ eng[s].state = "idle" /\ eng[s].owed > 0 =>
                  Armed(eng[s], "ident") \/ Armed(eng[s], "leave")
  <2> DEFINE e == eng[s]
  <2>1. TimedBut(e, "none")
    BY <1>1, Before DEF IInv, Sound
  <2> HIDE DEF e
  <2> QED
    BY <2>1, ArmedIsHas DEF TimedBut, e
<1> QED
  BY <1>2 DEF WaitIsTimed, IdentPlaced

\* No station waits for ever: a call that is out has the timer of its next try,
\* a session its link timeout, and a master the end of the slot it granted,
\* whatever is aborted, cut short, dropped, answered late or called again.
THEOREM EveryWaitTimed == Spec => []WaitIsTimed
<1> QED
  BY IInvAlways, IInvTimed, PTL

\* No idle station forgets the closing identifier that it owes: the timer that
\* sends it, or the last of an aborting master's DISCs, is armed.
THEOREM IdentifierPlaced == Spec => []IdentPlaced
<1> QED
  BY IInvAlways, IInvTimed, PTL

\* A master is in a session that the other station accepted, later than all that
\* it has itself accepted; a slave in the latest that it accepted.
LEMMA RolesPlaced ==
  ASSUME Counted, NEW w, Placing(w), NEW s \in Stations
  PROVE  /\ eng[s].role = "master" =>
              /\ eng[s].session \in w[Peer(s)].accept
              /\ \A m \in w[s].accept : m < eng[s].session
              /\ \A m \in w[s].call : m <= eng[s].session
         /\ eng[s].role = "slave" =>
              /\ eng[s].session \in w[s].accept
              /\ \A m \in w[s].accept : m <= eng[s].session
         /\ eng[s].role \in Roles /\ (Up(eng[s]) => eng[s].role # "none")
         /\ eng[s].session \in Nat
<1> DEFINE e == eng[s]
           N == Num(w, s, session)
<1>1. Sound(s, N, e, "none") /\ Ranked(N, e) /\ Numbering(N)
  BY Before
<1>2. N.accept = w[s].accept /\ N.agreed = w[Peer(s)].accept /\ N.call = w[s].call
  BY DEF Num
<1> HIDE DEF e, N
<1>3. e \in Engines(s, N) /\ Shape(N, e)
  BY <1>1 DEF Sound
<1>4. e.role \in Roles /\ e.session \in Nat
  BY <1>1, <1>3 DEF Engines, Numbering
<1> QED
  BY <1>1, <1>2, <1>3, <1>4 DEF Shape, Ranked, Leading, e

LEMMA IInvOneMaster == IInv => OneMaster
<1> SUFFICES ASSUME IInv, \A s \in Stations : Up(eng[s])
             PROVE  /\ \E s \in Stations : eng[s].role # "master"
                    /\ \A s \in Stations : eng[s].role # eng[Peer(s)].role =>
                                             eng[s].session = eng[Peer(s)].session
  BY DEF OneMaster, BothUp
<1>1. Counted /\ \E w \in Witnesses(session) : Placing(w)
  BY DEF IInv
<1>2. PICK w \in Witnesses(session) : Placing(w)
  BY <1>1
<1>3. \A s \in Stations : /\ w[s].sent \subseteq w[s].call
                          /\ w[s].accept \subseteq w[Peer(s)].sent
                          /\ Peer(s) \in Stations /\ Peer(Peer(s)) = s
  BY <1>2, PeerType DEF Witnesses
<1>4. \A s \in Stations :
        /\ eng[s].role = "master" =>
             /\ eng[s].session \in w[Peer(s)].accept
             /\ \A m \in w[s].accept : m < eng[s].session
             /\ \A m \in w[s].call : m <= eng[s].session
        /\ eng[s].role = "slave" =>
             /\ eng[s].session \in w[s].accept
             /\ \A m \in w[s].accept : m <= eng[s].session
        /\ eng[s].role \in {"master", "slave"} /\ eng[s].session \in Nat
  BY <1>1, <1>2, RolesPlaced DEF Roles
<1>5. \E s \in Stations : eng[s].role # "master"
  <2>1. SUFFICES ASSUME \A s \in Stations : eng[s].role = "master" PROVE FALSE
    OBVIOUS
  <2>2. PICK s \in Stations : TRUE
    BY StationAssumption
  <2>3. eng[s].session < eng[Peer(s)].session /\ eng[Peer(s)].session < eng[s].session
    BY <1>3, <1>4, <2>1, <2>2
  <2> QED
    BY <1>3, <1>4, <2>2, <2>3
<1>6. ASSUME NEW s \in Stations, eng[s].role = "master", eng[Peer(s)].role = "slave"
      PROVE  eng[s].session = eng[Peer(s)].session
  <2> DEFINE p == Peer(s)
  <2>1. eng[s].session <= eng[p].session
    BY <1>3, <1>4, <1>6
  <2>2. eng[p].session \in w[s].call
    BY <1>3, <1>4, <1>6
  <2>3. eng[p].session <= eng[s].session
    BY <1>4, <1>6, <2>2
  <2> QED
    BY <1>3, <1>4, <2>1, <2>3
<1>7. ASSUME NEW s \in Stations, eng[s].role # eng[Peer(s)].role
      PROVE  eng[s].session = eng[Peer(s)].session
  <2>1. CASE eng[s].role = "master"
    BY <1>3, <1>4, <1>6, <1>7, <2>1
  <2>2. CASE eng[s].role = "slave"
    <3>1. eng[Peer(s)].role = "master" /\ Peer(s) \in Stations /\ Peer(Peer(s)) = s
      BY <1>3, <1>4, <1>7, <2>2
    <3> QED
      BY <1>6, <2>2, <3>1
  <2> QED
    BY <1>4, <2>1, <2>2
<1> QED
  BY <1>5, <1>7

\* Simultaneous calls, calls again, stale acceptances and late frames leave no two
\* masters, and no master and slave that are in different sessions.
THEOREM NeverTwoMasters == Spec => []OneMaster
<1> QED
  BY IInvAlways, IInvOneMaster, PTL
=============================================================================
