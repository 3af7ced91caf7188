--------------------------- MODULE MeasurementProofs ---------------------------
(***************************************************************************)
(* Proofs about Measurement, for every value of its constants: what the    *)
(* ladder credits a rung with, what is combined, what is acknowledged.     *)
(***************************************************************************)
EXTENDS Measurement, InductionFacts, SequenceTheorems

-----------------------------------------------------------------------------
\* The types of the records the two ends keep.

Masters == [ask : 0 .. MaxFrames, out : 0 .. MaxFrames, again : BOOLEAN, unheard : BOOLEAN,
            slot : [on : BOOLEAN, tx : Nat, heard : BOOLEAN], silent : 0 .. (MaxRetries + 1),
            up : BOOLEAN, asks : Nat, queue : Nat, next : Nat, unacked : SUBSET Nat, tx : Nat]
Reports == {{}} \cup {{frames} : frames \in SUBSET Index}
Harqs == UNION {[D -> Buffers] : D \in SUBSET Nat}
Slaves == [measured : Reports, of : Nat, anchor : Nat, answered : Nat, got : SUBSET Nat,
           harq : Harqs]
FrameSet == [tx : Nat, kind : {"header", "measure", "data"}, index : Nat,
             measure : BOOLEAN, count : Nat, follows : Nat]
Acks == [base : Nat, bits : SUBSET Nat, report : Reports]
Rungs == [sent : Nat, counted : SUBSET Index, snr : BOOLEAN, heard : SUBSET Index,
          joined : BOOLEAN]
Heard == [tx : Nat, got : SUBSET Index, joined : BOOLEAN]

Typed ==
  /\ master \in Masters /\ slave \in Slaves /\ air \in Seq(FrameSet)
  /\ answer \in {<<>>} \cup {<<a>> : a \in Acks}
  /\ ladder \in Seq(Rungs) /\ heard \in Heard

LEMMA ConstantFacts ==
  /\ MaxFrames \in Nat /\ MaxFrames >= 1 /\ MaxFollows \in Nat /\ MaxFollows >= 1
  /\ MaxRetries \in Nat /\ MaxAsks \in Nat /\ MaxBlocks \in Nat /\ MaxTx \in Nat
  /\ Index \subseteq Nat
BY MeasurementAssumption DEF Index

LEMMA NoBufferType == NoBuffer \in Harqs /\ DOMAIN NoBuffer = {}
<1>1. NoBuffer \in [{} -> Buffers] /\ {} \in SUBSET Nat
  BY DEF NoBuffer
<1> QED
  BY <1>1 DEF Harqs

LEMMA HarqFacts ==
  ASSUME NEW h \in Harqs
  PROVE  /\ DOMAIN h \subseteq Nat
         /\ \A g \in DOMAIN h : h[g] \in Buffers
BY DEF Harqs

-----------------------------------------------------------------------------
\* The first block not received.

BaseInv(s) == s.got \subseteq 0 .. (MaxBlocks - 1)

LEMMA BaseFacts ==
  ASSUME NEW s, BaseInv(s)
  PROVE  /\ Base(s) \in 0 .. MaxBlocks
         /\ \A b \in 0 .. (Base(s) - 1) : b \in s.got
         /\ Base(s) \notin s.got
<1> DEFINE T == {b \in 0 .. MaxBlocks : b \notin s.got}
<1>1. MaxBlocks \in T /\ T \subseteq Nat
  BY ConstantFacts DEF BaseInv
<1> HIDE DEF T
<1>2. PICK x \in T : \A y \in T : x <= y
  BY <1>1, LeastNatural
<1>3. x \in 0 .. MaxBlocks /\ x \notin s.got
  BY <1>2 DEF T
<1>4. \A c \in 0 .. (x - 1) : c \in s.got
  BY <1>2, <1>3, ConstantFacts DEF T
<1> QED
  BY <1>3, <1>4 DEF Base

\* It never goes back.
LEMMA BaseMonotone ==
  ASSUME NEW s, NEW r, BaseInv(s), BaseInv(r), s.got \subseteq r.got
  PROVE  Base(s) <= Base(r)
<1>1. Base(s) \in Nat /\ Base(r) \in Nat /\ Base(r) \notin r.got
  BY BaseFacts, ConstantFacts
<1>2. \A b \in 0 .. (Base(s) - 1) : b \in r.got
  BY BaseFacts
<1> QED
  BY <1>1, <1>2

LEMMA BaseSame ==
  ASSUME NEW s, NEW r, s.got = r.got
  PROVE  Base(s) = Base(r)
BY DEF Base

\* Every buffer is for a block that may still come.
HarqInv(s) == \A g \in DOMAIN s.harq : g \in Guesses(s)

-----------------------------------------------------------------------------
\* The operations of the slave, by what they change.

LEMMA SlaveFacts ==
  ASSUME NEW s \in Slaves
  PROVE  /\ s.measured \in Reports /\ s.of \in Nat /\ s.anchor \in Nat /\ s.answered \in Nat
         /\ s.got \subseteq Nat /\ s.harq \in Harqs
BY DEF Slaves

LEMMA FrameFacts ==
  ASSUME NEW f \in FrameSet
  PROVE  /\ f.tx \in Nat /\ f.kind \in {"header", "measure", "data"} /\ f.index \in Nat
         /\ f.measure \in BOOLEAN /\ f.count \in Nat /\ f.follows \in Nat
BY DEF FrameSet

LEMMA BeginFacts ==
  ASSUME NEW s \in Slaves, NEW f \in FrameSet
  PROVE  LET b == Begin(s, f)
         IN  /\ b \in Slaves /\ b.got = s.got /\ b.harq = s.harq /\ b.measured = s.measured
             /\ b.answered = s.answered
             /\ \/ b.anchor = 0 /\ b.of = 0 /\ s.anchor # 0 /\ f.tx > s.anchor
                \/ b = s /\ (s.anchor = 0 \/ f.tx <= s.anchor)
<1>1. s.anchor \in Nat /\ f.tx \in Nat
  BY SlaveFacts, FrameFacts
<1>2. CASE s.anchor # 0 /\ f.tx > s.anchor
  <2> DEFINE b == Begin(s, f)
  <2>1. b = [s EXCEPT !.anchor = 0, !.of = 0]
    BY <1>2 DEF Begin
  <2> HIDE DEF b
  <2>2. /\ b \in Slaves /\ b.got = s.got /\ b.harq = s.harq /\ b.measured = s.measured
        /\ b.answered = s.answered /\ b.anchor = 0 /\ b.of = 0
    BY <2>1 DEF Slaves
  <2> QED
    BY <1>2, <2>2 DEF b
<1>3. CASE ~(s.anchor # 0 /\ f.tx > s.anchor)
  <2>1. Begin(s, f) = s
    BY <1>3 DEF Begin
  <2> QED
    BY <1>1, <1>3, <2>1
<1> QED
  BY <1>2, <1>3

LEMMA MeasurementHeardFacts ==
  ASSUME NEW s \in Slaves, NEW f \in FrameSet, NEW new \in BOOLEAN
  PROVE  LET r == MeasurementHeard(s, f, new)
         IN  /\ r \in Slaves /\ r.got = s.got /\ r.anchor = s.anchor /\ r.answered = s.answered
             /\ s.of # 0 => r = s
             /\ s.of = 0 => /\ r.of = (IF new THEN f.tx ELSE 0) /\ r.harq = NoBuffer
                            /\ r.measured = IF new \/ s.measured = {} THEN {{}} ELSE s.measured
<1> DEFINE r == MeasurementHeard(s, f, new)
<1>1. CASE s.of # 0
  BY <1>1 DEF MeasurementHeard
<1>2. CASE s.of = 0
  <2> DEFINE report == IF new \/ s.measured = {} THEN {{}} ELSE s.measured
             of == IF new THEN f.tx ELSE 0
  <2>1. report \in Reports /\ of \in Nat /\ NoBuffer \in Harqs
    BY NoBufferType, SlaveFacts, FrameFacts DEF Reports
  <2>2. r = [s EXCEPT !.of = of, !.measured = report, !.harq = NoBuffer]
    BY <1>2 DEF MeasurementHeard
  <2> HIDE DEF r, report, of
  <2>3. /\ r \in Slaves /\ r.got = s.got /\ r.anchor = s.anchor /\ r.answered = s.answered
        /\ r.of = of /\ r.harq = NoBuffer /\ r.measured = report
    BY <2>1, <2>2 DEF Slaves
  <2> QED
    BY <1>2, <2>3 DEF r, report, of
<1> QED
  BY <1>1, <1>2

LEMMA KeptFacts ==
  ASSUME NEW s \in Slaves, NEW b \in 0 .. (MaxBlocks - 1), BaseInv(s), HarqInv(s)
  PROVE  LET r == Kept(s, b)
         IN  /\ r \in Slaves /\ r.got = s.got \cup {b} /\ r.anchor = s.anchor
             /\ r.answered = s.answered /\ r.of = s.of /\ r.measured = s.measured
             /\ DOMAIN r.harq \subseteq DOMAIN s.harq
             /\ \A g \in DOMAIN r.harq : r.harq[g] = s.harq[g]
             /\ BaseInv(r) /\ HarqInv(r)
<1> DEFINE t == [s EXCEPT !.got = @ \cup {b}]
           D == {h \in DOMAIN s.harq : h # b /\ h >= Base(t)}
           h == [g \in D |-> s.harq[g]]
           r == Kept(s, b)
<1>1. s.got \subseteq Nat /\ s.harq \in Harqs /\ b \in Nat
  BY SlaveFacts
<1>2. t \in Slaves /\ t.got = s.got \cup {b} /\ BaseInv(t)
  BY <1>1 DEF Slaves, BaseInv
<1>3. t.anchor = s.anchor /\ t.answered = s.answered /\ t.of = s.of /\ t.measured = s.measured
  BY DEF Slaves
<1>4. r = [t EXCEPT !.harq = h]
  BY DEF Kept
<1> HIDE DEF t, r
<1>5. /\ Base(s) \in Nat /\ Base(t) \in Nat /\ Base(s) <= Base(t)
  <2>1. s.got \subseteq t.got
    BY <1>2
  <2>2. Base(s) \in 0 .. MaxBlocks /\ Base(t) \in 0 .. MaxBlocks
    BY <1>2, BaseFacts
  <2>3. Base(s) <= Base(t)
    BY <1>2, <2>1, BaseMonotone
  <2> QED
    BY <2>2, <2>3, ConstantFacts
<1>6. h \in Harqs /\ DOMAIN h = D /\ \A g \in D : h[g] = s.harq[g]
  <2>1. D \subseteq Nat /\ \A g \in D : s.harq[g] \in Buffers
    BY <1>1, HarqFacts
  <2>2. D \in SUBSET Nat
    BY <2>1
  <2> HIDE DEF D
  <2>3. h \in [D -> Buffers]
    BY <2>1
  <2> QED
    BY <2>2, <2>3 DEF Harqs
<1>7. D \subseteq DOMAIN s.harq /\ \A g \in D : g >= Base(t)
  OBVIOUS
<1> HIDE DEF h, D
<1>8. /\ r \in Slaves /\ r.got = t.got /\ r.anchor = t.anchor
      /\ r.answered = t.answered /\ r.of = t.of /\ r.measured = t.measured /\ r.harq = h
  BY <1>2, <1>4, <1>6 DEF Slaves
<1>9. Base(r) = Base(t) /\ BaseInv(r)
  BY <1>2, <1>8, BaseSame DEF BaseInv
<1>10. HarqInv(r)
  <2> SUFFICES ASSUME NEW g \in DOMAIN r.harq
               PROVE  g \in Guesses(r)
    BY DEF HarqInv
  <2>1. g \in D /\ g \in Guesses(s)
    BY <1>6, <1>7, <1>8 DEF HarqInv
  <2>2. g >= Base(t) /\ g \in Base(s) .. (Base(s) + MaxFrames - 1)
    BY <1>7, <2>1 DEF Guesses
  <2> QED
    BY <1>5, <1>9, <2>2, ConstantFacts DEF Guesses
<1> QED
  BY <1>2, <1>6, <1>3, <1>7, <1>8, <1>9, <1>10 DEF r

LEMMA TakeHeaderFacts ==
  ASSUME NEW s \in Slaves, NEW f \in FrameSet
  PROVE  LET b == Begin(s, f)
             r == TakeHeader(s, f)
         IN  /\ r \in Slaves /\ r.got = s.got /\ r.anchor = f.tx /\ r.answered = s.answered
             /\ ~f.measure \/ b.of # 0 =>
                  /\ r.of = b.of /\ r.harq = s.harq
                  /\ r.measured = IF ~f.measure /\ f.count > 0 THEN {} ELSE s.measured
             /\ f.measure /\ b.of = 0 =>
                  /\ r.of = (IF f.count > 0 THEN f.tx ELSE 0) /\ r.harq = NoBuffer
                  /\ r.measured = IF f.count > 0 \/ s.measured = {} THEN {{}} ELSE s.measured
<1> DEFINE b == Begin(s, f)
           noted == IF f.measure THEN MeasurementHeard(b, f, f.count > 0)
                    ELSE IF f.count > 0 THEN [b EXCEPT !.measured = {}]
                    ELSE b
           r == TakeHeader(s, f)
<1>1. /\ b \in Slaves /\ b.got = s.got /\ b.harq = s.harq /\ b.measured = s.measured
      /\ b.answered = s.answered
  BY BeginFacts
<1>2. f.tx \in Nat /\ (f.count > 0) \in BOOLEAN /\ f.measure \in BOOLEAN
  BY FrameFacts
<1>3. r = [noted EXCEPT !.anchor = f.tx]
  BY DEF TakeHeader
<1> HIDE DEF b, r
<1>4. CASE f.measure
  <2> PICK new \in BOOLEAN : new <=> f.count > 0
    BY <1>2
  <2>1. noted = MeasurementHeard(b, f, new)
    BY <1>4 DEF MeasurementHeard
  <2> HIDE DEF noted
  <2>2. /\ noted \in Slaves /\ noted.got = b.got /\ noted.answered = b.answered
        /\ b.of # 0 => noted = b
        /\ b.of = 0 => /\ noted.of = (IF new THEN f.tx ELSE 0) /\ noted.harq = NoBuffer
                       /\ noted.measured = IF new \/ b.measured = {} THEN {{}} ELSE b.measured
    BY <1>1, <1>2, <2>1, MeasurementHeardFacts
  <2>3. /\ r \in Slaves /\ r.got = noted.got /\ r.anchor = f.tx
        /\ r.answered = noted.answered /\ r.of = noted.of /\ r.harq = noted.harq
        /\ r.measured = noted.measured
    BY <1>2, <1>3, <2>2 DEF Slaves
  <2> QED
    BY <1>1, <1>4, <2>2, <2>3 DEF b, r
<1>5. CASE ~f.measure
  <2> DEFINE m == IF f.count > 0 THEN {} ELSE b.measured
  <2>1. m \in Reports
    BY <1>1, SlaveFacts DEF Reports
  <2>2. noted = [b EXCEPT !.measured = m]
    BY <1>1, <1>5 DEF Slaves
  <2> HIDE DEF noted, m
  <2>3. /\ r \in Slaves /\ r.got = b.got /\ r.anchor = f.tx
        /\ r.answered = b.answered /\ r.of = b.of /\ r.harq = b.harq
        /\ r.measured = m
    BY <1>1, <1>2, <1>3, <2>1, <2>2 DEF Slaves
  <2> QED
    BY <1>1, <1>5, <2>3 DEF b, r, m
<1> QED
  BY <1>2, <1>4, <1>5

LEMMA AcceptMeasureFacts ==
  ASSUME NEW s \in Slaves, NEW f \in FrameSet, f.kind = "measure", f.index \in Index
  PROVE  LET r == Accept(s, f, FALSE)
         IN  /\ r \in Slaves /\ r.got = s.got /\ r.anchor = s.anchor /\ r.answered = s.answered
             /\ s.of # 0 => /\ r.of = s.of /\ r.harq = s.harq
                            /\ r.measured = {(UNION s.measured) \cup {f.index}}
             /\ s.of = 0 => /\ r.of = f.tx /\ r.harq = NoBuffer
                            /\ r.measured = {{f.index}}
<1> DEFINE h == MeasurementHeard(s, f, TRUE)
           report == {(UNION h.measured) \cup {f.index}}
           r == Accept(s, f, FALSE)
<1>1. r = [h EXCEPT !.measured = report]
  BY DEF Accept
<1>2. /\ h \in Slaves /\ h.got = s.got /\ h.anchor = s.anchor /\ h.answered = s.answered
      /\ s.of # 0 => h = s
      /\ s.of = 0 => h.of = f.tx /\ h.harq = NoBuffer /\ h.measured = {{}}
  BY MeasurementHeardFacts
<1> HIDE DEF h
<1> DEFINE frames == UNION h.measured
<1>3. frames \in SUBSET Index
  <2>1. h.measured \in Reports
    BY <1>2, SlaveFacts
  <2>2. h.measured = {} \/ \E x \in SUBSET Index : h.measured = {x}
    BY <2>1 DEF Reports
  <2>3. \A x \in UNION h.measured : x \in Index
    BY <2>2
  <2> QED
    BY <2>3
<1>4. /\ s.of # 0 => frames = UNION s.measured
      /\ s.of = 0 => frames = {}
  <2>1. UNION {{}} = {}
    BY Zenon
  <2>2. s.of # 0 => h.measured = s.measured
    BY <1>2
  <2>3. s.of = 0 => h.measured = {{}}
    BY <1>2
  <2> QED
    BY <2>1, <2>2, <2>3, Zenon
<1>5. report = {frames \cup {f.index}}
  OBVIOUS
<1> HIDE DEF report, r, frames
<1>7. report \in Reports
  <2>1. frames \cup {f.index} \in SUBSET Index
    BY <1>3
  <2> QED
    BY <1>5, <2>1 DEF Reports
<1>6. /\ r \in Slaves /\ r.got = h.got /\ r.anchor = h.anchor /\ r.answered = h.answered
      /\ r.of = h.of /\ r.harq = h.harq /\ r.measured = report
  BY <1>1, <1>2, <1>7 DEF Slaves
<1> QED
  BY <1>2, <1>4, <1>5, <1>6 DEF r

LEMMA AcceptDataFacts ==
  ASSUME NEW s \in Slaves, NEW f \in FrameSet, f.kind = "data", f.index \in 0 .. (MaxBlocks - 1),
         BaseInv(s), HarqInv(s), NEW late \in BOOLEAN
  PROVE  LET r == Accept(s, f, late)
         IN  /\ r \in Slaves /\ r.got = s.got \cup {f.index} /\ r.anchor = s.anchor
             /\ r.answered = s.answered /\ r.of = s.of
             /\ r.measured = IF late THEN s.measured ELSE {}
             /\ DOMAIN r.harq \subseteq DOMAIN s.harq
             /\ \A g \in DOMAIN r.harq : r.harq[g] = s.harq[g]
             /\ BaseInv(r) /\ HarqInv(r)
<1> DEFINE t == IF late THEN s ELSE [s EXCEPT !.measured = {}]
           r == Accept(s, f, late)
<1>1. r = Kept(t, f.index)
  BY DEF Accept
<1>2. /\ t \in Slaves /\ t.got = s.got /\ t.anchor = s.anchor /\ t.answered = s.answered
      /\ t.of = s.of /\ t.harq = s.harq /\ t.measured = IF late THEN s.measured ELSE {}
  <2>1. CASE late
    BY <2>1
  <2>2. CASE ~late
    <3>1. t = [s EXCEPT !.measured = {}] /\ {} \in Reports
      BY <2>2 DEF Reports
    <3> HIDE DEF t
    <3> QED
      BY <2>2, <3>1 DEF Slaves
  <2> QED
    BY <2>1, <2>2
<1> HIDE DEF t, r
<1>3. BaseInv(t) /\ HarqInv(t)
  BY <1>2, BaseSame DEF BaseInv, HarqInv, Guesses
<1>4. /\ r \in Slaves /\ r.got = t.got \cup {f.index} /\ r.anchor = t.anchor
      /\ r.answered = t.answered /\ r.of = t.of /\ r.measured = t.measured
      /\ DOMAIN r.harq \subseteq DOMAIN t.harq
      /\ \A g \in DOMAIN r.harq : r.harq[g] = t.harq[g]
      /\ BaseInv(r) /\ HarqInv(r)
  BY <1>1, <1>2, <1>3, KeptFacts
<1> QED
  BY <1>2, <1>4 DEF r

LEMMA CombinedFacts ==
  ASSUME NEW s \in Slaves, NEW f \in FrameSet, f.kind \in {"measure", "data"},
         NEW guess \in Guesses(s), NEW over \in BOOLEAN, BaseInv(s), HarqInv(s)
  PROVE  LET r == Combined(s, f, guess, over)
         IN  /\ r \in Slaves /\ r.got = s.got /\ r.anchor = s.anchor /\ r.answered = s.answered
             /\ r.of = s.of /\ r.measured = s.measured
             /\ s.of # 0 => r.harq = s.harq
             /\ \A g \in DOMAIN r.harq :
                  \/ g \in DOMAIN s.harq /\ r.harq[g] = s.harq[g]
                  \/ g \in DOMAIN s.harq /\ r.harq[g] = On(s.harq[g], f.kind)
                  \/ r.harq[g] = f.kind
             /\ BaseInv(r) /\ HarqInv(r)
<1> DEFINE r == Combined(s, f, guess, over)
<1>1. CASE s.of # 0
  <2>1. r = s
    BY <1>1 DEF Combined
  <2> HIDE DEF r
  <2> QED
    BY <2>1 DEF r
<1>2. CASE s.of = 0
  <2> DEFINE D == DOMAIN s.harq \cup {guess}
             v(g) == IF g # guess THEN s.harq[g]
                     ELSE IF guess \in DOMAIN s.harq /\ ~over THEN On(s.harq[g], f.kind)
                     ELSE f.kind
             h == [g \in D |-> v(g)]
  <2>1. r = [s EXCEPT !.harq = h]
    BY <1>2 DEF Combined
  <2>2. guess \in Nat
    <3>1. Base(s) \in 0 .. MaxBlocks
      BY BaseFacts
    <3> QED
      BY <3>1, ConstantFacts DEF Guesses
  <2>3. \A g \in D : /\ g \in DOMAIN s.harq \/ g = guess
                     /\ \/ g \in DOMAIN s.harq /\ v(g) = s.harq[g]
                        \/ g \in DOMAIN s.harq /\ v(g) = On(s.harq[g], f.kind)
                        \/ v(g) = f.kind
    OBVIOUS
  <2>4. \A g \in D : v(g) \in Buffers
    <3>1. \A g \in DOMAIN s.harq : s.harq[g] \in Buffers
      BY SlaveFacts, HarqFacts
    <3>2. \A g \in DOMAIN s.harq : On(s.harq[g], f.kind) \in Buffers
      BY <3>1 DEF On, Buffers
    <3>3. f.kind \in Buffers
      BY DEF Buffers
    <3> QED
      BY <2>3, <3>1, <3>2, <3>3
  <2>5. h \in Harqs /\ DOMAIN h = D /\ \A g \in D : h[g] = v(g)
    <3>1. D \in SUBSET Nat
      BY <2>2, SlaveFacts, HarqFacts
    <3> HIDE DEF D, v
    <3>2. h \in [D -> Buffers]
      BY <2>4
    <3> QED
      BY <3>1, <3>2 DEF Harqs
  <2>6. \A g \in D : g \in Guesses(s)
    BY DEF HarqInv
  <2> HIDE DEF r, h, D, v
  <2>7. /\ r \in Slaves /\ r.got = s.got /\ r.anchor = s.anchor /\ r.answered = s.answered
        /\ r.of = s.of /\ r.measured = s.measured /\ r.harq = h
    BY <2>1, <2>5 DEF Slaves
  <2>8. BaseInv(r) /\ HarqInv(r)
    BY <2>5, <2>6, <2>7, BaseSame DEF BaseInv, HarqInv, Guesses
  <2> QED
    BY <1>2, <2>3, <2>5, <2>7, <2>8 DEF r
<1> QED
  BY <1>1, <1>2

-----------------------------------------------------------------------------
\* The operations of the master.

LEMMA MasterFacts ==
  ASSUME NEW m \in Masters
  PROVE  /\ m.ask \in 0 .. MaxFrames /\ m.out \in 0 .. MaxFrames /\ m.ask \in Nat /\ m.out \in Nat
         /\ m.slot.on \in BOOLEAN /\ m.slot.tx \in Nat /\ m.slot.heard \in BOOLEAN
         /\ m.silent \in 0 .. (MaxRetries + 1) /\ m.silent \in Nat /\ m.up \in BOOLEAN
         /\ m.asks \in Nat /\ m.queue \in Nat /\ m.next \in Nat /\ m.unacked \subseteq Nat
         /\ m.tx \in Nat /\ m.again \in BOOLEAN /\ m.unheard \in BOOLEAN
BY ConstantFacts DEF Masters

\* Nothing changes but what is known of the measurement and what is acknowledged.
SameButReport(m, n) ==
  /\ n \in Masters
  /\ n.slot = m.slot /\ n.silent = m.silent /\ n.up = m.up /\ n.asks = m.asks
  /\ n.queue = m.queue /\ n.next = m.next /\ n.tx = m.tx

LEMMA AskAgainFacts ==
  ASSUME NEW m \in Masters, ~(m.ask > 0 /\ m.out > 0)
  PROVE  LET n == AskAgain(m)
         IN  /\ SameButReport(m, n) /\ n.unacked = m.unacked /\ n.out = 0
             /\ n.ask = IF m.out > 0 THEN m.out ELSE m.ask
<1> DEFINE n == AskAgain(m)
<1>1. m.ask \in Nat /\ m.out \in Nat
  BY MasterFacts
<1>2. CASE m.out > 0
  <2>1. n = [m EXCEPT !.ask = m.out, !.out = 0, !.unheard = FALSE]
    BY <1>1, <1>2 DEF AskAgain
  <2>2. 0 \in 0 .. MaxFrames
    BY ConstantFacts
  <2> HIDE DEF n
  <2>3. /\ n \in Masters /\ n.slot = m.slot /\ n.silent = m.silent /\ n.up = m.up
        /\ n.asks = m.asks /\ n.queue = m.queue /\ n.next = m.next /\ n.tx = m.tx
        /\ n.unacked = m.unacked /\ n.out = 0 /\ n.ask = m.out
    BY <2>1, <2>2 DEF Masters
  <2> QED
    BY <1>2, <2>3 DEF n, SameButReport
<1>3. CASE ~(m.out > 0)
  BY <1>1, <1>3 DEF AskAgain, SameButReport
<1> QED
  BY <1>2, <1>3

LEMMA UnheardFacts ==
  ASSUME NEW m \in Masters, ~(m.ask > 0 /\ m.out > 0), Typed
  PROVE  LET u == Unheard(m)
         IN  /\ SameButReport(m, u.master) /\ u.master.unacked = m.unacked /\ u.master.out = 0
             /\ \/ /\ u.rungs = <<>>
                   /\ u.master.ask = IF m.out > 0 THEN m.out ELSE m.ask
                \/ /\ m.out > 0 /\ u.master.ask = m.ask
                   /\ \E r \in Rungs : u.rungs = <<r>> /\ r.counted = {} /\ ~r.snr
<1> DEFINE u == Unheard(m)
<1>1. m.ask \in Nat /\ m.out \in Nat
  BY MasterFacts
<1>2. CASE m.out = 0
  <2>1. u = [master |-> m, rungs |-> <<>>]
    BY <1>2 DEF Unheard
  <2> HIDE DEF u
  <2> QED
    BY <1>2, <2>1 DEF u, SameButReport
<1>3. CASE m.out > 0 /\ ~m.again
  <2> DEFINE a == [m EXCEPT !.again = TRUE]
  <2>1. u = [master |-> AskAgain(a), rungs |-> <<>>]
    BY <1>1, <1>3 DEF Unheard
  <2>2. a \in Masters /\ a.ask = m.ask /\ a.out = m.out /\ a.unacked = m.unacked
        /\ a.slot = m.slot /\ a.silent = m.silent /\ a.up = m.up /\ a.asks = m.asks
        /\ a.queue = m.queue /\ a.next = m.next /\ a.tx = m.tx
    BY DEF Masters
  <2> HIDE DEF a, u
  <2> DEFINE n == AskAgain(a)
  <2>3. /\ SameButReport(a, n) /\ n.unacked = a.unacked /\ n.out = 0
        /\ n.ask = IF a.out > 0 THEN a.out ELSE a.ask
    BY <2>2, AskAgainFacts
  <2> HIDE DEF n
  <2>4. u.master = n /\ u.rungs = <<>>
    BY <2>1 DEF n
  <2> QED
    BY <2>2, <2>3, <2>4 DEF u, SameButReport
<1>4. CASE m.out > 0 /\ m.again
  <2> DEFINE n == [m EXCEPT !.out = 0, !.again = FALSE, !.unheard = FALSE]
             r == Rung(m.out, {}, FALSE)
  <2>1. u = [master |-> n, rungs |-> <<r>>]
    BY <1>1, <1>4 DEF Unheard
  <2>2. 0 \in 0 .. MaxFrames
    BY ConstantFacts
  <2>3. /\ n \in Masters /\ n.slot = m.slot /\ n.silent = m.silent /\ n.up = m.up
        /\ n.asks = m.asks /\ n.queue = m.queue /\ n.next = m.next /\ n.tx = m.tx
        /\ n.unacked = m.unacked /\ n.out = 0 /\ n.ask = m.ask
    BY <2>2 DEF Masters
  <2>4. r \in Rungs /\ r.counted = {} /\ ~r.snr
    BY <1>1 DEF Rung, Rungs, Typed, Heard
  <2> HIDE DEF n, r, u
  <2> QED
    BY <1>4, <2>1, <2>3, <2>4 DEF u, SameButReport
<1> QED
  BY <1>1, <1>2, <1>3, <1>4, MasterFacts

LEMMA TakeAckFacts ==
  ASSUME NEW m \in Masters, NEW ack \in Acks, Typed
  PROVE  LET t == TakeAck(m, ack)
         IN  /\ SameButReport(m, t.master) /\ t.master.ask = m.ask
             /\ t.master.unacked = {b \in m.unacked : ~Received(ack, b)}
             /\ \/ /\ t.rungs = <<>> /\ t.master.out = m.out
                   /\ m.out > 0 => ack.report = {}
                \/ /\ m.out > 0 /\ t.master.out = 0 /\ ack.report # {}
                   /\ \E r \in Rungs :
                        /\ t.rungs = <<r>> /\ r.counted \subseteq UNION ack.report
                        /\ r.heard = heard.got /\ r.joined = heard.joined
<1> DEFINE t == TakeAck(m, ack)
           acked == [m EXCEPT !.unacked = {b \in @ : ~Received(ack, b)}]
<1>1. m.ask \in Nat /\ m.out \in Nat /\ m.unacked \subseteq Nat /\ m.unheard \in BOOLEAN
  BY MasterFacts
<1>2. /\ acked \in Masters /\ acked.unacked = {b \in m.unacked : ~Received(ack, b)}
      /\ acked.ask = m.ask /\ acked.out = m.out
      /\ acked.slot = m.slot /\ acked.silent = m.silent /\ acked.up = m.up /\ acked.asks = m.asks
      /\ acked.queue = m.queue /\ acked.next = m.next /\ acked.tx = m.tx
  BY <1>1 DEF Masters
<1>3. CASE m.out = 0
  <2>1. t = [master |-> acked, rungs |-> <<>>]
    BY <1>3 DEF TakeAck
  <2> HIDE DEF t, acked
  <2> QED
    BY <1>2, <1>3, <2>1 DEF t, SameButReport
<1>4. CASE m.out > 0 /\ ack.report = {}
  <2> DEFINE n == [acked EXCEPT !.unheard = TRUE]
  <2>1. t = [master |-> n, rungs |-> <<>>]
    BY <1>1, <1>4 DEF TakeAck
  <2> HIDE DEF acked
  <2>2. /\ n \in Masters /\ n.slot = acked.slot /\ n.silent = acked.silent /\ n.up = acked.up
        /\ n.asks = acked.asks /\ n.queue = acked.queue /\ n.next = acked.next
        /\ n.tx = acked.tx /\ n.unacked = acked.unacked /\ n.out = acked.out
        /\ n.ask = acked.ask
    BY <1>2 DEF Masters
  <2> HIDE DEF t, n
  <2> QED
    BY <1>2, <1>4, <2>1, <2>2 DEF t, SameButReport
<1>5. CASE m.out > 0 /\ ack.report # {}
  <2> DEFINE n == [acked EXCEPT !.out = 0, !.unheard = FALSE, !.again = FALSE]
             frames == UNION ack.report
             counted == frames \cap (0 .. (m.out - 1))
             r == Rung(m.out, counted, ~m.unheard)
  <2>1. t = [master |-> n, rungs |-> <<r>>]
    BY <1>1, <1>5 DEF TakeAck
  <2> HIDE DEF acked
  <2>2. 0 \in 0 .. MaxFrames
    BY ConstantFacts
  <2>3. /\ n \in Masters /\ n.slot = acked.slot /\ n.silent = acked.silent /\ n.up = acked.up
        /\ n.asks = acked.asks /\ n.queue = acked.queue /\ n.next = acked.next
        /\ n.tx = acked.tx /\ n.unacked = acked.unacked /\ n.out = 0
        /\ n.ask = acked.ask
    BY <1>2, <2>2 DEF Masters
  <2>4. counted \subseteq frames /\ counted \subseteq Index
    <3>1. m.out \in 0 .. MaxFrames
      BY MasterFacts
    <3> HIDE DEF frames
    <3> QED
      BY <3>1, ConstantFacts DEF Index
  <2> HIDE DEF counted
  <2>5. r \in Rungs /\ r.counted = counted /\ r.heard = heard.got /\ r.joined = heard.joined
    BY <1>1, <2>4 DEF Rung, Rungs, Typed, Heard
  <2> HIDE DEF n, r, t
  <2>6. t.master = n /\ t.rungs = <<r>>
    BY <2>1
  <2>7. SameButReport(m, n) /\ n.ask = m.ask /\ n.out = 0
        /\ n.unacked = {b \in m.unacked : ~Received(ack, b)}
    BY <1>2, <2>3 DEF SameButReport
  <2> QED
    BY <1>5, <2>4, <2>5, <2>6, <2>7 DEF t
<1> QED
  BY <1>1, <1>3, <1>4, <1>5

-----------------------------------------------------------------------------
\* The invariant.

Bounds ==
  /\ master.up => master.silent <= MaxRetries
  /\ Measuring(master) => Len(ladder) + 1 <= master.asks
  /\ master.slot.on => master.slot.tx = master.tx
  /\ slave.answered <= master.tx /\ heard.tx <= master.tx
  /\ \A i \in DOMAIN air :
       /\ air[i].tx >= 1 /\ air[i].tx <= master.tx
       /\ air[i].kind = "data" => air[i].index < master.next
       /\ air[i].kind = "measure" => air[i].index \in Index /\ air[i].tx <= heard.tx

\* Frames are read in the order they went, the slave is past none of them, and a
\* transmission carries a measurement alone, announced.
InOrder ==
  /\ \A i, j \in DOMAIN air : i < j => air[i].tx <= air[j].tx
  /\ \A i \in DOMAIN air : slave.anchor <= air[i].tx /\ slave.of <= air[i].tx
  /\ \A i \in DOMAIN air :
       air[i].kind = "header" /\ air[i].tx = heard.tx => air[i].measure /\ air[i].count > 0
OneKind ==
  \A i, j \in DOMAIN air :
    air[j].kind = "measure" /\ air[i].tx = air[j].tx =>
      /\ air[i].kind # "data"
      /\ air[i].kind = "header" => air[i].measure /\ air[i].count > 0

\* The slave that knows of a measurement holds nothing to combine, and it knows of
\* the measurement in the transmission it has anchored.
Known ==
  /\ slave.of # 0 => DOMAIN slave.harq = {}
  /\ \A i \in DOMAIN air :
       /\ air[i].kind = "measure" /\ air[i].tx = slave.anchor
       /\ slave.anchor > slave.answered
       => slave.of # 0

\* While a measurement waits for its report the master says so, and a slave that
\* has read as much holds nothing of it to combine.
Asked ==
  master.slot.on /\ master.out > 0 =>
    /\ \A i \in DOMAIN air :
         air[i].tx = master.tx => /\ air[i].kind # "data"
                                  /\ air[i].kind = "header" => air[i].measure
    /\ slave.anchor = master.tx => \A g \in DOMAIN slave.harq : slave.harq[g] = "data"

\* An answer on its way is of the slot that is open, and says what arrived.
Says(ack, got) == (\A b \in 0 .. (ack.base - 1) : b \in got) /\ ack.bits \subseteq got
AnswerInv ==
  answer # <<>> =>
    /\ master.slot.on /\ slave.answered = master.tx /\ slave.anchor = master.tx
    /\ Says(Head(answer), slave.got)

\* What the slave would report is of the last measurement, once it knows of that
\* one; until then its slot has been silent.
Fresh(report, h) == h.joined \/ UNION report \subseteq h.got
Knows(s, h) == h.tx <= s.answered \/ h.tx <= s.anchor \/ h.tx <= s.of
OwnInv ==
  master.out > 0 =>
    /\ \/ heard.tx <= slave.answered
       \/ master.slot.on /\ ~master.slot.heard /\ master.slot.tx = heard.tx
    /\ Knows(slave, heard) => Fresh(slave.measured, heard)
    /\ answer # <<>> => Fresh(Head(answer).report, heard)

\* Until a measurement has been given up, what is combined with one's codeword, and
\* what may yet be, is of the measurement that is not settled: no data is about.
Resolved == \A i \in DOMAIN ladder : ladder[i].snr
Unsettled == Measuring(master) /\ master.unacked = {}
HeldInv ==
  Resolved =>
    \A g \in DOMAIN slave.harq : slave.harq[g] # "data" =>
      /\ slave.harq[g] = "measure" /\ Unsettled
      /\ \A i \in DOMAIN air : air[i].kind # "data"
ComingInv ==
  Resolved =>
    \A i \in DOMAIN air : air[i].kind = "measure" /\ air[i].tx > slave.answered =>
      /\ Unsettled
      /\ \A j \in DOMAIN air : i < j => air[j].kind # "data"

Inv ==
  /\ Typed /\ TypeOK /\ Bounds /\ InOrder /\ OneKind /\ Known /\ Asked /\ AnswerInv /\ OwnInv
  /\ HeldInv /\ ComingInv /\ AckedIsReceived /\ LadderIsOwn

-----------------------------------------------------------------------------
\* What is read next.

LEMMA HeadOfAir ==
  ASSUME Inv, air # <<>>
  PROVE  /\ 1 \in DOMAIN air /\ Head(air) = air[1] /\ Head(air) \in FrameSet
         /\ Tail(air) \in Seq(FrameSet)
         /\ \A i \in DOMAIN Tail(air) : i \in Nat /\ i + 1 \in DOMAIN air /\ Tail(air)[i] = air[i + 1]
         /\ \A i \in DOMAIN air : i \in Nat /\ air[i] \in FrameSet /\ air[i].tx \in Nat
         /\ DOMAIN air = 1 .. Len(air) /\ DOMAIN Tail(air) \subseteq Int
<1>1. air \in Seq(FrameSet) /\ Len(air) \in Nat /\ DOMAIN air = 1 .. Len(air) /\ Len(air) # 0
  BY DEF Inv, Typed
<1>2. Head(air) = air[1] /\ Tail(air) \in Seq(FrameSet) /\ Len(Tail(air)) = Len(air) - 1
      /\ DOMAIN Tail(air) = 1 .. Len(Tail(air))
      /\ \A i \in 1 .. Len(Tail(air)) : Tail(air)[i] = air[i + 1]
  BY <1>1, HeadTailProperties
<1>3. \A i \in DOMAIN air : i \in Nat /\ air[i] \in FrameSet /\ air[i].tx \in Nat
  BY <1>1, FrameFacts
<1> QED
  BY <1>1, <1>2, <1>3

\* The history only grows.
Grown(h, k) == /\ k \in Heard /\ k.tx = h.tx /\ h.got \subseteq k.got
               /\ h.joined => k.joined

\* What the slave makes of the next frame, as far as the invariant needs it.
Takes(s, r, h, k) ==
  /\ r \in Slaves /\ HarqInv(r) /\ s.got \subseteq r.got /\ r.got \subseteq 0 .. (master.next - 1)
  /\ r.answered = s.answered
  /\ r.anchor \in {0, s.anchor, air[1].tx} /\ r.of \in {0, s.of, air[1].tx}
  /\ air[1].tx <= s.answered => r.anchor = s.anchor
  /\ r.answered <= r.anchor \/ r.anchor = 0
  /\ Grown(h, k)
TakesKnown(r) ==
  /\ r.of # 0 => DOMAIN r.harq = {}
  /\ \A i \in DOMAIN air :
       /\ i > 1 /\ air[i].kind = "measure" /\ air[i].tx = r.anchor
       /\ r.anchor > r.answered
       => r.of # 0
TakesAsked(r) ==
  master.slot.on /\ master.out > 0 /\ r.anchor = master.tx =>
    \A g \in DOMAIN r.harq : r.harq[g] = "data"
TakesOwn(r, k) == master.out > 0 /\ Knows(r, k) => Fresh(r.measured, k)
TakesHeld(r) ==
  Resolved =>
    \A g \in DOMAIN r.harq : r.harq[g] # "data" =>
      /\ r.harq[g] = "measure" /\ Unsettled
      /\ \A i \in DOMAIN air : i > 1 => air[i].kind # "data"

LEMMA TypeFacts ==
  ASSUME Inv
  PROVE  /\ master \in Masters /\ slave \in Slaves /\ heard \in Heard
         /\ heard.tx \in Nat /\ heard.got \subseteq Index /\ heard.joined \in BOOLEAN
         /\ ~(master.ask > 0 /\ master.out > 0)
         /\ master.queue + master.next <= MaxBlocks /\ master.next <= MaxBlocks
         /\ BaseInv(slave) /\ HarqInv(slave) /\ slave.got \subseteq 0 .. (master.next - 1)
<1>1. master.queue + master.next <= MaxBlocks /\ slave.got \subseteq 0 .. (master.next - 1)
      /\ ~(master.ask > 0 /\ master.out > 0)
      /\ \A g \in DOMAIN slave.harq : g \in Guesses(slave)
  BY DEF Inv, TypeOK
<1>2. master \in Masters /\ slave \in Slaves /\ heard \in Heard
  BY DEF Inv, Typed
<1>3. master.queue \in Nat /\ master.next \in Nat /\ MaxBlocks \in Nat
  BY <1>2, MasterFacts, ConstantFacts
<1> QED
  BY <1>1, <1>2, <1>3 DEF BaseInv, HarqInv, Heard

LEMMA ReadKeeps ==
  ASSUME Inv, air # <<>>, air' = Tail(air), UNCHANGED <<master, answer, ladder>>,
         Takes(slave, slave', heard, heard'), TakesKnown(slave'), TakesAsked(slave'),
         TakesOwn(slave', heard'), TakesHeld(slave')
  PROVE  Inv'
<1> USE HeadOfAir, TypeFacts
<1>1. /\ slave' \in Slaves /\ HarqInv(slave') /\ slave.got \subseteq slave'.got
      /\ slave'.got \subseteq 0 .. (master.next - 1) /\ slave'.answered = slave.answered
      /\ slave'.anchor \in {0, slave.anchor, air[1].tx} /\ slave'.of \in {0, slave.of, air[1].tx}
      /\ air[1].tx <= slave.answered => slave'.anchor = slave.anchor
      /\ slave'.answered <= slave'.anchor \/ slave'.anchor = 0
      /\ heard' \in Heard /\ heard'.tx = heard.tx /\ heard.got \subseteq heard'.got
      /\ heard.joined => heard'.joined
  BY DEF Takes, Grown
<1>2. /\ slave.anchor \in Nat /\ slave.of \in Nat /\ slave.answered \in Nat /\ master.tx \in Nat
      /\ air[1].tx \in Nat /\ slave'.measured \in Reports
      /\ \A g \in DOMAIN slave'.harq : slave'.harq[g] \in Buffers
  BY <1>1, SlaveFacts, MasterFacts, HarqFacts
<1>3. /\ master' = master /\ answer' = answer /\ ladder' = ladder
      /\ \A i \in DOMAIN air' : i \in Nat /\ i + 1 \in DOMAIN air /\ i + 1 > 1 /\ air'[i] = air[i + 1]
  OBVIOUS
<1>4. \A i \in DOMAIN air : air[1].tx <= air[i].tx /\ air[1].tx >= 1 /\ air[1].tx <= master.tx
  <2>1. ASSUME NEW i \in DOMAIN air
        PROVE  air[1].tx <= air[i].tx
    <3>1. CASE i = 1
      BY <1>2, <3>1
    <3>2. CASE i > 1
      BY <3>2 DEF Inv, InOrder
    <3> QED
      BY <3>1, <3>2
  <2>2. 1 \in DOMAIN air
    OBVIOUS
  <2>3. air[1].tx >= 1 /\ air[1].tx <= master.tx
    BY <2>2 DEF Inv, Bounds
  <2> QED
    BY <2>1, <2>3
<1>a. Typed'
  BY <1>1, <1>3 DEF Inv, Typed
<1>b. TypeOK'
  <2>1. slave'.anchor \in 0 .. master.tx /\ slave'.of \in 0 .. master.tx
    <3>1. slave.anchor <= master.tx /\ slave.of <= master.tx
      BY <1>2 DEF Inv, TypeOK
    <3>2. 1 \in DOMAIN air
      OBVIOUS
    <3>3. air[1].tx <= master.tx
      BY <1>4, <3>2
    <3> QED
      BY <1>1, <1>2, <3>1, <3>3
  <2>2. \A g \in DOMAIN slave'.harq : g \in Guesses(slave') /\ slave'.harq[g] \in Buffers
    BY <1>1, <1>2 DEF HarqInv
  <2> QED
    BY <1>1, <1>2, <1>3, <2>1, <2>2 DEF Inv, TypeOK, Reports
<1>c. Bounds'
  BY <1>1, <1>3 DEF Inv, Bounds
<1>d. InOrder'
  <2>1. \A i, j \in DOMAIN air' : i < j => air'[i].tx <= air'[j].tx
    BY <1>3 DEF Inv, InOrder
  <2>2. \A i \in DOMAIN air' : slave'.anchor <= air'[i].tx /\ slave'.of <= air'[i].tx
    BY <1>1, <1>2, <1>3, <1>4 DEF Inv, InOrder
  <2>3. \A i \in DOMAIN air' : air'[i].kind = "header" /\ air'[i].tx = heard'.tx =>
          air'[i].measure /\ air'[i].count > 0
    BY <1>1, <1>3 DEF Inv, InOrder
  <2> QED
    BY <2>1, <2>2, <2>3 DEF InOrder
<1>e. OneKind'
  BY <1>3 DEF Inv, OneKind
<1>f. Known'
  BY <1>1, <1>3 DEF TakesKnown, Known
<1>g. Asked'
  BY <1>3 DEF Inv, TakesAsked, Asked
<1>h. AnswerInv'
  <2>1. answer # <<>> => air[1].tx <= slave.answered
    BY <1>4 DEF Inv, AnswerInv
  <2> QED
    BY <1>1, <1>3, <2>1 DEF Inv, AnswerInv, Says
<1>i. OwnInv'
  BY <1>1, <1>3 DEF Inv, OwnInv, TakesOwn, Fresh
<1>j. HeldInv' /\ ComingInv'
  <2>1. Resolved' <=> Resolved
    BY <1>3 DEF Resolved
  <2>2. Unsettled' <=> Unsettled
    BY <1>3 DEF Unsettled
  <2>3. HeldInv'
    BY <1>3, <2>1, <2>2 DEF TakesHeld, HeldInv
  <2>4. ComingInv'
    BY <1>1, <1>3, <2>1, <2>2 DEF Inv, ComingInv
  <2> QED
    BY <2>3, <2>4
<1>k. AckedIsReceived' /\ LadderIsOwn'
  BY <1>1, <1>3 DEF Inv, AckedIsReceived, LadderIsOwn
<1> QED
  BY <1>a, <1>b, <1>c, <1>d, <1>e, <1>f, <1>g, <1>h, <1>i, <1>j, <1>k DEF Inv

\* What is known of the next frame, and of the slave once it has noticed which
\* transmission it is of.
LEMMA NextFrame ==
  ASSUME Inv, air # <<>>
  PROVE  LET f == air[1]
             b == Begin(slave, f)
         IN  /\ f \in FrameSet /\ f.tx \in Nat /\ f.tx >= 1 /\ f.tx <= master.tx
             /\ slave.anchor <= f.tx /\ slave.of <= f.tx
             /\ f.kind = "data" => f.index \in 0 .. (master.next - 1)
                                   /\ f.index \in 0 .. (MaxBlocks - 1)
             /\ f.kind = "measure" => f.index \in Index /\ f.tx <= heard.tx
             /\ b \in Slaves /\ b.got = slave.got /\ b.harq = slave.harq
             /\ b.measured = slave.measured /\ b.answered = slave.answered
             /\ BaseInv(b) /\ HarqInv(b)
             /\ \/ b.anchor = 0 /\ b.of = 0
                \/ b = slave /\ slave.anchor \in {0, f.tx}
<1> DEFINE f == air[1]
           b == Begin(slave, f)
<1>1. 1 \in DOMAIN air /\ f \in FrameSet /\ f.tx \in Nat /\ f.index \in Nat
  BY HeadOfAir, FrameFacts
<1>2. /\ f.tx >= 1 /\ f.tx <= master.tx
      /\ f.kind = "data" => f.index < master.next
      /\ f.kind = "measure" => f.index \in Index /\ f.tx <= heard.tx
  BY <1>1 DEF Inv, Bounds
<1>3. slave.anchor <= f.tx /\ slave.of <= f.tx
  BY <1>1 DEF Inv, InOrder
<1>4. slave \in Slaves /\ BaseInv(slave) /\ HarqInv(slave) /\ master.next <= MaxBlocks
      /\ master.next \in Nat /\ slave.anchor \in Nat /\ MaxBlocks \in Nat
  BY TypeFacts, MasterFacts, SlaveFacts, ConstantFacts
<1>5. /\ b \in Slaves /\ b.got = slave.got /\ b.harq = slave.harq
      /\ b.measured = slave.measured /\ b.answered = slave.answered
      /\ \/ b.anchor = 0 /\ b.of = 0 /\ slave.anchor # 0 /\ f.tx > slave.anchor
         \/ b = slave /\ (slave.anchor = 0 \/ f.tx <= slave.anchor)
  BY <1>1, <1>4, BeginFacts
<1>6. f.kind = "data" => f.index \in 0 .. (master.next - 1) /\ f.index \in 0 .. (MaxBlocks - 1)
  BY <1>1, <1>2, <1>4
<1> HIDE DEF f, b
<1>7. BaseInv(b) /\ HarqInv(b)
  BY <1>4, <1>5, BaseSame DEF BaseInv, HarqInv, Guesses
<1> QED
  BY <1>1, <1>2, <1>3, <1>4, <1>5, <1>6, <1>7 DEF f, b

\* A frame the slave makes nothing of.
LEMMA PassKeeps ==
  ASSUME Inv, air # <<>>, air' = Tail(air), UNCHANGED <<master, answer, ladder>>,
         slave' = slave, Grown(heard, heard')
  PROVE  Inv'
<1>1. slave \in Slaves /\ HarqInv(slave) /\ slave.got \subseteq 0 .. (master.next - 1)
  BY TypeFacts
<1>2. Takes(slave, slave', heard, heard')
  BY <1>1 DEF Takes, Inv, TypeOK
<1>3. TakesKnown(slave') /\ TakesAsked(slave') /\ TakesHeld(slave')
  BY DEF Inv, Known, Asked, HeldInv, TakesKnown, TakesAsked, TakesHeld
<1>4. TakesOwn(slave', heard')
  BY DEF Inv, OwnInv, TakesOwn, Knows, Fresh, Grown
<1> QED
  BY <1>2, <1>3, <1>4, ReadKeeps

LEMMA NotedFacts ==
  ASSUME Inv, air # <<>>
  PROVE  LET f == air[1]
             k == Noted(f)
             b == Begin(slave, f)
         IN  /\ Grown(heard, k)
             /\ f.tx # heard.tx => k = heard
             /\ f.tx = heard.tx => /\ f.kind = "measure" => f.index \in k.got
                                   /\ b.of # 0 /\ b.of # f.tx => k.joined
<1> DEFINE f == air[1]
           b == Begin(slave, f)
           k == Noted(f)
           got == IF f.kind = "measure" THEN heard.got \cup {f.index} ELSE heard.got
           joined == heard.joined \/ (b.of # 0 /\ b.of # f.tx)
<1>1. /\ heard \in Heard /\ heard.got \subseteq Index /\ heard.joined \in BOOLEAN
      /\ f.kind = "measure" => f.index \in Index
  BY TypeFacts, NextFrame
<1>2. CASE f.tx # heard.tx
  BY <1>1, <1>2 DEF Noted, Grown
<1>3. CASE f.tx = heard.tx
  <2>1. k = [heard EXCEPT !.got = got, !.joined = joined]
    BY <1>1, <1>3 DEF Noted, Heard
  <2>2. got \in SUBSET Index /\ heard.got \subseteq got
        /\ (f.kind = "measure" => f.index \in got)
    BY <1>1
  <2>3. joined \in BOOLEAN
    OBVIOUS
  <2> HIDE DEF k, got, f, b
  <2>4. k \in Heard /\ k.got = got /\ k.tx = heard.tx /\ (k.joined <=> joined)
    BY <1>1, <2>1, <2>2, <2>3 DEF Heard
  <2> QED
    BY <1>3, <2>2, <2>4 DEF Grown, k, f, b
<1> QED
  BY <1>2, <1>3
\* What the slave would report stays of the last measurement.
LEMMA FreshStays ==
  ASSUME Inv, air # <<>>, NEW k, Grown(heard, k), master.out > 0,
         heard.tx < air[1].tx \/ Knows(slave, heard)
  PROVE  Fresh(slave.measured, k)
<1>1. /\ 1 \in DOMAIN air /\ air[1].tx \in Nat /\ air[1].tx <= master.tx
      /\ heard.tx \in Nat /\ master.tx \in Nat
  BY HeadOfAir, NextFrame, TypeFacts, MasterFacts
<1>2. Knows(slave, heard) => Fresh(slave.measured, heard)
  BY DEF Inv, OwnInv
<1>3. heard.tx < air[1].tx => Knows(slave, heard)
  <2>1. heard.tx <= slave.answered \/ (master.slot.on /\ master.slot.tx = heard.tx)
    BY DEF Inv, OwnInv
  <2>2. master.slot.on => master.slot.tx = master.tx
    BY DEF Inv, Bounds
  <2> QED
    BY <1>1, <2>1, <2>2 DEF Knows
<1> QED
  BY <1>2, <1>3 DEF Fresh, Grown

LEMMA ReadHeaderKeeps ==
  ASSUME Inv, ReadHeader
  PROVE  Inv'
<1> DEFINE f == air[1]
           b == Begin(slave, f)
           r == TakeHeader(slave, f)
           k == Noted(f)
<1>1. /\ air # <<>> /\ Head(air) = f /\ f.kind = "header" /\ air' = Tail(air)
      /\ UNCHANGED <<master, answer, ladder>>
      /\ slave' = IF Placed(slave, f, TRUE) THEN r ELSE slave
      /\ heard' = IF Placed(slave, f, TRUE) THEN k ELSE heard
  BY HeadOfAir DEF ReadHeader
<1>2. CASE ~Placed(slave, f, TRUE)
  <2>1. slave' = slave /\ heard' = heard /\ heard \in Heard
    BY <1>1, <1>2, TypeFacts
  <2>2. Grown(heard, heard')
    BY <2>1 DEF Grown
  <2> QED
    BY <1>1, <2>1, <2>2, PassKeeps
<1>3. CASE Placed(slave, f, TRUE)
  <2>1. slave' = r /\ heard' = k
    BY <1>1, <1>3
  <2>2. f.tx > slave.answered
    BY <1>3 DEF Placed
  <2>3. /\ f \in FrameSet /\ f.tx \in Nat /\ f.tx >= 1 /\ f.tx <= master.tx
        /\ b \in Slaves /\ b.harq = slave.harq
        /\ \/ b.anchor = 0 /\ b.of = 0
           \/ b = slave /\ slave.anchor \in {0, f.tx}
        /\ slave.of <= f.tx
    BY <1>1, NextFrame
  <2>4. /\ r \in Slaves /\ r.got = slave.got /\ r.anchor = f.tx /\ r.answered = slave.answered
        /\ ~f.measure \/ b.of # 0 =>
             /\ r.of = b.of /\ r.harq = slave.harq
             /\ r.measured = IF ~f.measure /\ f.count > 0 THEN {} ELSE slave.measured
        /\ f.measure /\ b.of = 0 =>
             /\ r.of = (IF f.count > 0 THEN f.tx ELSE 0) /\ r.harq = NoBuffer
             /\ r.measured = IF f.count > 0 \/ slave.measured = {} THEN {{}} ELSE slave.measured
    BY <2>3, TypeFacts, TakeHeaderFacts
  <2>5. /\ Grown(heard, k)
        /\ f.tx = heard.tx => (b.of # 0 /\ b.of # f.tx => k.joined)
    BY <1>1, NotedFacts
  <2>6. /\ slave \in Slaves /\ HarqInv(slave) /\ slave.got \subseteq 0 .. (master.next - 1)
        /\ slave.anchor \in Nat /\ slave.answered \in Nat /\ slave.of \in Nat
        /\ heard.tx \in Nat /\ master.tx \in Nat /\ 1 \in DOMAIN air
        /\ f.measure \in BOOLEAN /\ f.count \in Nat
    BY <1>1, <2>3, TypeFacts, SlaveFacts, MasterFacts, HeadOfAir, FrameFacts
  <2>7. \/ r.harq = slave.harq /\ r.of = b.of
        \/ r.harq = NoBuffer /\ r.of \in {0, f.tx}
    BY <2>4, <2>6
  <2>8. slave.of # 0 => DOMAIN slave.harq = {}
    BY DEF Inv, Known
  <2> HIDE DEF f, b, r, k
  <2>9. HarqInv(r)
    BY <2>4, <2>6, <2>7, NoBufferType, BaseSame DEF HarqInv, Guesses
  <2>10. Takes(slave, r, heard, k)
    BY <2>2, <2>3, <2>4, <2>5, <2>6, <2>7, <2>9 DEF Takes, f
  <2>11. TakesKnown(r)
    <3>1. r.of # 0 => DOMAIN r.harq = {}
      BY <2>3, <2>7, <2>8, NoBufferType
    <3>2. ASSUME NEW i \in DOMAIN air, air[i].kind = "measure", air[i].tx = f.tx
          PROVE  r.of # 0
      <4>1. air[1].measure /\ air[1].count > 0
        BY <1>1, <2>6, <3>2 DEF Inv, OneKind, f
      <4> QED
        BY <2>3, <2>4, <4>1 DEF f
    <3> QED
      BY <2>4, <3>1, <3>2 DEF TakesKnown
  <2>12. TakesAsked(r)
    <3> SUFFICES ASSUME master.slot.on, master.out > 0, f.tx = master.tx
                 PROVE  DOMAIN r.harq = {}
      BY <2>4 DEF TakesAsked
    <3>1. f.measure
      BY <1>1, <2>6 DEF Inv, Asked, f
    <3> QED
      BY <2>3, <2>4, <2>8, <3>1, NoBufferType
  <2>13. TakesOwn(r, k)
    <3> SUFFICES ASSUME master.out > 0, Knows(r, k)
                 PROVE  Fresh(r.measured, k)
      BY DEF TakesOwn
    <3>1. k.tx = heard.tx
      BY <2>5 DEF Grown
    <3>2. UNION r.measured = {} \/ r.measured = slave.measured
      <4>1. UNION {{}} = {} /\ UNION {} = {}
        BY Zenon
      <4> QED
        BY <2>4, <4>1
    <3>3. heard.tx <= f.tx
      BY <2>2, <2>3, <2>4, <2>6, <2>7, <3>1 DEF Knows
    <3>4. CASE heard.tx < f.tx
      BY <1>1, <2>5, <3>2, <3>4, FreshStays DEF Fresh, f
    <3>5. CASE heard.tx = f.tx
      <4>1. f.measure /\ f.count > 0
        BY <1>1, <2>6, <3>5 DEF Inv, InOrder, f
      <4>2. CASE b.of = 0
        <5>1. r.measured = {{}}
          BY <2>4, <4>1, <4>2
        <5>2. UNION {{}} = {}
          BY Zenon
        <5> QED
          BY <5>1, <5>2 DEF Fresh
      <4>3. CASE b.of # 0 /\ b.of # f.tx
        BY <2>5, <3>5, <4>3 DEF Fresh
      <4>4. CASE b.of # 0 /\ b.of = f.tx
        <5>1. Knows(slave, heard)
          BY <2>3, <2>6, <3>5, <4>4 DEF Knows
        <5> QED
          BY <1>1, <2>5, <3>2, <5>1, FreshStays DEF Fresh
      <4> QED
        BY <4>2, <4>3, <4>4
    <3> QED
      BY <2>3, <2>6, <3>3, <3>4, <3>5
  <2>14. TakesHeld(r)
    BY <2>7, NoBufferType DEF Inv, HeldInv, TakesHeld
  <2> QED
    BY <1>1, <2>1, <2>10, <2>11, <2>12, <2>13, <2>14, ReadKeeps
<1> QED
  BY <1>2, <1>3

LEMMA AnchoredFacts ==
  ASSUME NEW s \in Slaves, NEW f \in FrameSet
  PROVE  LET r == Anchored(s, f, FALSE)
         IN  /\ r \in Slaves /\ r.got = s.got /\ r.harq = s.harq /\ r.measured = s.measured
             /\ r.answered = s.answered /\ r.of = s.of /\ r.anchor \in {s.anchor, f.tx}
<1> DEFINE r == Anchored(s, f, FALSE)
<1>1. f.tx \in Nat
  BY FrameFacts
<1>2. r = s \/ r = [s EXCEPT !.anchor = f.tx]
  BY DEF Anchored
<1>3. CASE r = s
  <2> HIDE DEF r
  <2> QED
    BY <1>3 DEF r
<1>4. CASE r = [s EXCEPT !.anchor = f.tx]
  <2> HIDE DEF r
  <2>1. /\ r \in Slaves /\ r.got = s.got /\ r.harq = s.harq /\ r.measured = s.measured
        /\ r.answered = s.answered /\ r.of = s.of /\ r.anchor = f.tx
    BY <1>1, <1>4 DEF Slaves
  <2> QED
    BY <2>1 DEF r
<1> QED
  BY <1>2, <1>3, <1>4
\* A frame of the transmission on the air decodes, with the copies before it or
\* without; its count may place the end of it.
LEMMA DecodedTakes ==
  ASSUME Inv, air # <<>>, air[1].kind # "header", air[1].tx > slave.answered,
         NEW s, s = Accept(Begin(slave, air[1]), air[1], FALSE),
         NEW r \in Slaves, r.got = s.got, r.harq = s.harq, r.measured = s.measured,
         r.answered = s.answered, r.of = s.of, r.anchor \in {s.anchor, air[1].tx},
         NEW k, k = Noted(air[1])
  PROVE  /\ Takes(slave, r, heard, k)
         /\ TakesKnown(r) /\ TakesAsked(r) /\ TakesOwn(r, k) /\ TakesHeld(r)
<1> DEFINE f == air[1]
           b == Begin(slave, f)
<1>1. /\ f \in FrameSet /\ f.tx \in Nat /\ f.tx >= 1 /\ f.tx <= master.tx
      /\ slave.of <= f.tx
      /\ f.kind = "data" => f.index \in 0 .. (master.next - 1)
                            /\ f.index \in 0 .. (MaxBlocks - 1)
      /\ f.kind = "measure" => f.index \in Index /\ f.tx <= heard.tx
      /\ b \in Slaves /\ b.got = slave.got /\ b.harq = slave.harq
      /\ b.measured = slave.measured /\ b.answered = slave.answered
      /\ BaseInv(b) /\ HarqInv(b)
      /\ \/ b.anchor = 0 /\ b.of = 0
         \/ b = slave /\ slave.anchor \in {0, f.tx}
  BY NextFrame
<1>2. /\ slave \in Slaves /\ HarqInv(slave) /\ slave.got \subseteq 0 .. (master.next - 1)
      /\ slave.anchor \in Nat /\ slave.answered \in Nat /\ slave.of \in Nat
      /\ heard.tx \in Nat /\ master.tx \in Nat /\ 1 \in DOMAIN air
      /\ \A i \in DOMAIN air : air[i].tx \in Nat /\ air[i].tx >= 1
      /\ slave.answered <= slave.anchor \/ slave.anchor = 0
  BY TypeFacts, SlaveFacts, MasterFacts, HeadOfAir DEF Inv, TypeOK, Bounds
<1>3. /\ Grown(heard, k) /\ k.tx = heard.tx
      /\ f.tx = heard.tx => /\ f.kind = "measure" => f.index \in k.got
                            /\ b.of # 0 /\ b.of # f.tx => k.joined
  BY NotedFacts DEF Grown
<1>4. slave.of # 0 => DOMAIN slave.harq = {}
  BY DEF Inv, Known
<1>5. f.kind \in {"measure", "data"} /\ f.tx > slave.answered
      /\ s = Accept(b, f, FALSE) /\ r.anchor \in {s.anchor, f.tx}
  BY <1>1, FrameFacts
<1> HIDE DEF f, b
<1>8. /\ f.tx \in Nat /\ slave.answered \in Nat /\ slave.anchor \in Nat /\ slave.of \in Nat
      /\ heard.tx \in Nat /\ f.tx > slave.answered /\ slave.of <= f.tx
      /\ b.anchor \in {0, slave.anchor}
      /\ slave.answered <= slave.anchor \/ slave.anchor = 0
  BY <1>1, <1>2, <1>5
<1>6. CASE f.kind = "measure"
  <2>1. /\ s.got = slave.got /\ s.anchor = b.anchor /\ s.answered = slave.answered
        /\ b.of # 0 => /\ s.of = b.of /\ s.harq = slave.harq
                       /\ s.measured = {(UNION slave.measured) \cup {f.index}}
        /\ b.of = 0 => /\ s.of = f.tx /\ s.harq = NoBuffer
                       /\ s.measured = {{f.index}}
    <3> DEFINE q == Accept(b, f, FALSE)
    <3>1. f \in FrameSet /\ b \in Slaves /\ f.index \in Index
      BY <1>1, <1>6
    <3>2. /\ q.got = b.got /\ q.anchor = b.anchor /\ q.answered = b.answered
          /\ b.of # 0 => /\ q.of = b.of /\ q.harq = b.harq
                         /\ q.measured = {(UNION b.measured) \cup {f.index}}
          /\ b.of = 0 => /\ q.of = f.tx /\ q.harq = NoBuffer
                         /\ q.measured = {{f.index}}
      BY <1>6, <3>1, AcceptMeasureFacts
    <3>3. s = q
      BY <1>5
    <3> HIDE DEF q
    <3> QED
      BY <1>1, <3>2, <3>3
  <2>2. r.of \in {b.of, f.tx} /\ r.of # 0 /\ DOMAIN r.harq = {}
    <3>1. CASE b.of = 0
      <4>1. r.of = f.tx /\ r.harq = NoBuffer
        BY <2>1, <3>1
      <4>2. f.tx # 0
        BY <1>1
      <4> QED
        BY <4>1, <4>2, NoBufferType
    <3>2. CASE b.of # 0
      <4>1. r.of = b.of /\ r.harq = slave.harq
        BY <2>1, <3>2
      <4>2. b = slave
        BY <1>1, <3>2
      <4> QED
        BY <1>4, <3>2, <4>1, <4>2
    <3> QED
      BY <3>1, <3>2
  <2>3. Takes(slave, r, heard, k)
    <3>1. r.anchor \in {0, slave.anchor, f.tx} /\ r.of \in {0, slave.of, f.tx}
      BY <1>1, <1>5, <2>1, <2>2
    <3>2. r.answered <= r.anchor \/ r.anchor = 0
      <4>1. r.anchor \in {b.anchor, f.tx} /\ r.answered = slave.answered
        BY <1>5, <2>1
      <4>2. r.anchor = 0 \/ r.anchor = slave.anchor \/ r.anchor = f.tx
        BY <1>8, <4>1
      <4>3. CASE r.anchor = 0
        BY <4>3
      <4>4. CASE r.anchor = slave.anchor
        BY <1>8, <4>1, <4>4
      <4>5. CASE r.anchor = f.tx
        <5>1. slave.answered <= f.tx
          BY <1>8
        <5> QED
          BY <4>1, <4>5, <5>1, Zenon
      <4> QED
        BY <4>2, <4>3, <4>4, <4>5
    <3>3. r.got = slave.got /\ r.answered = slave.answered /\ HarqInv(r)
      BY <2>1, <2>2 DEF HarqInv
    <3>4. ~(f.tx <= slave.answered)
      BY <1>1, <1>2, <1>5
    <3> QED
      BY <1>2, <1>3, <3>1, <3>2, <3>3, <3>4 DEF Takes, f
  <2>4. TakesKnown(r) /\ TakesAsked(r) /\ TakesHeld(r)
    BY <2>2 DEF TakesKnown, TakesAsked, TakesHeld
  <2>5. TakesOwn(r, k)
    <3> SUFFICES ASSUME master.out > 0, Knows(r, k)
                 PROVE  Fresh(r.measured, k)
      BY DEF TakesOwn
    <3>1. heard.tx = f.tx
      <4>1. /\ heard.tx <= r.answered \/ heard.tx <= r.anchor \/ heard.tx <= r.of
            /\ f.tx <= heard.tx
        BY <1>1, <1>3, <1>6 DEF Knows
      <4>2. r.answered = slave.answered /\ r.anchor \in {0, f.tx} /\ r.of \in {0, slave.of, f.tx}
        <5>1. r.anchor \in {b.anchor, f.tx}
          BY <1>5, <2>1
        <5>2. r.of \in {b.of, f.tx} /\ r.answered = slave.answered
          BY <2>1, <2>2
        <5>3. b.anchor \in {0, f.tx} /\ b.of \in {0, slave.of}
          BY <1>1
        <5> QED
          BY <5>1, <5>2, <5>3
      <4> QED
        <5> DEFINE t == heard.tx
                   x == f.tx
                   y == slave.answered
                   z == slave.of
        <5>1. /\ t \in Nat /\ x \in Nat /\ y \in Nat /\ z \in Nat
              /\ y < x /\ z <= x /\ x <= t
          BY <1>8, <4>1
        <5>2. t <= y \/ t <= 0 \/ t <= x \/ t <= z
          BY <4>1, <4>2
        <5> HIDE DEF t, x, y, z
        <5>3. t = x
          BY <5>1, <5>2
        <5> QED
          BY <5>3 DEF t, x
    <3>2. CASE b.of = 0
      <4>1. UNION {{f.index}} = {f.index}
        BY Zenon
      <4>2. r.measured = {{f.index}}
        BY <2>1, <3>2
      <4>3. UNION r.measured = {f.index}
        BY <4>1, <4>2, Zenon
      <4> QED
        BY <1>3, <1>6, <3>1, <4>3 DEF Fresh
    <3>3. CASE b.of # 0 /\ b.of # f.tx
      BY <1>3, <3>1, <3>3 DEF Fresh
    <3>4. CASE b.of # 0 /\ b.of = f.tx
      <4>1. Knows(slave, heard)
        BY <1>1, <1>2, <3>1, <3>4 DEF Knows
      <4>2. Fresh(slave.measured, k)
        BY <1>3, <4>1, FreshStays
      <4> DEFINE frames == UNION slave.measured
      <4>3. UNION {frames \cup {f.index}} = frames \cup {f.index}
        BY Zenon
      <4> QED
        BY <1>3, <1>6, <2>1, <3>1, <3>4, <4>2, <4>3 DEF Fresh
    <3> QED
      BY <3>2, <3>3, <3>4
  <2> QED
    BY <2>3, <2>4, <2>5
<1>7. CASE f.kind = "data"
  <2>1. /\ s.got = slave.got \cup {f.index} /\ s.anchor = b.anchor
        /\ s.answered = slave.answered /\ s.of = b.of /\ s.measured = {}
        /\ DOMAIN s.harq \subseteq DOMAIN slave.harq
        /\ \A g \in DOMAIN s.harq : s.harq[g] = slave.harq[g]
        /\ HarqInv(s)
    <3> DEFINE q == Accept(b, f, FALSE)
    <3>1. f \in FrameSet /\ b \in Slaves /\ f.index \in 0 .. (MaxBlocks - 1)
          /\ BaseInv(b) /\ HarqInv(b) /\ FALSE \in BOOLEAN
      BY <1>1, <1>7
    <3>2. /\ q.got = b.got \cup {f.index} /\ q.anchor = b.anchor
          /\ q.answered = b.answered /\ q.of = b.of /\ q.measured = {}
          /\ DOMAIN q.harq \subseteq DOMAIN b.harq
          /\ \A g \in DOMAIN q.harq : q.harq[g] = b.harq[g]
          /\ HarqInv(q)
      BY <1>7, <3>1, AcceptDataFacts, Zenon
    <3>3. s = q
      BY <1>5
    <3> HIDE DEF q
    <3> QED
      BY <1>1, <3>2, <3>3
  <2>2. r.anchor \in {0, f.tx} /\ r.of \in {0, slave.of} /\ r.anchor \in {0, slave.anchor, f.tx}
    BY <1>1, <1>5, <2>1
  <2>3. HarqInv(r)
    BY <2>1, BaseSame DEF HarqInv, Guesses
  <2>4. Takes(slave, r, heard, k)
    <3>1. r.answered <= r.anchor \/ r.anchor = 0
      <4>1. r.anchor \in {b.anchor, f.tx} /\ r.answered = slave.answered
        BY <1>5, <2>1
      <4>2. r.anchor = 0 \/ r.anchor = slave.anchor \/ r.anchor = f.tx
        BY <1>8, <4>1
      <4>3. CASE r.anchor = 0
        BY <4>3
      <4>4. CASE r.anchor = slave.anchor
        BY <1>8, <4>1, <4>4
      <4>5. CASE r.anchor = f.tx
        <5>1. slave.answered <= f.tx
          BY <1>8
        <5> QED
          BY <4>1, <4>5, <5>1, Zenon
      <4> QED
        BY <4>2, <4>3, <4>4, <4>5
    <3>2. r.got = slave.got \cup {f.index} /\ r.answered = slave.answered
      BY <2>1
    <3>3. slave.got \subseteq r.got /\ r.got \subseteq 0 .. (master.next - 1)
      BY <1>1, <1>2, <1>7, <3>2
    <3>4. ~(f.tx <= slave.answered)
      BY <1>1, <1>2, <1>5
    <3> QED
      BY <1>3, <2>2, <2>3, <3>1, <3>2, <3>3, <3>4 DEF Takes, f
  <2>5. TakesKnown(r)
    <3>1. r.of # 0 => DOMAIN r.harq = {}
      BY <1>4, <2>1, <2>2
    <3>2. ASSUME NEW i \in DOMAIN air, air[i].kind = "measure", air[i].tx = r.anchor
          PROVE  FALSE
      <4>1. air[i].tx = air[1].tx
        BY <1>2, <2>2, <3>2 DEF f
      <4> QED
        BY <1>2, <1>7, <3>2, <4>1 DEF Inv, OneKind, f
    <3> QED
      BY <3>1, <3>2 DEF TakesKnown
  <2>6. TakesAsked(r)
    <3> SUFFICES ASSUME master.slot.on, master.out > 0, r.anchor = master.tx
                 PROVE  FALSE
      BY DEF TakesAsked
    <3>1. air[1].tx = master.tx
      BY <1>1, <1>2, <2>2 DEF f
    <3> QED
      BY <1>2, <1>7, <3>1 DEF Inv, Asked, f
  <2>7. TakesOwn(r, k)
    <3>1. UNION {} = {}
      BY Zenon
    <3> QED
      BY <2>1, <3>1 DEF TakesOwn, Fresh
  <2>8. TakesHeld(r)
    BY <2>1, ZenonT(40) DEF Inv, HeldInv, TakesHeld
  <2> QED
    BY <2>4, <2>5, <2>6, <2>7, <2>8
<1> QED
  BY <1>5, <1>6, <1>7

LEMMA ReadDataKeeps ==
  ASSUME Inv, ReadData
  PROVE  Inv'
<1> DEFINE f == air[1]
           b == Begin(slave, f)
           s == Accept(b, f, FALSE)
           r == Anchored(s, f, FALSE)
           late == Accept(slave, f, TRUE)
           k == Noted(f)
<1>1. /\ air # <<>> /\ Head(air) = f /\ f.kind # "header" /\ air' = Tail(air)
      /\ UNCHANGED <<master, answer, ladder>>
      /\ slave' = IF Placed(slave, f, TRUE) THEN r ELSE late
      /\ heard' = k
  BY HeadOfAir DEF ReadData
<1>2. /\ f \in FrameSet /\ b \in Slaves /\ BaseInv(b) /\ HarqInv(b)
      /\ f.kind \in {"measure", "data"}
      /\ f.kind = "data" => f.index \in 0 .. (master.next - 1)
                            /\ f.index \in 0 .. (MaxBlocks - 1)
      /\ f.kind = "measure" => f.index \in Index
  BY <1>1, NextFrame, FrameFacts
<1>3. slave \in Slaves /\ BaseInv(slave) /\ HarqInv(slave)
      /\ slave.got \subseteq 0 .. (master.next - 1)
  BY TypeFacts
<1>4. CASE Placed(slave, f, TRUE)
  <2>1. f.tx > slave.answered
    BY <1>4 DEF Placed
  <2>2. s \in Slaves
    BY <1>2, AcceptMeasureFacts, AcceptDataFacts
  <2>3. /\ r \in Slaves /\ r.got = s.got /\ r.harq = s.harq /\ r.measured = s.measured
        /\ r.answered = s.answered /\ r.of = s.of /\ r.anchor \in {s.anchor, f.tx}
    BY <1>2, <2>2, AnchoredFacts
  <2>4. slave' = r /\ heard' = k
    BY <1>1, <1>4
  <2> HIDE DEF r, s, k
  <2>5. /\ Takes(slave, r, heard, k)
        /\ TakesKnown(r) /\ TakesAsked(r) /\ TakesOwn(r, k) /\ TakesHeld(r)
    BY <1>1, <2>1, <2>3, DecodedTakes DEF s, k
  <2> QED
    BY <1>1, <2>4, <2>5, ReadKeeps
<1>5. CASE ~Placed(slave, f, TRUE)
  <2>1. slave' = late /\ heard' = k /\ Grown(heard, k)
    BY <1>1, <1>5, NotedFacts
  <2>2. CASE f.kind = "measure"
    <3>1. late = slave
      BY <2>2 DEF Accept
    <3> QED
      BY <1>1, <2>1, <3>1, PassKeeps
  <2>3. CASE f.kind = "data"
    <3>1. /\ late \in Slaves /\ late.got = slave.got \cup {f.index}
          /\ late.anchor = slave.anchor
          /\ late.answered = slave.answered /\ late.of = slave.of
          /\ late.measured = slave.measured
          /\ DOMAIN late.harq \subseteq DOMAIN slave.harq
          /\ \A g \in DOMAIN late.harq : late.harq[g] = slave.harq[g]
          /\ HarqInv(late)
      <4>1. f \in FrameSet /\ f.index \in 0 .. (MaxBlocks - 1) /\ TRUE \in BOOLEAN
        BY <1>2, <2>3
      <4> QED
        BY <1>3, <2>3, <4>1, AcceptDataFacts, ZenonT(40)
    <3> HIDE DEF late, k, f
    <3>2. Takes(slave, late, heard, k)
      BY <1>2, <1>3, <2>1, <2>3, <3>1 DEF Takes, Inv, TypeOK
    <3>3. TakesKnown(late)
      BY <3>1 DEF Inv, Known, TakesKnown
    <3>4. TakesAsked(late)
      BY <3>1 DEF Inv, Asked, TakesAsked
    <3>5. TakesOwn(late, k)
      <4>1. k.tx = heard.tx
        BY <2>1 DEF Grown
      <4> QED
        BY <1>1, <2>1, <3>1, <4>1, FreshStays DEF TakesOwn, Knows
    <3>6. TakesHeld(late)
      BY <3>1 DEF Inv, HeldInv, TakesHeld
    <3> QED
      BY <1>1, <2>1, <3>2, <3>3, <3>4, <3>5, <3>6, ReadKeeps
  <2> QED
    BY <1>2, <2>2, <2>3
<1> QED
  BY <1>4, <1>5

\* A frame that does not decode is added to what is held of the block it is
\* guessed to be.
LEMMA CombinedTakes ==
  ASSUME Inv, air # <<>>, air[1].kind # "header", air[1].tx > slave.answered,
         NEW guess \in Guesses(Begin(slave, air[1])), NEW over \in BOOLEAN,
         NEW r, r = Combined(Begin(slave, air[1]), air[1], guess, over)
  PROVE  /\ Takes(slave, r, heard, heard)
         /\ TakesKnown(r) /\ TakesAsked(r) /\ TakesOwn(r, heard) /\ TakesHeld(r)
<1> DEFINE f == air[1]
           b == Begin(slave, f)
<1>1. /\ f \in FrameSet /\ f.tx \in Nat /\ f.tx >= 1 /\ f.tx <= master.tx
      /\ slave.of <= f.tx
      /\ b \in Slaves /\ b.got = slave.got /\ b.harq = slave.harq
      /\ b.measured = slave.measured /\ b.answered = slave.answered
      /\ BaseInv(b) /\ HarqInv(b)
      /\ \/ b.anchor = 0 /\ b.of = 0
         \/ b = slave /\ slave.anchor \in {0, f.tx}
  BY NextFrame
<1>2. /\ slave \in Slaves /\ slave.got \subseteq 0 .. (master.next - 1)
      /\ slave.anchor \in Nat /\ slave.answered \in Nat /\ slave.of \in Nat
      /\ heard.tx \in Nat /\ heard \in Heard /\ master.tx \in Nat /\ 1 \in DOMAIN air
      /\ \A i \in DOMAIN air : air[i].tx \in Nat /\ air[i].tx >= 1
      /\ slave.answered <= slave.anchor \/ slave.anchor = 0
  BY TypeFacts, SlaveFacts, MasterFacts, HeadOfAir DEF Inv, TypeOK, Bounds
<1>3. f.kind \in {"measure", "data"} /\ f.tx > slave.answered
      /\ r = Combined(b, f, guess, over) /\ guess \in Guesses(b)
  BY <1>1, FrameFacts
<1>4. /\ slave.of # 0 => DOMAIN slave.harq = {}
      /\ \A i \in DOMAIN air :
           /\ air[i].kind = "measure" /\ air[i].tx = slave.anchor
           /\ slave.anchor > slave.answered
           => slave.of # 0
  BY DEF Inv, Known
<1> HIDE DEF f, b
<1>5. /\ r \in Slaves /\ r.got = slave.got /\ r.anchor = b.anchor /\ r.answered = slave.answered
      /\ r.of = b.of /\ r.measured = slave.measured
      /\ b.of # 0 => r.harq = slave.harq
      /\ \A g \in DOMAIN r.harq :
           \/ g \in DOMAIN slave.harq /\ r.harq[g] = slave.harq[g]
           \/ g \in DOMAIN slave.harq /\ r.harq[g] = On(slave.harq[g], f.kind)
           \/ r.harq[g] = f.kind
      /\ HarqInv(r)
  BY <1>1, <1>3, CombinedFacts
<1>6. r.anchor \in {0, slave.anchor} /\ r.of \in {0, slave.of}
  BY <1>1, <1>5
<1>7. Takes(slave, r, heard, heard)
  BY <1>1, <1>2, <1>3, <1>5, <1>6 DEF Takes, Grown, f
<1>8. TakesKnown(r)
  <2>1. r.of # 0 => DOMAIN r.harq = {}
    BY <1>1, <1>4, <1>5
  <2>2. ASSUME NEW i \in DOMAIN air, air[i].kind = "measure", air[i].tx = r.anchor,
               r.anchor > r.answered
        PROVE  r.of # 0
    <3>1. b = slave
      BY <1>1, <1>2, <1>5, <2>2
    <3> QED
      BY <1>4, <1>5, <2>2, <3>1
  <2> QED
    BY <2>1, <2>2 DEF TakesKnown
<1>9. TakesAsked(r)
  <2> SUFFICES ASSUME master.slot.on, master.out > 0, r.anchor = master.tx
               PROVE  DOMAIN r.harq = {}
    BY DEF TakesAsked
  <2>1. b = slave /\ slave.anchor = f.tx /\ f.tx = master.tx
    BY <1>1, <1>2, <1>5
  <2>2. f.kind = "measure"
    BY <1>2, <1>3, <2>1 DEF Inv, Asked, f
  <2>3. slave.of # 0
    BY <1>2, <1>3, <1>4, <2>1, <2>2 DEF f
  <2> QED
    BY <1>4, <1>5, <2>1, <2>3
<1>10. TakesOwn(r, heard)
  <2> SUFFICES ASSUME master.out > 0, Knows(r, heard)
               PROVE  Fresh(r.measured, heard)
    BY DEF TakesOwn
  <2>1. Knows(slave, heard)
    BY <1>2, <1>5, <1>6 DEF Knows
  <2> QED
    BY <1>5, <2>1 DEF Inv, OwnInv
<1>11. TakesHeld(r)
  <2> SUFFICES ASSUME Resolved, NEW g \in DOMAIN r.harq, r.harq[g] # "data"
               PROVE  /\ r.harq[g] = "measure" /\ Unsettled
                      /\ \A i \in DOMAIN air : i > 1 => air[i].kind # "data"
    BY DEF TakesHeld
  <2>1. ASSUME g \in DOMAIN slave.harq, slave.harq[g] # "data"
        PROVE  /\ slave.harq[g] = "measure" /\ Unsettled
               /\ \A i \in DOMAIN air : air[i].kind # "data"
    BY <2>1 DEF Inv, HeldInv
  <2>2. f.kind = "measure" => /\ Unsettled
                              /\ \A i \in DOMAIN air : i > 1 => air[i].kind # "data"
    BY <1>2, <1>3 DEF Inv, ComingInv, f
  <2>3. CASE g \in DOMAIN slave.harq /\ r.harq[g] = slave.harq[g]
    BY <2>1, <2>3
  <2>4. CASE g \in DOMAIN slave.harq /\ r.harq[g] = On(slave.harq[g], f.kind)
    <3>1. CASE slave.harq[g] = "data"
      BY <1>3, <2>2, <2>4, <3>1 DEF On
    <3>2. CASE slave.harq[g] # "data"
      <4>1. slave.harq[g] = "measure" /\ Unsettled /\ \A i \in DOMAIN air : air[i].kind # "data"
        BY <2>1, <2>4, <3>2
      <4>2. f.kind # "data"
        BY <1>2, <4>1 DEF f
      <4> QED
        BY <2>4, <4>1, <4>2 DEF On
    <3> QED
      BY <3>1, <3>2
  <2>5. CASE r.harq[g] = f.kind
    BY <1>3, <2>2, <2>5
  <2> QED
    BY <1>5, <2>3, <2>4, <2>5
<1> QED
  BY <1>7, <1>8, <1>9, <1>10, <1>11

LEMMA ReadFailedKeeps ==
  ASSUME Inv, ReadFailed
  PROVE  Inv'
<1> DEFINE f == air[1]
           b == Begin(slave, f)
<1>1. /\ air # <<>> /\ f.kind # "header" /\ air' = Tail(air)
      /\ UNCHANGED <<master, answer, ladder>>
      /\ Placed(slave, f, FALSE)
      /\ \E guess \in Guesses(b), over \in BOOLEAN :
           \/ slave' = Combined(b, f, guess, over) /\ heard' = heard
           \/ slave' = Accept(b, f, FALSE) /\ heard' = Noted(f)
  BY HeadOfAir DEF ReadFailed
<1>2. f.tx > slave.answered
  BY <1>1 DEF Placed
<1>3. PICK guess \in Guesses(b), over \in BOOLEAN :
           \/ slave' = Combined(b, f, guess, over) /\ heard' = heard
           \/ slave' = Accept(b, f, FALSE) /\ heard' = Noted(f)
  BY <1>1
<1>4. CASE slave' = Combined(b, f, guess, over) /\ heard' = heard
  <2>1. /\ Takes(slave, slave', heard, heard')
        /\ TakesKnown(slave') /\ TakesAsked(slave') /\ TakesOwn(slave', heard')
        /\ TakesHeld(slave')
    BY <1>1, <1>2, <1>4, CombinedTakes
  <2> QED
    BY <1>1, <2>1, ReadKeeps
<1>5. CASE slave' = Accept(b, f, FALSE) /\ heard' = Noted(f)
  <2>1. /\ f \in FrameSet /\ b \in Slaves /\ BaseInv(b) /\ HarqInv(b)
        /\ f.kind \in {"measure", "data"}
        /\ f.kind = "data" => f.index \in 0 .. (MaxBlocks - 1)
        /\ f.kind = "measure" => f.index \in Index
    BY <1>1, NextFrame, FrameFacts
  <2>2. slave' \in Slaves
    BY <1>5, <2>1, AcceptMeasureFacts, AcceptDataFacts
  <2>3. /\ Takes(slave, slave', heard, heard')
        /\ TakesKnown(slave') /\ TakesAsked(slave') /\ TakesOwn(slave', heard')
        /\ TakesHeld(slave')
    BY <1>1, <1>2, <1>5, <2>2, DecodedTakes
  <2> QED
    BY <1>1, <2>3, ReadKeeps
<1> QED
  BY <1>3, <1>4, <1>5

LEMMA LoseKeeps ==
  ASSUME Inv, Lose
  PROVE  Inv'
<1>1. Grown(heard, heard')
  BY TypeFacts DEF Lose, Grown
<1> QED
  BY <1>1, PassKeeps DEF Lose
-----------------------------------------------------------------------------
\* The slave answers, and the slot ends.

LEMMA AnswerKeeps ==
  ASSUME Inv, Answer
  PROVE  Inv'
<1> DEFINE ack == AckFields(slave)
<1>1. /\ slave.anchor > slave.answered /\ answer = <<>> /\ slave' = Answered(slave)
      /\ \/ master.slot.on /\ master.slot.tx = slave.anchor /\ answer' = <<ack>>
         \/ answer' = <<>>
      /\ master' = master /\ air' = air /\ ladder' = ladder /\ heard' = heard
  BY DEF Answer
<1>2. /\ slave \in Slaves /\ BaseInv(slave) /\ slave.anchor \in Nat /\ slave.answered \in Nat
      /\ slave.of \in Nat /\ slave.measured \in Reports /\ slave.got \subseteq Nat
      /\ master.tx \in Nat /\ heard.tx \in Nat /\ slave.anchor <= master.tx
      /\ heard.tx <= master.tx
  <2>1. slave.anchor \in 0 .. master.tx /\ heard.tx <= master.tx
    BY DEF Inv, TypeOK, Bounds
  <2>2. slave \in Slaves /\ BaseInv(slave) /\ master \in Masters /\ heard.tx \in Nat
    BY TypeFacts
  <2>3. /\ slave.anchor \in Nat /\ slave.answered \in Nat
        /\ slave.of \in Nat /\ slave.measured \in Reports /\ slave.got \subseteq Nat
        /\ master.tx \in Nat
    BY <2>2, SlaveFacts, MasterFacts
  <2> QED
    BY <2>1, <2>2, <2>3
<1>3. slave' = [slave EXCEPT !.answered = slave.anchor, !.of = 0]
  BY <1>1 DEF Answered
<1>4. /\ slave' \in Slaves /\ slave'.got = slave.got /\ slave'.harq = slave.harq
      /\ slave'.measured = slave.measured /\ slave'.anchor = slave.anchor
      /\ slave'.answered = slave.anchor /\ slave'.of = 0
  BY <1>2, <1>3 DEF Slaves
<1>5. ack \in Acks /\ Says(ack, slave.got) /\ ack.report = slave.measured
  <2>1. Base(slave) \in Nat /\ \A b \in 0 .. (Base(slave) - 1) : b \in slave.got
    BY <1>2, BaseFacts, ConstantFacts
  <2> DEFINE bits == {b \in slave.got : b > Base(slave)}
  <2>2. ack = [base |-> Base(slave), bits |-> bits, report |-> slave.measured]
    BY DEF AckFields
  <2>3. bits \in SUBSET Nat /\ bits \subseteq slave.got
    BY <1>2
  <2> HIDE DEF bits, ack
  <2> QED
    BY <1>2, <2>1, <2>2, <2>3 DEF Acks, Says
<1>6. answer' # <<>> => /\ master.slot.on /\ master.slot.tx = slave.anchor
                        /\ answer' = <<ack>> /\ Head(answer') = ack
  BY <1>1
<1> HIDE DEF ack
<1>7. slave.anchor = master.tx \/ answer' = <<>>
  BY <1>1, <1>6 DEF Inv, Bounds
<1>a. Typed'
  BY <1>1, <1>4, <1>5 DEF Inv, Typed
<1>b. TypeOK'
  <2>1. Guesses(slave') = Guesses(slave)
    BY <1>4, BaseSame DEF Guesses
  <2>2. /\ slave'.answered <= slave'.anchor \/ slave'.anchor = 0
        /\ slave'.anchor \in 0 .. master'.tx /\ slave'.of \in 0 .. master'.tx
    BY <1>1, <1>2, <1>4
  <2>3. \A g \in DOMAIN slave'.harq : g \in Guesses(slave') /\ slave'.harq[g] \in Buffers
    BY <1>4, <2>1 DEF Inv, TypeOK
  <2> QED
    BY <1>1, <1>4, <2>2, <2>3 DEF Inv, TypeOK
<1>c. Bounds' /\ InOrder' /\ OneKind'
  <2>1. \A i \in DOMAIN air : air[i].tx >= 1
    BY DEF Inv, Bounds
  <2>2. \A i \in DOMAIN air : air[i].tx \in Nat
    BY FrameFacts DEF Inv, Typed
  <2>3. \A i \in DOMAIN air : slave'.of <= air[i].tx
    BY <1>4, <2>2
  <2>4. InOrder'
    BY <1>1, <1>4, <2>3 DEF Inv, InOrder
  <2>5. Bounds'
    BY <1>1, <1>2, <1>4 DEF Inv, Bounds
  <2>6. OneKind'
    BY <1>1 DEF Inv, OneKind
  <2> QED
    BY <2>4, <2>5, <2>6
<1>d. Known' /\ Asked'
  BY <1>1, <1>2, <1>4 DEF Inv, Known, Asked
<1>e. AnswerInv'
  BY <1>1, <1>4, <1>5, <1>6, <1>7 DEF AnswerInv
<1>f. OwnInv'
  <2> SUFFICES ASSUME master.out > 0
               PROVE  /\ \/ heard.tx <= slave'.answered
                         \/ master.slot.on /\ ~master.slot.heard /\ master.slot.tx = heard.tx
                      /\ Knows(slave', heard) => Fresh(slave'.measured, heard)
                      /\ answer' # <<>> => Fresh(Head(answer').report, heard)
    BY <1>1 DEF OwnInv
  <2>1. heard.tx <= slave.answered \/ (master.slot.on /\ ~master.slot.heard /\ master.slot.tx = heard.tx)
    BY DEF Inv, OwnInv
  <2>2. Knows(slave, heard) => Fresh(slave.measured, heard)
    BY DEF Inv, OwnInv
  <2>3. Knows(slave', heard) => Knows(slave, heard)
    BY <1>2, <1>4 DEF Knows
  <2>4. heard.tx <= slave.answered => heard.tx <= slave'.answered
    BY <1>1, <1>2, <1>4
  <2>5. answer' # <<>> => Knows(slave, heard)
    BY <1>2, <1>7 DEF Knows
  <2> QED
    BY <1>4, <1>5, <1>6, <2>1, <2>2, <2>3, <2>4, <2>5
<1>g. HeldInv' /\ ComingInv'
  <2>1. (Resolved' <=> Resolved) /\ (Unsettled' <=> Unsettled)
    BY <1>1 DEF Resolved, Unsettled
  <2>2. HeldInv'
    BY <1>1, <1>4, <2>1 DEF Inv, HeldInv
  <2>3. \A i \in DOMAIN air : air[i].tx > slave'.answered => air[i].tx > slave.answered
    <3>1. \A i \in DOMAIN air : air[i].tx \in Nat
      BY FrameFacts DEF Inv, Typed
    <3> QED
      BY <1>1, <1>2, <1>4, <3>1
  <2>4. ComingInv'
    BY <1>1, <2>1, <2>3 DEF Inv, ComingInv
  <2> QED
    BY <2>2, <2>4
<1>h. AckedIsReceived' /\ LadderIsOwn'
  BY <1>1, <1>4 DEF Inv, AckedIsReceived, LadderIsOwn
<1> QED
  BY <1>a, <1>b, <1>c, <1>d, <1>e, <1>f, <1>g, <1>h DEF Inv

\* The answer of an open slot: the slave is past every frame there is.
LEMMA AnswerFacts ==
  ASSUME Inv, answer # <<>>
  PROVE  /\ Head(answer) \in Acks /\ Says(Head(answer), slave.got)
         /\ master.slot.on /\ slave.anchor = master.tx /\ heard.tx <= slave.answered
         /\ \A i \in DOMAIN air : ~(air[i].tx > slave.answered)
<1>1. answer \in {<<a>> : a \in Acks}
  BY DEF Inv, Typed
<1>2. /\ master.slot.on /\ slave.answered = master.tx /\ slave.anchor = master.tx
      /\ Says(Head(answer), slave.got)
  BY DEF Inv, AnswerInv
<1>3. heard.tx <= master.tx /\ \A i \in DOMAIN air : air[i].tx <= master.tx
  BY DEF Inv, Bounds
<1>4. master.tx \in Nat /\ \A i \in DOMAIN air : air[i].tx \in Nat
  BY TypeFacts, MasterFacts, FrameFacts DEF Inv, Typed
<1>5. Head(answer) \in Acks
  BY <1>1
<1> QED
  BY <1>2, <1>3, <1>4, <1>5

\* Whether the slot was heard changes nothing else.
LEMMA SlotHeard ==
  ASSUME NEW m \in Masters, NEW data \in BOOLEAN
  PROVE  LET n == [m EXCEPT !.slot.heard = data]
         IN  /\ n \in Masters /\ n.ask = m.ask /\ n.out = m.out /\ n.again = m.again
             /\ n.slot.on = m.slot.on /\ n.slot.tx = m.slot.tx /\ n.silent = m.silent
             /\ n.up = m.up /\ n.asks = m.asks /\ n.queue = m.queue /\ n.next = m.next
             /\ n.unacked = m.unacked /\ n.tx = m.tx
<1>1. m.slot \in [on : BOOLEAN, tx : Nat, heard : BOOLEAN]
  BY DEF Masters
<1> DEFINE slot == [m.slot EXCEPT !.heard = data]
           n == [m EXCEPT !.slot.heard = data]
<1>2. /\ slot \in [on : BOOLEAN, tx : Nat, heard : BOOLEAN]
      /\ slot.on = m.slot.on /\ slot.tx = m.slot.tx
  BY <1>1
<1>3. n = [m EXCEPT !.slot = slot]
  BY DEF Masters
<1> HIDE DEF slot, n
<1>4. /\ n \in Masters /\ n.slot = slot /\ n.ask = m.ask /\ n.out = m.out /\ n.again = m.again
      /\ n.silent = m.silent /\ n.up = m.up /\ n.asks = m.asks /\ n.queue = m.queue
      /\ n.next = m.next /\ n.unacked = m.unacked /\ n.tx = m.tx
  BY <1>2, <1>3 DEF Masters
<1> QED
  BY <1>2, <1>4 DEF n

LEMMA LoseAnswerKeeps ==
  ASSUME Inv, LoseAnswer
  PROVE  Inv'
<1>1. PICK data \in BOOLEAN : master' = [master EXCEPT !.slot.heard = data]
  BY DEF LoseAnswer
<1>2. /\ master' \in Masters /\ master'.ask = master.ask /\ master'.out = master.out
      /\ master'.slot.on = master.slot.on /\ master'.slot.tx = master.slot.tx
      /\ master'.silent = master.silent /\ master'.up = master.up /\ master'.asks = master.asks
      /\ master'.queue = master.queue /\ master'.next = master.next
      /\ master'.unacked = master.unacked /\ master'.tx = master.tx
  BY <1>1, TypeFacts, SlotHeard
<1>3. /\ answer # <<>> /\ answer' = <<>> /\ slave' = slave /\ air' = air /\ ladder' = ladder
      /\ heard' = heard
  BY DEF LoseAnswer
<1>4. heard.tx <= slave.answered
  BY <1>3, AnswerFacts
<1>a. Typed'
  BY <1>2, <1>3 DEF Inv, Typed
<1>b. TypeOK'
  BY <1>2, <1>3 DEF Inv, TypeOK, Guesses, Base
<1>c. Bounds' /\ InOrder' /\ OneKind' /\ Known' /\ Asked'
  BY <1>2, <1>3 DEF Inv, Bounds, InOrder, OneKind, Known, Asked, Measuring
<1>d. AnswerInv' /\ OwnInv'
  BY <1>2, <1>3, <1>4 DEF Inv, AnswerInv, OwnInv, Knows, Fresh
<1>e. HeldInv' /\ ComingInv'
  <2>1. (Resolved' <=> Resolved) /\ (Unsettled' <=> Unsettled)
    BY <1>2, <1>3 DEF Resolved, Unsettled, Measuring
  <2> QED
    BY <1>3, <2>1 DEF Inv, HeldInv, ComingInv
<1>f. AckedIsReceived' /\ LadderIsOwn'
  BY <1>2, <1>3 DEF Inv, AckedIsReceived, LadderIsOwn
<1> QED
  BY <1>a, <1>b, <1>c, <1>d, <1>e, <1>f DEF Inv

\* A rung is recorded.
LEMMA LadderFacts ==
  ASSUME Inv, NEW r \in Rungs
  PROVE  /\ ladder \o <<r>> \in Seq(Rungs) /\ Len(ladder \o <<r>>) = Len(ladder) + 1
         /\ \A i \in DOMAIN ladder : i \in DOMAIN (ladder \o <<r>>) /\ (ladder \o <<r>>)[i] = ladder[i]
         /\ Len(ladder) + 1 \in DOMAIN (ladder \o <<r>>)
         /\ (ladder \o <<r>>)[Len(ladder) + 1] = r
         /\ \A i \in 1 .. Len(ladder \o <<r>>) : i \in DOMAIN ladder \/ i = Len(ladder) + 1
         /\ DOMAIN ladder = 1 .. Len(ladder) /\ Len(ladder) \in Nat
         /\ ladder \o <<>> = ladder
<1>1. ladder \in Seq(Rungs)
  BY DEF Inv, Typed
<1> QED
  BY <1>1

LEMMA ReadAnswerKeeps ==
  ASSUME Inv, ReadAnswer
  PROVE  Inv'
<1> DEFINE ack == Head(answer)
           t == TakeAck(master, ack)
           m == t.master
<1>1. /\ answer # <<>> /\ answer' = <<>> /\ master' = [m EXCEPT !.slot.heard = TRUE]
      /\ ladder' = ladder \o t.rungs /\ slave' = slave /\ air' = air /\ heard' = heard
  BY DEF ReadAnswer
<1>2. /\ ack \in Acks /\ Says(ack, slave.got) /\ master.slot.on /\ slave.anchor = master.tx
      /\ heard.tx <= slave.answered /\ \A i \in DOMAIN air : ~(air[i].tx > slave.answered)
  BY <1>1, AnswerFacts
<1>3. /\ m \in Masters /\ m.slot = master.slot /\ m.silent = master.silent /\ m.up = master.up
      /\ m.asks = master.asks /\ m.queue = master.queue /\ m.next = master.next
      /\ m.tx = master.tx /\ m.ask = master.ask
      /\ m.unacked = {b \in master.unacked : ~Received(ack, b)}
      /\ \/ /\ t.rungs = <<>> /\ m.out = master.out
         \/ /\ master.out > 0 /\ m.out = 0
            /\ \E r \in Rungs :
                 /\ t.rungs = <<r>> /\ r.counted \subseteq UNION ack.report
                 /\ r.heard = heard.got /\ r.joined = heard.joined
  <2>1. master \in Masters /\ Typed
    BY TypeFacts DEF Inv
  <2> QED
    BY <1>2, <2>1, TakeAckFacts DEF SameButReport
<1> HIDE DEF ack, t, m
<1>4. /\ master' \in Masters /\ master'.ask = master.ask /\ master'.out = m.out
      /\ master'.slot.on = master.slot.on /\ master'.slot.tx = master.slot.tx
      /\ master'.silent = master.silent /\ master'.up = master.up /\ master'.asks = master.asks
      /\ master'.queue = master.queue /\ master'.next = master.next
      /\ master'.unacked = {b \in master.unacked : ~Received(ack, b)} /\ master'.tx = master.tx
  <2> DEFINE n == [m EXCEPT !.slot.heard = TRUE]
  <2>1. TRUE \in BOOLEAN
    OBVIOUS
  <2>2. /\ n \in Masters /\ n.ask = m.ask /\ n.out = m.out
        /\ n.slot.on = m.slot.on /\ n.slot.tx = m.slot.tx /\ n.silent = m.silent
        /\ n.up = m.up /\ n.asks = m.asks /\ n.queue = m.queue /\ n.next = m.next
        /\ n.unacked = m.unacked /\ n.tx = m.tx
    BY <1>3, <2>1, SlotHeard, Zenon
  <2>3. master' = n
    BY <1>1
  <2> HIDE DEF n
  <2> QED
    BY <1>3, <2>2, <2>3
<1>5. /\ master.ask \in Nat /\ master.out \in Nat /\ ~(master.ask > 0 /\ master.out > 0)
      /\ master.asks \in Nat /\ Len(ladder) \in Nat /\ ladder \in Seq(Rungs)
      /\ Measuring(master) => Len(ladder) + 1 <= master.asks
      /\ Len(ladder) <= master.asks
  BY TypeFacts, MasterFacts DEF Inv, Typed, TypeOK, Bounds
<1>6. master'.out = 0 \/ master'.out = master.out
  BY <1>3, <1>4
<1>7. /\ ladder' \in Seq(Rungs) /\ Len(ladder') <= master'.asks
      /\ Measuring(master') => Len(ladder') + 1 <= master'.asks
      /\ Resolved' => Resolved
      /\ master'.out = master.out \/ master.out > 0
      /\ LadderIsOwn'
  <2>1. CASE t.rungs = <<>> /\ m.out = master.out
    <3>1. ladder' = ladder
      BY <1>1, <1>5, <2>1
    <3> QED
      BY <1>4, <1>5, <2>1, <3>1 DEF Measuring, Resolved, LadderIsOwn, Inv
  <2>2. ASSUME master.out > 0, m.out = 0, NEW r \in Rungs, t.rungs = <<r>>,
               r.counted \subseteq UNION ack.report, r.heard = heard.got,
               r.joined = heard.joined
        PROVE  /\ ladder' \in Seq(Rungs) /\ Len(ladder') <= master'.asks
               /\ Measuring(master') => Len(ladder') + 1 <= master'.asks
               /\ Resolved' => Resolved
               /\ LadderIsOwn'
    <3>1. ladder' = ladder \o <<r>>
      BY <1>1, <2>2
    <3>2. /\ ladder' \in Seq(Rungs) /\ Len(ladder') = Len(ladder) + 1
          /\ \A i \in DOMAIN ladder : i \in DOMAIN ladder' /\ ladder'[i] = ladder[i]
          /\ ladder'[Len(ladder) + 1] = r
          /\ \A i \in 1 .. Len(ladder') : i \in DOMAIN ladder \/ i = Len(ladder) + 1
          /\ DOMAIN ladder = 1 .. Len(ladder)
      BY <3>1, LadderFacts
    <3>3. Measuring(master) /\ ~Measuring(master')
      BY <1>4, <1>5, <2>2 DEF Measuring
    <3>4. Resolved' => Resolved
      BY <3>2 DEF Resolved
    <3>5. r.joined \/ r.counted \subseteq r.heard
      <4>1. Fresh(ack.report, heard)
        BY <1>1, <2>2 DEF Inv, OwnInv, ack
      <4> QED
        BY <2>2, <4>1 DEF Fresh
    <3>6. \A i \in DOMAIN ladder : ladder[i].joined \/ ladder[i].counted \subseteq ladder[i].heard
      BY <3>2 DEF Inv, LadderIsOwn
    <3>7. LadderIsOwn'
      BY <3>2, <3>5, <3>6 DEF LadderIsOwn
    <3> QED
      BY <1>4, <1>5, <2>2, <3>2, <3>3, <3>4, <3>7
  <2> QED
    BY <1>3, <2>1, <2>2
<1>8. \A b \in master.unacked : b \notin master'.unacked => b \in slave.got
  <2>1. master.unacked \subseteq Nat /\ ack.base \in Nat
    BY <1>2, TypeFacts, MasterFacts DEF Acks
  <2> SUFFICES ASSUME NEW b \in master.unacked, Received(ack, b)
               PROVE  b \in slave.got
    BY <1>4
  <2>2. b < ack.base \/ b \in ack.bits
    BY DEF Received
  <2> QED
    BY <1>2, <2>1, <2>2 DEF Says
<1>a. Typed'
  BY <1>1, <1>4, <1>7 DEF Inv, Typed
<1>b. TypeOK'
  <2>1. Guesses(slave') = Guesses(slave)
    BY <1>1
  <2>2. master'.out \in 0 .. MaxFrames
    BY <1>4, MasterFacts
  <2>3. ~(master'.ask > 0 /\ master'.out > 0)
    BY <1>4, <1>5, <1>6
  <2>4. master'.unacked \subseteq master.unacked
    BY <1>4
  <2> QED
    BY <1>1, <1>4, <1>7, <2>1, <2>2, <2>3, <2>4 DEF Inv, TypeOK
<1>c. Bounds' /\ InOrder' /\ OneKind' /\ Known'
  BY <1>1, <1>4, <1>7 DEF Inv, Bounds, InOrder, OneKind, Known
<1>d. Asked'
  BY <1>1, <1>4, <1>6 DEF Inv, Asked
<1>e. AnswerInv' /\ OwnInv'
  <2>1. master'.out > 0 => master.out > 0
    BY <1>6
  <2> QED
    BY <1>1, <1>2, <2>1 DEF Inv, AnswerInv, OwnInv, Knows, Fresh
<1>f. HeldInv'
  <2> SUFFICES ASSUME Resolved', NEW g \in DOMAIN slave.harq, slave.harq[g] # "data"
               PROVE  /\ slave.harq[g] = "measure" /\ Unsettled'
                      /\ \A i \in DOMAIN air : air[i].kind # "data"
    BY <1>1 DEF HeldInv
  <2>1. /\ slave.harq[g] = "measure" /\ Unsettled
        /\ \A i \in DOMAIN air : air[i].kind # "data"
    BY <1>7 DEF Inv, HeldInv
  <2>2. ~(master.out > 0)
    BY <1>2 DEF Inv, Asked
  <2>3. master'.out = master.out
    BY <1>7, <2>2
  <2>4. master'.unacked = {}
    BY <1>4, <2>1 DEF Unsettled
  <2>5. Unsettled'
    BY <1>4, <2>1, <2>3, <2>4 DEF Unsettled, Measuring
  <2> QED
    BY <2>1, <2>5
<1>g. ComingInv'
  BY <1>1, <1>2 DEF ComingInv
<1>h. AckedIsReceived'
  BY <1>1, <1>4, <1>8 DEF Inv, AckedIsReceived
<1> QED
  BY <1>7, <1>a, <1>b, <1>c, <1>d, <1>e, <1>f, <1>g, <1>h DEF Inv
LEMMA CloseKeeps ==
  ASSUME Inv, Close
  PROVE  Inv'
<1> DEFINE silent == IF master.slot.heard THEN 0 ELSE master.silent + 1
           m == [master EXCEPT !.slot = NoSlot, !.silent = silent, !.up = silent <= MaxRetries]
           u == Unheard(m)
<1>1. /\ master.up /\ master.slot.on /\ answer = <<>>
      /\ slave' = slave /\ air' = air /\ answer' = answer /\ heard' = heard
      /\ master.slot.heard => master' = m /\ ladder' = ladder
      /\ ~master.slot.heard => master' = u.master /\ ladder' = ladder \o u.rungs
  BY DEF Close
<1>2. /\ master \in Masters /\ master.silent \in Nat /\ master.silent <= MaxRetries
      /\ ~(master.ask > 0 /\ master.out > 0) /\ Typed /\ master.slot.heard \in BOOLEAN
  <2>1. master.silent <= MaxRetries
    BY <1>1 DEF Inv, Bounds
  <2> QED
    BY <2>1, TypeFacts, MasterFacts DEF Inv
<1>3. silent \in 0 .. (MaxRetries + 1) /\ (silent <= MaxRetries) \in BOOLEAN
  BY <1>2, ConstantFacts
<1>4. NoSlot \in [on : BOOLEAN, tx : Nat, heard : BOOLEAN] /\ ~NoSlot.on
  BY DEF NoSlot
<1>5. /\ m \in Masters /\ m.slot = NoSlot /\ m.silent = silent /\ (m.up => silent <= MaxRetries)
      /\ m.ask = master.ask /\ m.out = master.out /\ m.asks = master.asks
      /\ m.queue = master.queue /\ m.next = master.next /\ m.unacked = master.unacked
      /\ m.tx = master.tx
  <2> DEFINE up == silent <= MaxRetries
  <2>3. up \in BOOLEAN
    BY <1>3
  <2>1. m = [master EXCEPT !.slot = NoSlot, !.silent = silent, !.up = up]
    BY Zenon
  <2> HIDE DEF m, silent, up
  <2>2. /\ m \in Masters /\ m.slot = NoSlot /\ m.silent = silent /\ m.up = up
        /\ m.ask = master.ask /\ m.out = master.out /\ m.asks = master.asks
        /\ m.queue = master.queue /\ m.next = master.next /\ m.unacked = master.unacked
        /\ m.tx = master.tx
    BY <1>2, <1>3, <1>4, <2>1, <2>3 DEF Masters
  <2> QED
    BY <2>2 DEF up
<1> HIDE DEF silent, m
<1>6. /\ u.master \in Masters /\ u.master.slot = m.slot /\ u.master.silent = m.silent
      /\ u.master.up = m.up /\ u.master.asks = m.asks /\ u.master.queue = m.queue
      /\ u.master.next = m.next /\ u.master.tx = m.tx
      /\ u.master.unacked = m.unacked /\ u.master.out = 0
      /\ \/ /\ u.rungs = <<>>
            /\ u.master.ask = IF m.out > 0 THEN m.out ELSE m.ask
         \/ /\ m.out > 0 /\ u.master.ask = m.ask
            /\ \E r \in Rungs : u.rungs = <<r>> /\ r.counted = {} /\ ~r.snr
  <2>1. ~(m.ask > 0 /\ m.out > 0)
    BY <1>2, <1>5
  <2> QED
    BY <1>2, <1>5, <2>1, UnheardFacts DEF SameButReport
<1> HIDE DEF u
<1>7. /\ master.ask \in Nat /\ master.out \in Nat
      /\ master.asks \in Nat /\ Len(ladder) \in Nat /\ ladder \in Seq(Rungs)
      /\ Measuring(master) => Len(ladder) + 1 <= master.asks
      /\ Len(ladder) <= master.asks
  BY TypeFacts, MasterFacts DEF Inv, Typed, TypeOK, Bounds
<1>8. /\ master' \in Masters /\ master'.slot = NoSlot /\ master'.silent = silent
      /\ (master'.up => silent <= MaxRetries) /\ master'.asks = master.asks
      /\ master'.queue = master.queue /\ master'.next = master.next
      /\ master'.unacked = master.unacked /\ master'.tx = master.tx
      /\ ~(master'.ask > 0 /\ master'.out > 0)
  <2>1. CASE master.slot.heard
    BY <1>1, <1>2, <1>5, <2>1
  <2>2. CASE ~master.slot.heard
    BY <1>1, <1>5, <1>6, <2>2
  <2> QED
    BY <1>2, <2>1, <2>2
<1>9. /\ ladder' \in Seq(Rungs) /\ Len(ladder') <= master'.asks
      /\ Measuring(master') => Len(ladder') + 1 <= master'.asks
      /\ Resolved' => Resolved /\ (Measuring(master) => Measuring(master'))
      /\ LadderIsOwn'
  <2>1. CASE master.slot.heard
    BY <1>1, <1>5, <1>7, <2>1 DEF Measuring, Resolved, LadderIsOwn, Inv
  <2>2. ASSUME ~master.slot.heard, u.rungs = <<>>,
               u.master.ask = IF m.out > 0 THEN m.out ELSE m.ask
        PROVE  /\ ladder' \in Seq(Rungs) /\ Len(ladder') <= master'.asks
               /\ Measuring(master') => Len(ladder') + 1 <= master'.asks
               /\ Resolved' => Resolved /\ (Measuring(master) => Measuring(master'))
               /\ LadderIsOwn'
    <3>1. ladder' = ladder
      BY <1>1, <1>7, <2>2
    <3>2. Measuring(master') => Measuring(master)
      BY <1>1, <1>5, <1>6, <1>7, <2>2 DEF Measuring
    <3>3. Measuring(master) => Measuring(master')
      BY <1>1, <1>5, <1>6, <1>7, <2>2 DEF Measuring
    <3> QED
      BY <1>7, <1>8, <3>1, <3>2, <3>3 DEF Resolved, LadderIsOwn, Inv
  <2>3. ASSUME ~master.slot.heard, m.out > 0, u.master.ask = m.ask,
               NEW r \in Rungs, u.rungs = <<r>>, r.counted = {}, ~r.snr
        PROVE  /\ ladder' \in Seq(Rungs) /\ Len(ladder') <= master'.asks
               /\ Measuring(master') => Len(ladder') + 1 <= master'.asks
               /\ Resolved' => Resolved /\ (Measuring(master) => Measuring(master'))
               /\ LadderIsOwn'
    <3>1. ladder' = ladder \o <<r>>
      BY <1>1, <2>3
    <3>2. /\ ladder' \in Seq(Rungs) /\ Len(ladder') = Len(ladder) + 1
          /\ \A i \in DOMAIN ladder : i \in DOMAIN ladder' /\ ladder'[i] = ladder[i]
          /\ Len(ladder) + 1 \in DOMAIN ladder'
          /\ ladder'[Len(ladder) + 1] = r
          /\ \A i \in 1 .. Len(ladder') : i \in DOMAIN ladder \/ i = Len(ladder) + 1
          /\ DOMAIN ladder = 1 .. Len(ladder)
      BY <3>1, LadderFacts
    <3>3. Measuring(master) /\ ~Measuring(master')
      BY <1>1, <1>2, <1>5, <1>6, <1>7, <2>3 DEF Measuring
    <3>4. ~Resolved'
      BY <2>3, <3>2 DEF Resolved
    <3>5. \A i \in DOMAIN ladder : ladder[i].joined \/ ladder[i].counted \subseteq ladder[i].heard
      BY <3>2 DEF Inv, LadderIsOwn
    <3>6. r.joined \/ r.counted \subseteq r.heard
      BY <2>3
    <3>7. LadderIsOwn'
      BY <3>2, <3>5, <3>6 DEF LadderIsOwn
    <3> QED
      BY <1>7, <1>8, <3>2, <3>3, <3>4, <3>7
  <2> QED
    BY <1>6, <2>1, <2>2, <2>3
<1>a. Typed'
  BY <1>1, <1>8, <1>9 DEF Inv, Typed
<1>b. TypeOK'
  <2>1. Guesses(slave') = Guesses(slave)
    BY <1>1
  <2>2. master'.out \in 0 .. MaxFrames /\ master'.ask \in 0 .. MaxFrames
        /\ master'.silent \in 0 .. (MaxRetries + 1)
    BY <1>8, MasterFacts
  <2> QED
    BY <1>1, <1>8, <1>9, <2>1, <2>2 DEF Inv, TypeOK
<1>c. Bounds' /\ InOrder' /\ OneKind' /\ Known' /\ Asked'
  <2>1. Bounds'
    BY <1>1, <1>4, <1>8, <1>9 DEF Inv, Bounds
  <2>2. InOrder' /\ OneKind' /\ Known'
    BY <1>1 DEF Inv, InOrder, OneKind, Known
  <2>3. Asked'
    BY <1>4, <1>8 DEF Asked
  <2> QED
    BY <2>1, <2>2, <2>3
<1>d. AnswerInv' /\ OwnInv'
  <2>1. AnswerInv'
    BY <1>1 DEF AnswerInv
  <2>2. OwnInv'
    <3>1. CASE master.slot.heard
      <4>1. master'.out = master.out
        BY <1>1, <1>5, <3>1
      <4> QED
        BY <1>1, <3>1, <4>1 DEF Inv, OwnInv, Knows, Fresh
    <3>2. CASE ~master.slot.heard
      <4>1. master'.out = 0
        BY <1>1, <1>6, <3>2
      <4> QED
        BY <4>1 DEF OwnInv
    <3> QED
      BY <3>1, <3>2
  <2> QED
    BY <2>1, <2>2
<1>e. HeldInv' /\ ComingInv'
  <2>1. Resolved' => Resolved /\ (Unsettled => Unsettled')
    BY <1>8, <1>9 DEF Unsettled
  <2> QED
    BY <1>1, <2>1 DEF Inv, HeldInv, ComingInv
<1>f. AckedIsReceived'
  BY <1>1, <1>8 DEF Inv, AckedIsReceived
<1> QED
  BY <1>9, <1>a, <1>b, <1>c, <1>d, <1>e, <1>f DEF Inv

-----------------------------------------------------------------------------
\* The Test asks, and the host hands over data.

LEMMA MeasureKeeps ==
  ASSUME Inv, Measure
  PROVE  Inv'
<1>1. PICK n \in 1 .. MaxFrames :
        master' = [master EXCEPT !.ask = n, !.again = FALSE, !.asks = @ + 1]
  BY DEF Measure
<1>2. /\ ~Measuring(master) /\ slave' = slave /\ air' = air /\ answer' = answer
      /\ ladder' = ladder /\ heard' = heard
  BY DEF Measure
<1>3. /\ master \in Masters /\ master.ask \in Nat /\ master.out \in Nat /\ master.asks \in Nat
      /\ n \in Nat /\ n > 0 /\ n \in 0 .. MaxFrames
      /\ Len(ladder) \in Nat /\ Len(ladder) <= master.asks
  BY TypeFacts, MasterFacts, ConstantFacts DEF Inv, Typed, TypeOK
<1>4. master.out = 0
  BY <1>2, <1>3 DEF Measuring
<1>5. /\ master' \in Masters /\ master'.ask = n /\ master'.out = 0
      /\ master'.slot = master.slot /\ master'.asks = master.asks + 1
      /\ master'.silent = master.silent /\ master'.up = master.up
      /\ master'.queue = master.queue /\ master'.next = master.next
      /\ master'.unacked = master.unacked /\ master'.tx = master.tx
  <2> DEFINE asks == master.asks + 1
  <2>1. asks \in Nat
    BY <1>3
  <2>2. master' = [master EXCEPT !.ask = n, !.again = FALSE, !.asks = asks]
    BY <1>1, <1>3 DEF Masters
  <2> HIDE DEF asks
  <2>3. /\ master' \in Masters /\ master'.ask = n /\ master'.out = master.out
        /\ master'.slot = master.slot /\ master'.asks = asks
        /\ master'.silent = master.silent /\ master'.up = master.up
        /\ master'.queue = master.queue /\ master'.next = master.next
        /\ master'.unacked = master.unacked /\ master'.tx = master.tx
    BY <1>3, <2>1, <2>2 DEF Masters
  <2> QED
    BY <1>4, <2>3 DEF asks
<1>a. Typed'
  BY <1>2, <1>5 DEF Inv, Typed
<1>b. TypeOK'
  <2>1. Guesses(slave') = Guesses(slave) /\ Len(ladder') <= master'.asks
    BY <1>2, <1>3, <1>5
  <2>2. /\ master'.ask \in 0 .. MaxFrames /\ master'.out \in 0 .. MaxFrames
        /\ ~(master'.ask > 0 /\ master'.out > 0)
        /\ master'.silent \in 0 .. (MaxRetries + 1)
    BY <1>5, MasterFacts
  <2> QED
    BY <1>2, <1>5, <2>1, <2>2 DEF Inv, TypeOK
<1>c. Bounds' /\ InOrder' /\ OneKind' /\ Known' /\ Asked'
  <2>1. Len(ladder') + 1 <= master'.asks
    BY <1>2, <1>3, <1>5
  <2> QED
    BY <1>2, <1>5, <2>1 DEF Inv, Bounds, InOrder, OneKind, Known, Asked
<1>d. AnswerInv' /\ OwnInv'
  BY <1>2, <1>5 DEF Inv, AnswerInv, OwnInv
<1>e. HeldInv' /\ ComingInv'
  <2>1. ~Unsettled /\ (Resolved' => Resolved)
    BY <1>2 DEF Unsettled, Resolved
  <2> QED
    BY <1>2, <2>1 DEF Inv, HeldInv, ComingInv
<1>f. AckedIsReceived' /\ LadderIsOwn'
  BY <1>2, <1>5 DEF Inv, AckedIsReceived, LadderIsOwn
<1> QED
  BY <1>a, <1>b, <1>c, <1>d, <1>e, <1>f DEF Inv

LEMMA SendKeeps ==
  ASSUME Inv, Send
  PROVE  Inv'
<1>1. /\ master' = [master EXCEPT !.queue = @ + 1] /\ master.queue + master.next < MaxBlocks
      /\ slave' = slave /\ air' = air /\ answer' = answer /\ ladder' = ladder /\ heard' = heard
  BY DEF Send
<1>2. /\ master \in Masters /\ master.queue \in Nat /\ master.next \in Nat
  BY TypeFacts, MasterFacts
<1>3. /\ master' \in Masters /\ master'.ask = master.ask /\ master'.out = master.out
      /\ master'.slot = master.slot /\ master'.asks = master.asks
      /\ master'.silent = master.silent /\ master'.up = master.up
      /\ master'.queue = master.queue + 1 /\ master'.next = master.next
      /\ master'.unacked = master.unacked /\ master'.tx = master.tx
  <2> DEFINE queue == master.queue + 1
  <2>1. queue \in Nat
    BY <1>2
  <2>2. master' = [master EXCEPT !.queue = queue]
    BY <1>1, <1>2 DEF Masters
  <2> HIDE DEF queue
  <2>3. /\ master' \in Masters /\ master'.ask = master.ask /\ master'.out = master.out
        /\ master'.slot = master.slot /\ master'.asks = master.asks
        /\ master'.silent = master.silent /\ master'.up = master.up
        /\ master'.queue = queue /\ master'.next = master.next
        /\ master'.unacked = master.unacked /\ master'.tx = master.tx
    BY <1>2, <2>1, <2>2 DEF Masters
  <2> QED
    BY <2>3 DEF queue
<1>a. Typed'
  BY <1>1, <1>3 DEF Inv, Typed
<1>b. TypeOK'
  <2>1. master'.queue + master'.next <= MaxBlocks
    BY <1>1, <1>2, <1>3, ConstantFacts
  <2> QED
    BY <1>1, <1>3, <2>1 DEF Inv, TypeOK, Guesses, Base
<1>c. Bounds' /\ InOrder' /\ OneKind' /\ Known' /\ Asked'
  BY <1>1, <1>3 DEF Inv, Bounds, InOrder, OneKind, Known, Asked, Measuring
<1>d. AnswerInv' /\ OwnInv'
  BY <1>1, <1>3 DEF Inv, AnswerInv, OwnInv, Knows, Fresh
<1>e. HeldInv' /\ ComingInv'
  BY <1>1, <1>3 DEF Inv, HeldInv, ComingInv, Unsettled, Resolved, Measuring
<1>f. AckedIsReceived' /\ LadderIsOwn'
  BY <1>1, <1>3 DEF Inv, AckedIsReceived, LadderIsOwn
<1> QED
  BY <1>a, <1>b, <1>c, <1>d, <1>e, <1>f DEF Inv

LEMMA InitInv ==
  ASSUME Init
  PROVE  Inv
<1>1. /\ 0 \in 0 .. MaxFrames /\ 0 \in 0 .. (MaxRetries + 1) /\ {} \in SUBSET Nat
      /\ {} \in Reports /\ NoBuffer \in Harqs /\ DOMAIN NoBuffer = {} /\ {} \in SUBSET Index
  BY ConstantFacts, NoBufferType DEF Reports
<1>2. /\ master \in Masters /\ master.ask = 0 /\ master.out = 0 /\ ~master.slot.on
      /\ master.silent = 0 /\ master.asks = 0 /\ master.queue = 0 /\ master.next = 0
      /\ master.unacked = {} /\ master.tx = 0
  BY <1>1 DEF Init, Masters, NoSlot
<1>3. /\ slave \in Slaves /\ slave.measured = {} /\ slave.of = 0 /\ slave.anchor = 0
      /\ slave.answered = 0 /\ slave.got = {} /\ slave.harq = NoBuffer
  BY <1>1 DEF Init, Slaves
<1>4. /\ air = <<>> /\ answer = <<>> /\ ladder = <<>>
      /\ heard \in Heard /\ heard.tx = 0
  BY <1>1 DEF Init, Heard
<1>5. DOMAIN air = {} /\ Len(ladder) = 0 /\ DOMAIN ladder = {}
  BY <1>4
<1>6. DOMAIN slave.harq = {}
  BY <1>1, <1>3
<1>a. Typed
  BY <1>2, <1>3, <1>4 DEF Typed
<1>b. TypeOK
  BY <1>1, <1>2, <1>3, <1>5, <1>6, ConstantFacts DEF TypeOK
<1>c. Bounds /\ InOrder /\ OneKind /\ Known /\ Asked
  BY <1>2, <1>3, <1>4, <1>5, <1>6, ConstantFacts
     DEF Bounds, InOrder, OneKind, Known, Asked, Measuring
<1>d. AnswerInv /\ OwnInv
  BY <1>2, <1>4 DEF AnswerInv, OwnInv
<1>e. HeldInv /\ ComingInv
  BY <1>5, <1>6 DEF HeldInv, ComingInv
<1>f. AckedIsReceived /\ LadderIsOwn
  BY <1>2, <1>5 DEF AckedIsReceived, LadderIsOwn
<1> QED
  BY <1>a, <1>b, <1>c, <1>d, <1>e, <1>f DEF Inv
-----------------------------------------------------------------------------
\* A transmission.

\* The frames of one, by what they carry.
FrameOf(f, tx, kind) ==
  f \in FrameSet /\ f.tx = tx /\ f.kind = kind

LEMMA LeastType ==
  ASSUME NEW a \in Nat, NEW b \in Nat
  PROVE  Least(a, b) \in Nat
BY DEF Least

LEMMA FramesFacts ==
  ASSUME NEW tx \in Nat, NEW kind \in {"measure", "data"}, NEW n \in Nat,
         NEW q, q \in [1 .. n -> Nat]
  PROVE  LET fs == Frames(tx, kind, q)
         IN  /\ fs \in Seq(FrameSet) /\ Len(fs) = n
             /\ \A i \in 1 .. n : FrameOf(fs[i], tx, kind) /\ fs[i].index = q[i]
<1> DEFINE frame(i) == [tx |-> tx, kind |-> kind, index |-> q[i], measure |-> FALSE, count |-> 0,
                        follows |-> Least(n - i, MaxFollows)]
           fs == Frames(tx, kind, q)
<1>1. q \in Seq(Nat) /\ Len(q) = n
  OBVIOUS
<1>2. fs = [i \in 1 .. n |-> frame(i)]
  BY <1>1 DEF Frames
<1>3. ASSUME NEW i \in 1 .. n
      PROVE  /\ frame(i) \in FrameSet /\ frame(i).tx = tx /\ frame(i).kind = kind
             /\ frame(i).index = q[i]
  <2>1. n - i \in Nat /\ MaxFollows \in Nat /\ q[i] \in Nat
    BY ConstantFacts
  <2>2. Least(n - i, MaxFollows) \in Nat
    BY <2>1, LeastType
  <2> QED
    BY <2>1, <2>2 DEF FrameSet
<1> HIDE DEF frame, fs
<1>4. fs \in [1 .. n -> FrameSet] /\ \A i \in 1 .. n : fs[i] = frame(i)
  BY <1>2, <1>3
<1>5. fs \in Seq(FrameSet) /\ Len(fs) = n
  BY <1>4
<1> QED
  BY <1>3, <1>4, <1>5 DEF fs, FrameOf

\* What is carried besides the header: nothing, with no change; a measurement
\* alone; or data, while no measurement could have gone.
Carries(c, tx) ==
  \/ /\ c.master = master /\ c.frames = <<>>
  \/ /\ c.master.out > 0 /\ c.master.out = Len(c.frames) /\ c.master.ask = 0
     /\ master.out = 0 /\ master.ask > 0 /\ master.unacked = {} /\ c.master.unacked = {}
     /\ c.master.queue = master.queue /\ c.master.next = master.next
     /\ \A i \in 1 .. Len(c.frames) :
          FrameOf(c.frames[i], tx, "measure") /\ c.frames[i].index \in Index
  \/ /\ c.master.out = 0 /\ master.out = 0 /\ c.master.ask = master.ask
     /\ ~(master.ask > 0 /\ master.unacked = {})
     /\ \A i \in 1 .. Len(c.frames) :
          FrameOf(c.frames[i], tx, "data") /\ c.frames[i].index < c.master.next

LEMMA ChooseFacts ==
  ASSUME Inv, NEW tx \in Nat, NEW c \in Choose(master, tx)
  PROVE  /\ c.master \in Masters /\ c.master.slot = master.slot
         /\ c.master.silent = master.silent /\ c.master.up = master.up
         /\ c.master.asks = master.asks /\ c.master.tx = master.tx
         /\ c.master.queue + c.master.next <= MaxBlocks /\ master.next <= c.master.next
         /\ c.master.unacked \subseteq 0 .. (c.master.next - 1)
         /\ \A b \in 0 .. (c.master.next - 1) :
              b \notin c.master.unacked => b \in 0 .. (master.next - 1) /\ b \notin master.unacked
         /\ c.frames \in Seq(FrameSet) /\ Carries(c, tx)
<1> DEFINE G(d) ==
         /\ d.master \in Masters /\ d.master.slot = master.slot
         /\ d.master.silent = master.silent /\ d.master.up = master.up
         /\ d.master.asks = master.asks /\ d.master.tx = master.tx
         /\ d.master.queue + d.master.next <= MaxBlocks /\ master.next <= d.master.next
         /\ d.master.unacked \subseteq 0 .. (d.master.next - 1)
         /\ \A b \in 0 .. (d.master.next - 1) :
              b \notin d.master.unacked => b \in 0 .. (master.next - 1) /\ b \notin master.unacked
         /\ d.frames \in Seq(FrameSet) /\ Carries(d, tx)
<1>1. /\ master \in Masters /\ master.ask \in Nat /\ master.out \in Nat /\ master.queue \in Nat
      /\ master.next \in Nat /\ master.queue + master.next <= MaxBlocks
      /\ master.ask \in 0 .. MaxFrames /\ master.unacked \subseteq Nat
      /\ ~(master.ask > 0 /\ master.out > 0) /\ MaxBlocks \in Nat /\ MaxFrames \in Nat
  BY TypeFacts, MasterFacts, ConstantFacts
<1>2. master.unacked \subseteq 0 .. (master.next - 1)
  BY DEF Inv, TypeOK
<1>3. ASSUME c = [master |-> master, frames |-> <<>>]
      PROVE  G(c)
  <2>1. c.master = master /\ c.frames = <<>>
    BY <1>3
  <2>2. Carries(c, tx)
    BY <2>1 DEF Carries
  <2>3. c.frames \in Seq(FrameSet)
    BY <2>1
  <2> QED
    BY <1>1, <1>2, <2>1, <2>2, <2>3
<1>4. ASSUME master.ask > 0, master.unacked = {}, NEW n \in 1 .. master.ask,
             c = [master |-> [master EXCEPT !.ask = 0, !.out = n, !.unheard = FALSE],
                  frames |-> Frames(tx, "measure", [i \in 1 .. n |-> i - 1])]
      PROVE  G(c)
  <2> DEFINE m == [master EXCEPT !.ask = 0, !.out = n, !.unheard = FALSE]
             q == [i \in 1 .. n |-> i - 1]
             fs == Frames(tx, "measure", q)
  <2>1. n \in Nat /\ n > 0 /\ n \in 0 .. MaxFrames /\ n <= MaxFrames /\ 0 \in 0 .. MaxFrames
    <3>1. n \in Nat /\ n >= 1 /\ n <= master.ask
      BY <1>1, <1>4
    <3> QED
      BY <1>1, <3>1
  <2>2. /\ m \in Masters /\ m.ask = 0 /\ m.out = n /\ m.slot = master.slot
        /\ m.silent = master.silent /\ m.up = master.up /\ m.asks = master.asks
        /\ m.queue = master.queue /\ m.next = master.next /\ m.tx = master.tx
        /\ m.unacked = master.unacked
    BY <1>1, <2>1 DEF Masters
  <2>3. q \in [1 .. n -> Nat] /\ \A i \in 1 .. n : q[i] \in Index
    <3>1. ASSUME NEW i \in 1 .. n
          PROVE  i - 1 \in Nat /\ i - 1 \in Index
      <4>1. i \in Nat /\ 1 <= i /\ i <= MaxFrames
        BY <1>1, <2>1
      <4> QED
        BY <1>1, <4>1 DEF Index
    <3> QED
      BY <3>1, Zenon
  <2>4. c.master = m /\ c.frames = fs
    BY <1>4
  <2>5. /\ fs \in Seq(FrameSet) /\ Len(fs) = n
        /\ \A i \in 1 .. n : FrameOf(fs[i], tx, "measure") /\ fs[i].index = q[i]
    <3> HIDE DEF q
    <3> QED
      BY <2>1, <2>3, FramesFacts
  <2> HIDE DEF m, q, fs
  <2>6. \A i \in 1 .. Len(fs) : FrameOf(fs[i], tx, "measure") /\ fs[i].index \in Index
    BY <2>3, <2>5
  <2>7. master.out = 0
    BY <1>1, <1>4
  <2>8. Carries(c, tx)
    BY <1>4, <2>1, <2>2, <2>4, <2>5, <2>6, <2>7 DEF Carries
  <2> QED
    BY <1>1, <1>2, <2>2, <2>4, <2>5, <2>8
<1>5. ASSUME master.out = 0, ~(master.ask > 0 /\ master.unacked = {}),
             NEW d \in Carried(master),
             c = [master |-> [master EXCEPT !.queue = @ - d.new, !.next = @ + d.new,
                                            !.unacked = @ \cup Cut(master, d.new)],
                  frames |-> Frames(tx, "data", d.blocks)]
      PROVE  G(c)
  <2> DEFINE queue == master.queue - d.new
             next == master.next + d.new
             unacked == master.unacked \cup Cut(master, d.new)
             m == [master EXCEPT !.queue = queue, !.next = next, !.unacked = unacked]
             fs == Frames(tx, "data", d.blocks)
  <2>1. /\ d.new \in 0 .. MaxFrames /\ d.blocks \in Runs
        /\ d.new <= IF master.ask > 0 THEN 0 ELSE master.queue
        /\ \A i \in DOMAIN d.blocks : d.blocks[i] \in unacked
    BY DEF Carried
  <2>2. d.new \in Nat /\ d.new <= master.queue
    BY <1>1, <2>1
  <2>3. queue \in Nat /\ next \in Nat /\ queue + next = master.queue + master.next
        /\ master.next <= next
    BY <1>1, <2>2
  <2>4. /\ unacked \in SUBSET Nat /\ unacked \subseteq 0 .. (next - 1)
        /\ \A b \in 0 .. (next - 1) :
             b \notin unacked => b \in 0 .. (master.next - 1) /\ b \notin master.unacked
    BY <1>1, <1>2, <2>2 DEF Cut
  <2>5. PICK n \in 0 .. MaxFrames : d.blocks \in [1 .. n -> Blocks]
    BY <2>1 DEF Runs
  <2>6. n \in Nat /\ d.blocks \in [1 .. n -> Nat]
    BY <1>1, <2>5 DEF Blocks
  <2>7. /\ fs \in Seq(FrameSet) /\ Len(fs) = n
        /\ \A i \in 1 .. n : FrameOf(fs[i], tx, "data") /\ fs[i].index = d.blocks[i]
    BY <2>6, FramesFacts
  <2>8. c.master = m /\ c.frames = fs
    BY <1>5
  <2> HIDE DEF queue, next, unacked, fs
  <2>9. /\ m \in Masters /\ m.ask = master.ask /\ m.out = master.out /\ m.slot = master.slot
        /\ m.silent = master.silent /\ m.up = master.up /\ m.asks = master.asks
        /\ m.queue = queue /\ m.next = next /\ m.tx = master.tx
        /\ m.unacked = unacked
    BY <1>1, <2>3, <2>4 DEF Masters
  <2> HIDE DEF m
  <2>10. \A i \in 1 .. Len(fs) : FrameOf(fs[i], tx, "data") /\ fs[i].index < next
    <3>1. ASSUME NEW i \in 1 .. n
          PROVE  d.blocks[i] \in Nat /\ d.blocks[i] < next
      <4>1. d.blocks[i] \in 0 .. (next - 1)
        BY <2>1, <2>4, <2>6
      <4> QED
        BY <2>3, <4>1
    <3> QED
      BY <2>7, <3>1
  <2>11. Carries(c, tx)
    BY <1>5, <2>8, <2>9, <2>10 DEF Carries
  <2> QED
    BY <1>1, <2>3, <2>4, <2>7, <2>8, <2>9, <2>11
<1>6. G(c)
  <2>1. CASE master.out > 0
    BY <1>3, <2>1 DEF Choose
  <2>2. CASE master.out = 0 /\ master.ask > 0 /\ master.unacked = {}
    <3>1. \/ c = [master |-> master, frames |-> <<>>]
          \/ \E n \in 1 .. master.ask :
               c = [master |-> [master EXCEPT !.ask = 0, !.out = n, !.unheard = FALSE],
                    frames |-> Frames(tx, "measure", [i \in 1 .. n |-> i - 1])]
      BY <2>2 DEF Choose
    <3> HIDE DEF G
    <3> QED
      BY <1>3, <1>4, <2>2, <3>1
  <2>3. CASE master.out = 0 /\ ~(master.ask > 0 /\ master.unacked = {})
    <3>1. \E d \in Carried(master) :
             c = [master |-> [master EXCEPT !.queue = @ - d.new, !.next = @ + d.new,
                                            !.unacked = @ \cup Cut(master, d.new)],
                  frames |-> Frames(tx, "data", d.blocks)]
      <4>1. ~(master.out > 0)
        BY <2>3
      <4> QED
        BY <2>3, <4>1, Zenon DEF Choose
    <3> HIDE DEF G
    <3> QED
      BY <1>5, <2>3, <3>1
  <2> QED
    BY <1>1, <2>1, <2>2, <2>3
<1> QED
  BY <1>6
\* The master once it has keyed: what went is out, asked for again, or dropped.
Keyed(c, tx) ==
  /\ master' \in Masters /\ master'.tx = tx /\ (master'.slot.on => master'.slot.tx = tx)
  /\ master'.silent = master.silent /\ master'.up = master.up /\ master'.asks = master.asks
  /\ master'.queue = c.master.queue /\ master'.next = c.master.next
  /\ master'.unacked = c.master.unacked
  /\ \/ master'.ask = c.master.ask /\ master'.out = c.master.out
     \/ /\ c.master.out > 0 /\ c.frames # <<>>
        /\ master'.ask = c.master.out /\ master'.out = 0
  /\ UNCHANGED <<slave, answer, ladder>>

LEMMA KeyedFacts ==
  ASSUME Inv, ~master.slot.on, NEW tx, tx = master.tx + 1,
         NEW c \in Choose(master, tx), Keyed(c, tx)
  PROVE  /\ TypeOK' /\ Known /\ AckedIsReceived' /\ LadderIsOwn'
         /\ (Measuring(master') => Measuring(master)) /\ answer = <<>>
         /\ Unsettled => Unsettled' /\ \A i \in 1 .. Len(c.frames) : c.frames[i].kind # "data"
         /\ tx \in Nat /\ slave.anchor < tx /\ slave.of < tx /\ slave.answered < tx
         /\ heard.tx < tx /\ \A i \in DOMAIN air : air[i].tx < tx
         /\ master.out > 0 => heard.tx <= slave.answered
         /\ Len(ladder) <= master.asks /\ master.next <= c.master.next
         /\ Carries(c, tx) /\ c.frames \in Seq(FrameSet)
<1>1. /\ master.tx \in Nat /\ tx \in Nat /\ master.tx < tx
      /\ slave.anchor \in Nat /\ slave.of \in Nat /\ slave.answered \in Nat /\ heard.tx \in Nat
      /\ \A i \in DOMAIN air : air[i].tx \in Nat
      /\ master.next \in Nat /\ master.ask \in Nat /\ master.out \in Nat
  BY TypeFacts, MasterFacts, SlaveFacts, FrameFacts DEF Inv, Typed
<1>2. /\ c.master \in Masters /\ c.master.asks = master.asks
      /\ c.master.queue + c.master.next <= MaxBlocks /\ master.next <= c.master.next
      /\ c.master.unacked \subseteq 0 .. (c.master.next - 1)
      /\ \A b \in 0 .. (c.master.next - 1) :
           b \notin c.master.unacked => b \in 0 .. (master.next - 1) /\ b \notin master.unacked
      /\ c.frames \in Seq(FrameSet) /\ Carries(c, tx)
  BY <1>1, ChooseFacts
<1>3. /\ c.master.out \in Nat /\ c.master.ask \in Nat /\ c.master.next \in Nat
  BY <1>2, MasterFacts
<1>4. /\ slave' = slave /\ answer' = answer /\ ladder' = ladder
      /\ master' \in Masters /\ master'.tx = tx /\ (master'.slot.on => master'.slot.tx = tx)
      /\ master'.silent = master.silent /\ master'.up = master.up /\ master'.asks = master.asks
      /\ master'.queue = c.master.queue /\ master'.next = c.master.next
      /\ master'.unacked = c.master.unacked
      /\ \/ master'.ask = c.master.ask /\ master'.out = c.master.out
         \/ /\ c.master.out > 0 /\ c.frames # <<>>
            /\ master'.ask = c.master.out /\ master'.out = 0
  BY DEF Keyed
<1>5. slave.anchor <= master.tx /\ slave.of <= master.tx /\ slave.got \subseteq 0 .. (master.next - 1)
  <2>1. slave.anchor \in 0 .. master.tx /\ slave.of \in 0 .. master.tx
        /\ slave.got \subseteq 0 .. (master.next - 1)
    BY DEF Inv, TypeOK
  <2> QED
    BY <1>1, <2>1
<1>6. /\ slave.answered <= master.tx /\ heard.tx <= master.tx
      /\ \A i \in DOMAIN air : air[i].tx <= master.tx
  BY DEF Inv, Bounds
<1>7. slave.anchor < tx /\ slave.of < tx /\ slave.answered < tx
      /\ heard.tx < tx /\ \A i \in DOMAIN air : air[i].tx < tx
  BY <1>1, <1>5, <1>6
<1>8. Measuring(master') => Measuring(master)
  <2>1. Measuring(c.master) => Measuring(master)
    BY <1>1, <1>2, <1>3 DEF Carries, Measuring
  <2>2. Measuring(master') => Measuring(c.master)
    BY <1>3, <1>4 DEF Measuring
  <2> QED
    BY <2>1, <2>2
<1>9. /\ Unsettled => Unsettled'
      /\ Unsettled => \A i \in 1 .. Len(c.frames) : c.frames[i].kind # "data"
  <2> SUFFICES ASSUME Unsettled
               PROVE  /\ Unsettled'
                      /\ \A i \in 1 .. Len(c.frames) : c.frames[i].kind # "data"
    OBVIOUS
  <2>1. (master.ask > 0 \/ master.out > 0) /\ master.unacked = {}
    BY DEF Unsettled, Measuring
  <2>2. /\ c.master.unacked = {} /\ (c.master.ask > 0 \/ c.master.out > 0)
        /\ \A i \in 1 .. Len(c.frames) : c.frames[i].kind # "data"
    <3>1. CASE c.master = master /\ c.frames = <<>>
      BY <2>1, <3>1
    <3>2. CASE ~(c.master = master /\ c.frames = <<>>)
      BY <1>1, <1>2, <2>1, <3>2 DEF Carries, FrameOf
    <3> QED
      BY <3>1, <3>2
  <2>3. Measuring(master')
    BY <1>4, <2>2 DEF Measuring
  <2> QED
    BY <1>4, <2>2, <2>3 DEF Unsettled
<1>10. TypeOK'
  <2>1. Guesses(slave') = Guesses(slave)
    BY <1>4
  <2>2. /\ master'.ask \in 0 .. MaxFrames /\ master'.out \in 0 .. MaxFrames
        /\ master'.silent \in 0 .. (MaxRetries + 1)
    BY <1>4, MasterFacts
  <2>3. ~(master'.ask > 0 /\ master'.out > 0)
    <3>1. ~(master.ask > 0 /\ master.out > 0)
      BY TypeFacts
    <3>2. ~(c.master.ask > 0 /\ c.master.out > 0)
      BY <1>2, <3>1 DEF Carries
    <3> QED
      BY <1>4, <3>2
  <2>4. slave'.anchor \in 0 .. master'.tx /\ slave'.of \in 0 .. master'.tx
    BY <1>1, <1>4, <1>7
  <2>5. slave'.got \subseteq 0 .. (master'.next - 1)
    BY <1>1, <1>2, <1>3, <1>4, <1>5
  <2>6. /\ slave'.measured \in {{}} \cup {{frames} : frames \in SUBSET Index}
        /\ slave'.answered <= slave'.anchor \/ slave'.anchor = 0
        /\ \A g \in DOMAIN slave'.harq : g \in Guesses(slave') /\ slave'.harq[g] \in Buffers
        /\ Len(ladder') <= master'.asks
    BY <1>4, <2>1 DEF Inv, TypeOK
  <2> QED
    BY <1>2, <1>4, <2>2, <2>3, <2>4, <2>5, <2>6 DEF TypeOK
<1>11. AckedIsReceived' /\ LadderIsOwn'
  BY <1>2, <1>4 DEF Inv, AckedIsReceived, LadderIsOwn
<1>12. master.out > 0 => heard.tx <= slave.answered
  BY DEF Inv, OwnInv
<1>13. answer = <<>>
  BY DEF Inv, AnswerInv
<1>14. Known /\ Len(ladder) <= master.asks
  BY DEF Inv, TypeOK
<1> QED
  BY <1>1, <1>2, <1>7, <1>8, <1>9, <1>10, <1>11, <1>12, <1>13, <1>14

\* It does not radiate, or cannot be read.
LEMMA DroppedKeeps ==
  ASSUME Inv, ~master.slot.on, NEW tx, tx = master.tx + 1,
         NEW c \in Choose(master, tx), Keyed(c, tx),
         c.master.out > 0 /\ c.frames # <<>> => master'.out = 0,
         UNCHANGED <<air, heard>>
  PROVE  Inv'
<1>1. /\ TypeOK' /\ Known /\ AckedIsReceived' /\ LadderIsOwn'
      /\ (Measuring(master') => Measuring(master)) /\ answer = <<>>
      /\ Unsettled => Unsettled'
      /\ tx \in Nat /\ slave.anchor < tx /\ slave.of < tx /\ slave.answered < tx
      /\ heard.tx < tx /\ \A i \in DOMAIN air : air[i].tx < tx
      /\ master.out > 0 => heard.tx <= slave.answered
      /\ Len(ladder) <= master.asks /\ master.next <= c.master.next
      /\ Carries(c, tx) /\ c.frames \in Seq(FrameSet)
  BY KeyedFacts
<1>2. /\ slave' = slave /\ answer' = answer /\ ladder' = ladder /\ air' = air /\ heard' = heard
      /\ master' \in Masters /\ master'.tx = tx /\ (master'.slot.on => master'.slot.tx = tx)
      /\ master'.silent = master.silent /\ master'.up = master.up /\ master'.asks = master.asks
      /\ master'.next = c.master.next
      /\ \/ master'.ask = c.master.ask /\ master'.out = c.master.out
         \/ /\ c.master.out > 0 /\ c.frames # <<>>
            /\ master'.ask = c.master.out /\ master'.out = 0
  BY DEF Keyed
<1>3. /\ slave.anchor \in Nat /\ slave.of \in Nat /\ slave.answered \in Nat /\ heard.tx \in Nat
      /\ \A i \in DOMAIN air : air[i].tx \in Nat /\ air[i].index \in Nat
      /\ master.next \in Nat /\ c.master.next \in Nat
  <2>1. master'.next \in Nat
    BY <1>2, MasterFacts
  <2>2. \A i \in DOMAIN air : air[i].tx \in Nat /\ air[i].index \in Nat
    BY FrameFacts DEF Inv, Typed
  <2>3. slave \in Slaves /\ master \in Masters /\ heard.tx \in Nat
    BY TypeFacts
  <2> QED
    BY <1>2, <2>1, <2>2, <2>3, SlaveFacts, MasterFacts
<1>4. master'.out > 0 => master.out > 0
  <2>1. CASE c.master = master /\ c.frames = <<>>
    BY <1>2, <2>1
  <2>2. CASE c.master.out > 0 /\ c.master.out = Len(c.frames)
    <3>1. c.frames # <<>>
      BY <1>1, <2>2
    <3> QED
      BY <2>2, <3>1
  <2>3. CASE c.master.out = 0
    BY <1>2, <2>3
  <2> QED
    BY <1>1, <2>1, <2>2, <2>3 DEF Carries
<1>a. Typed'
  BY <1>2 DEF Inv, Typed
<1>b. Bounds'
  <2>1. (master'.up => master'.silent <= MaxRetries)
        /\ (Measuring(master') => Len(ladder') + 1 <= master'.asks)
    BY <1>1, <1>2 DEF Inv, Bounds
  <2>2. slave'.answered <= master'.tx /\ heard'.tx <= master'.tx
    BY <1>1, <1>2, <1>3
  <2>3. ASSUME NEW i \in DOMAIN air
        PROVE  /\ air[i].tx >= 1 /\ air[i].tx <= tx
               /\ air[i].kind = "data" => air[i].index < c.master.next
               /\ air[i].kind = "measure" => air[i].index \in Index /\ air[i].tx <= heard.tx
    <3>1. /\ air[i].tx >= 1
          /\ air[i].kind = "data" => air[i].index < master.next
          /\ air[i].kind = "measure" => air[i].index \in Index /\ air[i].tx <= heard.tx
      BY DEF Inv, Bounds
    <3>2. air[i].tx \in Nat /\ air[i].index \in Nat /\ air[i].tx < tx
      BY <1>1, <1>3
    <3> QED
      BY <1>1, <1>3, <3>1, <3>2
  <2> QED
    BY <1>2, <2>1, <2>2, <2>3 DEF Bounds
<1>c. InOrder' /\ OneKind' /\ Known'
  BY <1>2 DEF Inv, InOrder, OneKind, Known
<1>d. Asked'
  <2>1. slave'.anchor # master'.tx /\ \A i \in DOMAIN air' : air'[i].tx # master'.tx
    BY <1>1, <1>2, <1>3
  <2> QED
    BY <2>1 DEF Asked
<1>e. AnswerInv' /\ OwnInv'
  BY <1>1, <1>2, <1>4 DEF Inv, AnswerInv, OwnInv, Knows, Fresh
<1>f. HeldInv' /\ ComingInv'
  <2>1. Resolved' => Resolved
    BY <1>2 DEF Resolved
  <2> QED
    BY <1>1, <1>2, <2>1 DEF Inv, HeldInv, ComingInv
<1> QED
  BY <1>1, <1>a, <1>b, <1>c, <1>d, <1>e, <1>f DEF Inv
\* What is on the air once a transmission radiates: what was, then of its own.
New(f, c, tx) ==
  /\ f \in FrameSet /\ f.tx = tx
  /\ \/ f = Header(tx, c.master.out > 0, Len(c.frames))
     \/ \E j \in 1 .. Len(c.frames) : f = c.frames[j]

LEMMA CatFacts ==
  ASSUME NEW S, NEW s \in Seq(S), NEW t \in Seq(S), NEW a, a = s \o t
  PROVE  /\ a \in Seq(S) /\ Len(a) = Len(s) + Len(t) /\ Len(a) \in Nat
         /\ \A i \in 1 .. Len(a) : \/ i <= Len(s) /\ a[i] = s[i]
                                   \/ /\ i > Len(s) /\ i - Len(s) \in 1 .. Len(t)
                                      /\ a[i] = t[i - Len(s)]
<1>1. /\ a \in Seq(S) /\ Len(a) = Len(s) + Len(t)
      /\ \A i \in 1 .. Len(s) + Len(t) : a[i] = IF i <= Len(s) THEN s[i] ELSE t[i - Len(s)]
  BY ConcatProperties
<1>2. Len(s) \in Nat /\ Len(t) \in Nat
  OBVIOUS
<1>3. Len(a) \in Nat
  BY <1>1, <1>2
<1>4. ASSUME NEW i \in 1 .. Len(a)
      PROVE  \/ i <= Len(s) /\ a[i] = s[i]
             \/ i > Len(s) /\ i - Len(s) \in 1 .. Len(t) /\ a[i] = t[i - Len(s)]
  BY <1>1, <1>2
<1> QED
  BY <1>1, <1>3, <1>4

LEMMA AirFacts ==
  ASSUME air \in Seq(FrameSet), NEW fs \in Seq(FrameSet), NEW n \in 0 .. Len(fs),
         NEW h \in FrameSet, NEW hs \in {<<>>, <<h>>}
  PROVE  LET a == air \o hs \o SubSeq(fs, 1, n)
         IN  /\ a \in Seq(FrameSet) /\ DOMAIN a = 1 .. Len(a) /\ Len(a) \in Nat
             /\ DOMAIN air = 1 .. Len(air) /\ Len(air) \in Nat /\ Len(air) <= Len(a)
             /\ \A i \in DOMAIN a :
                  \/ i <= Len(air) /\ a[i] = air[i]
                  \/ i > Len(air) /\ (a[i] = h \/ \E j \in 1 .. Len(fs) : a[i] = fs[j])
<1> DEFINE sub == SubSeq(fs, 1, n)
           all == hs \o sub
           a == air \o hs \o sub
<1>1. n \in Nat /\ n <= Len(fs) /\ Len(fs) \in Nat /\ Len(air) \in Nat /\ hs \in Seq(FrameSet)
      /\ Len(hs) \in {0, 1} /\ (Len(hs) = 1 => hs[1] = h)
  <2>1. CASE hs = <<>>
    BY <2>1
  <2>2. CASE hs = <<h>>
    BY <2>2
  <2> QED
    BY <2>1, <2>2
<1>2. /\ sub \in Seq(FrameSet) /\ Len(sub) = n
      /\ \A i \in 1 .. n : i \in 1 .. Len(fs) /\ sub[i] = fs[i]
  BY <1>1
<1> HIDE DEF sub
<1>3. /\ all \in Seq(FrameSet) /\ Len(all) \in Nat
      /\ \A i \in 1 .. Len(all) : \/ i <= Len(hs) /\ all[i] = hs[i]
                                  \/ /\ i > Len(hs) /\ i - Len(hs) \in 1 .. n
                                     /\ all[i] = sub[i - Len(hs)]
  <2>1. hs \in Seq(FrameSet) /\ sub \in Seq(FrameSet) /\ all = hs \o sub /\ Len(sub) = n
    BY <1>1, <1>2
  <2> HIDE DEF all
  <2> QED
    BY <2>1, CatFacts
<1>4. a = air \o all
  <2>1. hs \in Seq(FrameSet) /\ sub \in Seq(FrameSet)
    BY <1>1, <1>2
  <2>2. (air \o hs) \o sub = air \o (hs \o sub)
    BY <2>1, ConcatAssociative, SMTT(30)
  <2> QED
    BY <2>2 DEF sub
<1>5. \A i \in 1 .. Len(all) : all[i] = h \/ \E j \in 1 .. Len(fs) : all[i] = fs[j]
  <2> SUFFICES ASSUME NEW i \in 1 .. Len(all)
               PROVE  all[i] = h \/ \E j \in 1 .. Len(fs) : all[i] = fs[j]
    OBVIOUS
  <2>1. CASE i <= Len(hs) /\ all[i] = hs[i]
    <3>1. i = 1 /\ Len(hs) = 1
      BY <1>1, <1>3, <2>1
    <3> QED
      BY <1>1, <2>1, <3>1
  <2>2. CASE i - Len(hs) \in 1 .. n /\ all[i] = sub[i - Len(hs)]
    BY <1>2, <2>2
  <2> QED
    BY <1>3, <2>1, <2>2
<1> HIDE DEF all, a
<1>6. /\ a \in Seq(FrameSet) /\ Len(a) = Len(air) + Len(all) /\ Len(a) \in Nat
      /\ \A i \in 1 .. Len(a) : \/ i <= Len(air) /\ a[i] = air[i]
                                \/ /\ i > Len(air) /\ i - Len(air) \in 1 .. Len(all)
                                   /\ a[i] = all[i - Len(air)]
  <2>1. air \in Seq(FrameSet) /\ all \in Seq(FrameSet) /\ a = air \o all
    BY <1>3, <1>4
  <2> QED
    BY <2>1, CatFacts
<1>7. ASSUME NEW i \in 1 .. Len(a)
      PROVE  \/ i <= Len(air) /\ a[i] = air[i]
             \/ i > Len(air) /\ (a[i] = h \/ \E j \in 1 .. Len(fs) : a[i] = fs[j])
  BY <1>5, <1>6
<1>8. DOMAIN a = 1 .. Len(a) /\ Len(a) \in Nat /\ Len(air) <= Len(a)
  BY <1>1, <1>3, <1>6
<1>9. DOMAIN air = 1 .. Len(air)
  OBVIOUS
<1> QED
  BY <1>1, <1>6, <1>7, <1>8, <1>9 DEF a, sub

LEMMA RadiatedKeeps ==
  ASSUME Inv, ~master.slot.on, NEW tx, tx = master.tx + 1,
         NEW c \in Choose(master, tx), Keyed(c, tx),
         master'.ask = c.master.ask, master'.out = c.master.out,
         master'.slot.on, ~master'.slot.heard,
         air' \in Seq(FrameSet), DOMAIN air' = 1 .. Len(air'),
         DOMAIN air = 1 .. Len(air), Len(air) \in Nat, Len(air') \in Nat,
         \A i \in DOMAIN air' : \/ i <= Len(air) /\ air'[i] = air[i]
                                \/ i > Len(air) /\ New(air'[i], c, tx),
         heard' = IF c.master.out > 0 /\ c.frames # <<>>
                  THEN [tx |-> tx, got |-> {}, joined |-> FALSE] ELSE heard
  PROVE  Inv'
<1>1. /\ TypeOK' /\ Known /\ AckedIsReceived' /\ LadderIsOwn'
      /\ (Measuring(master') => Measuring(master)) /\ answer = <<>>
      /\ Unsettled => Unsettled' /\ \A i \in 1 .. Len(c.frames) : c.frames[i].kind # "data"
      /\ tx \in Nat /\ slave.anchor < tx /\ slave.of < tx /\ slave.answered < tx
      /\ heard.tx < tx /\ \A i \in DOMAIN air : air[i].tx < tx
      /\ master.out > 0 => heard.tx <= slave.answered
      /\ Len(ladder) <= master.asks /\ master.next <= c.master.next
      /\ Carries(c, tx) /\ c.frames \in Seq(FrameSet)
  BY KeyedFacts
<1>2. /\ slave' = slave /\ answer' = answer /\ ladder' = ladder
      /\ master' \in Masters /\ master'.tx = tx /\ master'.slot.tx = tx
      /\ master'.silent = master.silent /\ master'.up = master.up /\ master'.asks = master.asks
      /\ master'.next = c.master.next /\ master'.unacked = c.master.unacked
  BY DEF Keyed
<1>3. /\ slave.anchor \in Nat /\ slave.of \in Nat /\ slave.answered \in Nat /\ heard.tx \in Nat
      /\ \A i \in DOMAIN air : air[i].tx \in Nat /\ air[i].index \in Nat
      /\ master.next \in Nat /\ c.master.next \in Nat /\ master.tx \in Nat /\ tx >= 1
      /\ heard \in Heard
  <2>1. master'.next \in Nat
    BY <1>2, MasterFacts
  <2>2. master.tx \in Nat /\ tx >= 1
    BY TypeFacts, MasterFacts
  <2> QED
    BY <1>2, <2>1, <2>2, TypeFacts, SlaveFacts, MasterFacts, FrameFacts, SMTT(30) DEF Inv, Typed
\* The three things a transmission can carry.
<1> DEFINE carried == c.master.out > 0 /\ c.frames # <<>>
<1>4. \/ c.master = master /\ c.frames = <<>> /\ Len(c.frames) = 0 /\ ~carried
      \/ /\ carried /\ Len(c.frames) > 0 /\ master.unacked = {} /\ c.master.unacked = {}
         /\ \A j \in 1 .. Len(c.frames) :
              FrameOf(c.frames[j], tx, "measure") /\ c.frames[j].index \in Index
      \/ /\ c.master.out = 0 /\ ~carried
         /\ \A j \in 1 .. Len(c.frames) :
              FrameOf(c.frames[j], tx, "data") /\ c.frames[j].index < c.master.next
  <2>1. CASE c.master = master /\ c.frames = <<>>
    BY <2>1
  <2>2. CASE /\ c.master.out > 0 /\ c.master.out = Len(c.frames)
             /\ master.unacked = {} /\ c.master.unacked = {}
             /\ \A j \in 1 .. Len(c.frames) :
                  FrameOf(c.frames[j], tx, "measure") /\ c.frames[j].index \in Index
    <3>1. c.frames # <<>>
      BY <1>1, <2>2
    <3> QED
      BY <2>2, <3>1
  <2>3. CASE /\ c.master.out = 0
             /\ \A j \in 1 .. Len(c.frames) :
                  FrameOf(c.frames[j], tx, "data") /\ c.frames[j].index < c.master.next
    BY <2>3
  <2> QED
    BY <1>1, <2>1, <2>2, <2>3 DEF Carries
<1>5. ASSUME NEW f, New(f, c, tx)
      PROVE  /\ f \in FrameSet /\ f.tx = tx
             /\ \/ /\ f.kind = "header" /\ f.count = Len(c.frames)
                   /\ f.measure <=> c.master.out > 0
                \/ /\ f.kind = "measure" /\ f.index \in Index /\ carried
                   /\ master.unacked = {} /\ c.master.unacked = {}
                \/ /\ f.kind = "data" /\ f.index < c.master.next /\ ~carried
                   /\ c.master.out = 0 /\ ~Unsettled
  <2>1. CASE f = Header(tx, c.master.out > 0, Len(c.frames))
    BY <1>5, <2>1 DEF Header, New
  <2>2. ASSUME NEW j \in 1 .. Len(c.frames), f = c.frames[j]
        PROVE  /\ f \in FrameSet /\ f.tx = tx
               /\ \/ /\ f.kind = "measure" /\ f.index \in Index /\ carried
                     /\ master.unacked = {} /\ c.master.unacked = {}
                  \/ /\ f.kind = "data" /\ f.index < c.master.next /\ ~carried
                     /\ c.master.out = 0 /\ ~Unsettled
    <3>1. ~(c.frames = <<>> /\ Len(c.frames) = 0)
      BY <2>2
    <3>2. f.kind = "data" => ~Unsettled
      BY <1>1, <2>2
    <3> QED
      BY <1>4, <1>5, <2>2, <3>1, <3>2 DEF New, FrameOf
  <2> QED
    BY <1>5, <2>1, <2>2 DEF New
<1>6. \A i \in DOMAIN air' : \/ i \in DOMAIN air /\ air'[i] = air[i]
                             \/ i > Len(air) /\ New(air'[i], c, tx)
  OBVIOUS
<1>7. heard' \in Heard /\ heard.tx <= heard'.tx /\ heard'.tx <= tx
      /\ (carried => heard'.tx = tx /\ heard'.got = {} /\ ~heard'.joined)
      /\ (~carried => heard' = heard)
  <2>1. CASE carried
    <3>1. heard' = [tx |-> tx, got |-> {}, joined |-> FALSE]
      BY <2>1
    <3>2. heard' \in Heard /\ heard'.tx = tx /\ heard'.got = {} /\ ~heard'.joined
      BY <1>1, <3>1 DEF Heard
    <3> QED
      BY <1>1, <1>3, <2>1, <3>2
  <2>2. CASE ~carried
    BY <1>1, <1>3, <2>2
  <2> QED
    BY <2>1, <2>2
<1> HIDE DEF carried
<1>a. Typed'
  BY <1>2, <1>7 DEF Inv, Typed
<1>b. Bounds'
  <2>1. (master'.up => master'.silent <= MaxRetries)
        /\ (Measuring(master') => Len(ladder') + 1 <= master'.asks)
    BY <1>1, <1>2 DEF Inv, Bounds
  <2>2. slave'.answered <= master'.tx /\ heard'.tx <= master'.tx
    BY <1>1, <1>2, <1>3, <1>7
  <2>3. ASSUME NEW i \in DOMAIN air'
        PROVE  /\ air'[i].tx >= 1 /\ air'[i].tx <= tx
               /\ air'[i].kind = "data" => air'[i].index < c.master.next
               /\ air'[i].kind = "measure" =>
                    air'[i].index \in Index /\ air'[i].tx <= heard'.tx
    <3>1. CASE i \in DOMAIN air /\ air'[i] = air[i]
      <4>1. /\ air[i].tx >= 1
            /\ air[i].kind = "data" => air[i].index < master.next
            /\ air[i].kind = "measure" => air[i].index \in Index /\ air[i].tx <= heard.tx
        BY <3>1 DEF Inv, Bounds
      <4>2. air[i].tx \in Nat /\ air[i].index \in Nat /\ air[i].tx < tx
        BY <1>1, <1>3, <3>1
      <4>3. heard'.tx \in Nat
        BY <1>7 DEF Heard
      <4> QED
        BY <1>1, <1>3, <1>7, <3>1, <4>1, <4>2, <4>3, SMTT(30)
    <3>2. CASE New(air'[i], c, tx)
      <4>1. tx <= tx
        BY <1>1
      <4> QED
        BY <1>3, <1>5, <1>7, <3>2, <4>1
    <3> QED
      BY <1>6, <3>1, <3>2
  <2> QED
    BY <1>2, <2>1, <2>2, <2>3 DEF Bounds
<1>c. InOrder'
  <2>1. ASSUME NEW i \in DOMAIN air', NEW j \in DOMAIN air', i < j
        PROVE  air'[i].tx <= air'[j].tx
    <3>1. CASE j \in DOMAIN air /\ air'[j] = air[j]
      <4>1. i \in DOMAIN air /\ air'[i] = air[i]
        BY <2>1, <3>1
      <4> QED
        BY <2>1, <3>1, <4>1 DEF Inv, InOrder
    <3>2. CASE New(air'[j], c, tx)
      <4>1. air'[j].tx = tx
        BY <3>2 DEF New
      <4>2. CASE i \in DOMAIN air /\ air'[i] = air[i]
        BY <1>1, <1>3, <4>1, <4>2
      <4>3. CASE New(air'[i], c, tx)
        BY <1>1, <4>1, <4>3 DEF New
      <4> QED
        BY <1>6, <4>2, <4>3
    <3> QED
      BY <1>6, <3>1, <3>2
  <2>2. ASSUME NEW i \in DOMAIN air'
        PROVE  slave.anchor <= air'[i].tx /\ slave.of <= air'[i].tx
    <3>1. CASE i \in DOMAIN air /\ air'[i] = air[i]
      BY <3>1 DEF Inv, InOrder
    <3>2. CASE New(air'[i], c, tx)
      BY <1>1, <1>3, <3>2 DEF New
    <3> QED
      BY <1>6, <3>1, <3>2
  <2>3. ASSUME NEW i \in DOMAIN air', air'[i].kind = "header", air'[i].tx = heard'.tx
        PROVE  air'[i].measure /\ air'[i].count > 0
    <3>1. CASE i \in DOMAIN air /\ air'[i] = air[i]
      <4>1. heard' = heard
        BY <1>1, <1>3, <1>7, <2>3, <3>1
      <4> QED
        BY <2>3, <3>1, <4>1 DEF Inv, InOrder
    <3>2. CASE New(air'[i], c, tx)
      <4>1. carried
        BY <1>1, <1>3, <1>7, <2>3, <3>2 DEF New
      <4>2. Len(c.frames) > 0 /\ c.master.out > 0
        BY <1>4, <4>1 DEF carried
      <4> QED
        BY <1>5, <2>3, <3>2, <4>2
    <3> QED
      BY <1>6, <3>1, <3>2
  <2> QED
    BY <1>2, <2>1, <2>2, <2>3 DEF InOrder
<1>d. OneKind'
  <2> SUFFICES ASSUME NEW i \in DOMAIN air', NEW j \in DOMAIN air',
                      air'[j].kind = "measure", air'[i].tx = air'[j].tx
               PROVE  /\ air'[i].kind # "data"
                      /\ air'[i].kind = "header" => air'[i].measure /\ air'[i].count > 0
    BY DEF OneKind
  <2>1. CASE j \in DOMAIN air /\ air'[j] = air[j]
    <3>1. i \in DOMAIN air /\ air'[i] = air[i]
      BY <1>1, <1>3, <1>6, <2>1 DEF New
    <3> QED
      BY <2>1, <3>1 DEF Inv, OneKind
  <2>2. CASE New(air'[j], c, tx)
    <3>1. air'[j].tx = tx /\ carried
      BY <1>5, <2>2
    <3>2. New(air'[i], c, tx)
      BY <1>1, <1>3, <1>6, <3>1
    <3>3. Len(c.frames) > 0 /\ c.master.out > 0
      BY <1>4, <3>1 DEF carried
    <3> QED
      BY <1>5, <3>1, <3>2, <3>3
  <2> QED
    BY <1>6, <2>1, <2>2
<1>e. Known'
  <2>1. ASSUME NEW i \in DOMAIN air', air'[i].kind = "measure", air'[i].tx = slave.anchor,
               slave.anchor > slave.answered
        PROVE  slave.of # 0
    <3>1. i \in DOMAIN air /\ air'[i] = air[i]
      BY <1>1, <1>3, <1>6, <2>1 DEF New
    <3> QED
      BY <1>1, <2>1, <3>1 DEF Known
  <2> QED
    BY <1>1, <1>2, <2>1 DEF Known
<1>f. Asked'
  <2> SUFFICES ASSUME c.master.out > 0, NEW i \in DOMAIN air', air'[i].tx = tx
               PROVE  /\ air'[i].kind # "data"
                      /\ air'[i].kind = "header" => air'[i].measure
    BY <1>1, <1>2, <1>3 DEF Asked
  <2>1. New(air'[i], c, tx)
    BY <1>1, <1>3, <1>6
  <2>2. c.master.out # 0
    BY <2>1
  <2> QED
    BY <1>5, <2>1, <2>2
<1>g. AnswerInv' /\ OwnInv'
  <2>1. AnswerInv'
    BY <1>1, <1>2 DEF AnswerInv
  <2>2. CASE carried
    <3>1. ~Knows(slave', heard')
      BY <1>1, <1>2, <1>3, <1>7, <2>2 DEF Knows
    <3> QED
      BY <1>1, <1>2, <1>7, <2>1, <2>2, <3>1 DEF OwnInv
  <2>3. CASE ~carried
    <3>1. c.master.out > 0 => c.master = master
      BY <1>4, <2>3
    <3> QED
      BY <1>1, <1>2, <1>7, <2>1, <2>3, <3>1 DEF Inv, OwnInv, Knows, Fresh
  <2> QED
    BY <2>2, <2>3
<1>h. HeldInv'
  <2> SUFFICES ASSUME Resolved', NEW g \in DOMAIN slave.harq, slave.harq[g] # "data"
               PROVE  /\ slave.harq[g] = "measure" /\ Unsettled'
                      /\ \A i \in DOMAIN air' : air'[i].kind # "data"
    BY <1>2 DEF HeldInv
  <2>1. Resolved
    BY <1>2 DEF Resolved
  <2>2. slave.harq[g] = "measure" /\ Unsettled
        /\ \A i \in DOMAIN air : air[i].kind # "data"
    BY <2>1 DEF Inv, HeldInv
  <2>3. Unsettled'
    BY <1>1, <2>2
  <2>4. \A i \in DOMAIN air' : air'[i].kind # "data"
    BY <1>5, <1>6, <2>2
  <2> QED
    BY <2>2, <2>3, <2>4
<1>i. ComingInv'
  <2> SUFFICES ASSUME Resolved', NEW i \in DOMAIN air', air'[i].kind = "measure",
                      air'[i].tx > slave.answered
               PROVE  /\ Unsettled'
                      /\ \A j \in DOMAIN air' : i < j => air'[j].kind # "data"
    BY <1>2 DEF ComingInv
  <2>1. Resolved
    BY <1>2 DEF Resolved
  <2>2. CASE i \in DOMAIN air /\ air'[i] = air[i]
    <3>1. Unsettled /\ \A j \in DOMAIN air : i < j => air[j].kind # "data"
      BY <2>1, <2>2 DEF Inv, ComingInv
    <3>2. Unsettled'
      BY <1>1, <3>1
    <3>3. ASSUME NEW j \in DOMAIN air', i < j
          PROVE  air'[j].kind # "data"
      BY <1>5, <1>6, <3>1, <3>3
    <3> QED
      BY <3>2, <3>3
  <2>3. CASE i > Len(air) /\ New(air'[i], c, tx)
    <3>1. carried /\ c.master.unacked = {}
      BY <1>5, <2>3
    <3>2. Unsettled'
      BY <1>2, <3>1 DEF Unsettled, Measuring, carried
    <3>3. ASSUME NEW j \in DOMAIN air', i < j
          PROVE  air'[j].kind # "data"
      <4>1. j > Len(air)
        BY <2>3, <3>3
      <4>2. New(air'[j], c, tx)
        BY <4>1
      <4> QED
        BY <1>5, <3>1, <4>2
    <3> QED
      BY <3>2, <3>3
  <2> QED
    BY <1>6, <2>2, <2>3
<1> QED
  BY <1>1, <1>a, <1>b, <1>c, <1>d, <1>e, <1>f, <1>g, <1>h, <1>i DEF Inv
LEMMA TransmitKeeps ==
  ASSUME Inv, Transmit
  PROVE  Inv'
<1> DEFINE tx == master.tx + 1
           measuring(c) == c.master.out > 0
           header(c) == Header(tx, measuring(c), Len(c.frames))
           M(c) == [c.master EXCEPT !.tx = tx, !.slot = [NoSlot EXCEPT !.on = TRUE, !.tx = tx]]
           carried(c) == measuring(c) /\ c.frames # <<>>
           stopped(c) == IF carried(c) THEN AskAgain(M(c)) ELSE M(c)
           hs(c, elide) == IF elide THEN <<>> ELSE <<header(c)>>
<1>1. PICK c \in Choose(master, tx) :
        \/ master' = stopped(c) /\ UNCHANGED <<air, heard>>
        \/ /\ master' = [stopped(c) EXCEPT !.slot = NoSlot]
           /\ UNCHANGED <<air, heard>>
        \/ /\ master' = M(c)
           /\ \E elide \in BOOLEAN, n \in 0 .. Len(c.frames) :
                air' = air \o hs(c, elide) \o SubSeq(c.frames, 1, n)
           /\ heard' = IF carried(c) THEN [tx |-> tx, got |-> {}, joined |-> FALSE]
                       ELSE heard
  BY DEF Transmit
<1>2. ~master.slot.on /\ UNCHANGED <<slave, answer, ladder>>
  BY DEF Transmit
<1>3. tx \in Nat /\ tx = master.tx + 1
  BY TypeFacts, MasterFacts
<1> HIDE DEF tx
<1>4. /\ c.master \in Masters /\ c.master.slot = master.slot
      /\ c.master.silent = master.silent /\ c.master.up = master.up
      /\ c.master.asks = master.asks /\ c.frames \in Seq(FrameSet) /\ Carries(c, tx)
  BY <1>3, ChooseFacts
<1> DEFINE m == M(c)
           slot == [NoSlot EXCEPT !.on = TRUE, !.tx = tx]
<1>5. /\ m \in Masters /\ m.tx = tx /\ m.slot.on /\ m.slot.tx = tx /\ ~m.slot.heard
      /\ m.silent = master.silent /\ m.up = master.up /\ m.asks = master.asks
      /\ m.queue = c.master.queue /\ m.next = c.master.next /\ m.unacked = c.master.unacked
      /\ m.ask = c.master.ask /\ m.out = c.master.out
  <2>1. NoSlot \in [on : BOOLEAN, tx : Nat, heard : BOOLEAN] /\ NoSlot.heard = FALSE
    BY DEF NoSlot
  <2>2. m = [c.master EXCEPT !.tx = tx, !.slot = slot]
    BY Zenon
  <2>3. /\ slot \in [on : BOOLEAN, tx : Nat, heard : BOOLEAN]
        /\ slot.on /\ slot.tx = tx /\ ~slot.heard
    BY <1>3, <2>1
  <2> HIDE DEF slot, m
  <2>4. /\ m \in Masters /\ m.tx = tx /\ m.slot = slot
        /\ m.silent = c.master.silent /\ m.up = c.master.up /\ m.asks = c.master.asks
        /\ m.queue = c.master.queue /\ m.next = c.master.next /\ m.unacked = c.master.unacked
        /\ m.ask = c.master.ask /\ m.out = c.master.out
    BY <1>3, <1>4, <2>3, <2>2 DEF Masters
  <2> QED
    BY <1>4, <2>3, <2>4 DEF m
<1>6. CASE /\ master' = m
           /\ \E elide \in BOOLEAN, n \in 0 .. Len(c.frames) :
                air' = air \o hs(c, elide) \o SubSeq(c.frames, 1, n)
           /\ heard' = IF carried(c) THEN [tx |-> tx, got |-> {}, joined |-> FALSE]
                       ELSE heard
  <2>1. Keyed(c, tx)
    BY <1>2, <1>5, <1>6 DEF Keyed
  <2>2. PICK elide \in BOOLEAN, n \in 0 .. Len(c.frames) :
          air' = air \o hs(c, elide) \o SubSeq(c.frames, 1, n)
    BY <1>6
  <2> DEFINE h == header(c)
  <2>3. h \in FrameSet /\ h.tx = tx
    <3>1. Len(c.frames) \in Nat
      BY <1>4
    <3> QED
      BY <1>3, <3>1 DEF Header, FrameSet
  <2>4. hs(c, elide) \in {<<>>, <<h>>} /\ air \in Seq(FrameSet)
    BY DEF Inv, Typed
  <2> HIDE DEF h, hs
  <2>5. /\ air' \in Seq(FrameSet) /\ DOMAIN air' = 1 .. Len(air') /\ Len(air') \in Nat
        /\ DOMAIN air = 1 .. Len(air) /\ Len(air) \in Nat
        /\ \A i \in DOMAIN air' :
             \/ i <= Len(air) /\ air'[i] = air[i]
             \/ i > Len(air) /\ (air'[i] = h \/ \E j \in 1 .. Len(c.frames) : air'[i] = c.frames[j])
    <3> DEFINE k == hs(c, elide)
               fs == c.frames
    <3>1. fs \in Seq(FrameSet) /\ n \in 0 .. Len(fs) /\ k \in {<<>>, <<h>>}
          /\ air' = air \o k \o SubSeq(fs, 1, n)
      BY <1>4, <2>2, <2>4
    <3> HIDE DEF k, fs
    <3> DEFINE a == air \o k \o SubSeq(fs, 1, n)
    <3>2. /\ a \in Seq(FrameSet) /\ DOMAIN a = 1 .. Len(a) /\ Len(a) \in Nat
          /\ DOMAIN air = 1 .. Len(air) /\ Len(air) \in Nat
          /\ \A i \in DOMAIN a :
               \/ i <= Len(air) /\ a[i] = air[i]
               \/ i > Len(air) /\ (a[i] = h \/ \E j \in 1 .. Len(fs) : a[i] = fs[j])
      BY <2>3, <2>4, <3>1, AirFacts
    <3>3. air' = a
      BY <3>1
    <3> HIDE DEF a
    <3> QED
      BY <3>2, <3>3 DEF fs
  <2>6. \A j \in 1 .. Len(c.frames) : c.frames[j] \in FrameSet /\ c.frames[j].tx = tx
    BY <1>4 DEF Carries, FrameOf
  <2>7. \A i \in DOMAIN air' : \/ i <= Len(air) /\ air'[i] = air[i]
                               \/ i > Len(air) /\ New(air'[i], c, tx)
    BY <2>3, <2>5, <2>6 DEF New, h
  <2> QED
    BY <1>2, <1>3, <1>5, <1>6, <2>1, <2>5, <2>7, RadiatedKeeps
<1> DEFINE s == stopped(c)
<1>7. /\ s \in Masters /\ s.tx = tx /\ s.slot = m.slot
      /\ s.silent = master.silent /\ s.up = master.up /\ s.asks = master.asks
      /\ s.queue = c.master.queue /\ s.next = c.master.next /\ s.unacked = c.master.unacked
      /\ carried(c) => s.ask = c.master.out /\ s.out = 0
      /\ ~carried(c) => s.ask = c.master.ask /\ s.out = c.master.out
  <2>1. CASE carried(c)
    <3>1. ~(m.ask > 0 /\ m.out > 0)
      <4>1. ~(master.ask > 0 /\ master.out > 0)
        BY TypeFacts
      <4>2. ~(c.master.ask > 0 /\ c.master.out > 0)
        BY <1>4, <4>1 DEF Carries
      <4> QED
        BY <1>5, <4>2
    <3> DEFINE a == AskAgain(m)
    <3>2. s = a
      BY <2>1
    <3> HIDE DEF m
    <3>3. /\ SameButReport(m, a) /\ a.unacked = m.unacked /\ a.out = 0
          /\ a.ask = IF m.out > 0 THEN m.out ELSE m.ask
      BY <1>5, <3>1, AskAgainFacts
    <3>4. m.out > 0
      BY <1>5, <2>1
    <3> HIDE DEF a, s
    <3> QED
      BY <1>5, <2>1, <3>2, <3>3, <3>4 DEF SameButReport
  <2>2. CASE ~carried(c)
    <3>1. s = m
      BY <2>2
    <3> HIDE DEF s, m
    <3> QED
      BY <1>5, <2>2, <3>1
  <2> QED
    BY <2>1, <2>2
<1> HIDE DEF s, m
<1>8. CASE master' = s /\ UNCHANGED <<air, heard>>
  <2>1. Keyed(c, tx)
    BY <1>2, <1>5, <1>7, <1>8 DEF Keyed
  <2> QED
    BY <1>2, <1>3, <1>7, <1>8, <2>1, DroppedKeeps
<1>9. CASE master' = [s EXCEPT !.slot = NoSlot] /\ UNCHANGED <<air, heard>>
  <2>1. NoSlot \in [on : BOOLEAN, tx : Nat, heard : BOOLEAN] /\ ~NoSlot.on
    BY DEF NoSlot
  <2>2. /\ master' \in Masters /\ master'.tx = s.tx /\ master'.slot = NoSlot
        /\ master'.silent = s.silent /\ master'.up = s.up /\ master'.asks = s.asks
        /\ master'.queue = s.queue /\ master'.next = s.next /\ master'.unacked = s.unacked
        /\ master'.ask = s.ask /\ master'.out = s.out
    BY <1>7, <1>9, <2>1 DEF Masters
  <2>3. Keyed(c, tx)
    BY <1>2, <1>7, <2>1, <2>2 DEF Keyed
  <2> QED
    BY <1>2, <1>3, <1>7, <1>9, <2>2, <2>3, DroppedKeeps
<1> QED
  BY <1>1, <1>6, <1>8, <1>9 DEF s, m

-----------------------------------------------------------------------------

LEMMA NextKeeps ==
  ASSUME Inv, [Next]_vars
  PROVE  Inv'
<1>1. CASE UNCHANGED vars
  <2>1. /\ master' = master /\ slave' = slave /\ air' = air /\ answer' = answer
        /\ ladder' = ladder /\ heard' = heard
    BY <1>1 DEF vars
  <2>2. Typed' /\ TypeOK' /\ Bounds' /\ InOrder' /\ OneKind' /\ Known' /\ Asked'
    BY <2>1, ZenonT(40) DEF Inv, Typed, TypeOK, Bounds, InOrder, OneKind, Known, Asked
  <2>3. AnswerInv' /\ OwnInv' /\ HeldInv' /\ ComingInv' /\ AckedIsReceived' /\ LadderIsOwn'
    BY <2>1 DEF Inv, AnswerInv, OwnInv, HeldInv, ComingInv, Resolved, Unsettled,
                AckedIsReceived, LadderIsOwn
  <2> QED
    BY <2>2, <2>3 DEF Inv
<1>2. CASE Next
  BY <1>2, MeasureKeeps, SendKeeps, TransmitKeeps, ReadHeaderKeeps, ReadDataKeeps,
     ReadFailedKeeps, LoseKeeps, AnswerKeeps, ReadAnswerKeeps, LoseAnswerKeeps, CloseKeeps
     DEF Next
<1> QED
  BY <1>1, <1>2

LEMMA InvHolds == Spec => []Inv
<1>1. Init => Inv
  BY InitInv
<1>2. Inv /\ [Next]_vars => Inv'
  BY NextKeeps
<1> QED
  BY <1>1, <1>2, PTL DEF Spec

\* The two ends keep to their bounds: a measurement is asked for or out and never
\* both, nothing is acknowledged that was not numbered, every buffer is for a block
\* that may still come, and no more rungs are recorded than were asked for
\* (measure, data_frames, take_ack, close_slot).
THEOREM MeasurementTypeCorrect == Spec => []TypeOK
<1>1. Inv => TypeOK
  BY DEF Inv
<1> QED
  BY <1>1, InvHolds, PTL

\* A rung is credited with its own frames (measurement_heard, measurement_unheard):
\* however transmissions, frames and answers are lost, what the ladder counts the
\* slave decoded of that rung's last transmission, unless the slave took it for
\* more of a measurement whose end it never knew.
THEOREM LadderIsOwnHolds == Spec => []LadderIsOwn
<1>1. Inv => LadderIsOwn
  BY DEF Inv
<1> QED
  BY <1>1, InvHolds, PTL

\* Data is never combined with a measurement's codeword (measurement_heard drops
\* what is held to combine): unless a measurement has been recorded unheard.
THEOREM CombinedIsDataHolds == Spec => []CombinedIsData
<1>1. Inv => CombinedIsData
  <2> SUFFICES ASSUME Inv, NEW g \in DOMAIN slave.harq, slave.harq[g] = "mixed",
                      ~\E i \in 1 .. Len(ladder) : ~ladder[i].snr
               PROVE  FALSE
    BY DEF CombinedIsData
  <2>1. DOMAIN ladder = 1 .. Len(ladder)
    BY DEF Inv, Typed
  <2>2. Resolved
    BY <2>1 DEF Resolved
  <2>3. slave.harq[g] = "measure"
    BY <2>2 DEF Inv, HeldInv
  <2> QED
    BY <2>3
<1> QED
  BY <1>1, InvHolds, PTL

\* A report is never read as an acknowledgement, nor an acknowledgement as a report
\* (take_ack): what the master no longer holds to send again, the slave has.
THEOREM MeasurementAckedIsReceived == Spec => []AckedIsReceived
<1>1. Inv => AckedIsReceived
  BY DEF Inv
<1> QED
  BY <1>1, InvHolds, PTL
=============================================================================
