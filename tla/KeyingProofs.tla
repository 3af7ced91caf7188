----------------------------- MODULE KeyingProofs -----------------------------
(***************************************************************************)
(* Proofs about Keying, for every value of its constants.                  *)
(***************************************************************************)
EXTENDS Keying, InductionFacts, SequenceTheorems

-----------------------------------------------------------------------------
\* The channels.

UndoneOf(s, q) == (IF s = "nothing" THEN <<>> ELSE <<s>>) \o q
OwedOf(r, s, q) == [i \in 1 .. Len(r) |-> r[i].op] \o UndoneOf(s, q)

LEMMA Channels ==
  /\ Undone = UndoneOf(serving, requests) /\ Undone' = UndoneOf(serving', requests')
  /\ Owed = OwedOf(replies, serving, requests)
  /\ Owed' = OwedOf(replies', serving', requests')
BY DEF Undone, Serving, Owed, UndoneOf, OwedOf

\* What the thread has the port doing is the oldest request not carried out.
LEMMA UndoneFacts ==
  ASSUME NEW q \in Seq(Ops), NEW s \in Ops \cup {"nothing"}
  PROVE  /\ UndoneOf(s, q) \in Seq(Ops)
         /\ s = "nothing" => UndoneOf(s, q) = q
         /\ s # "nothing" => /\ Len(UndoneOf(s, q)) = Len(q) + 1
                             /\ UndoneOf(s, q)[1] = s
                             /\ \A i \in 1 .. Len(q) : UndoneOf(s, q)[i + 1] = q[i]
<1>1. CASE s = "nothing"
  BY <1>1 DEF UndoneOf
<1>2. CASE s # "nothing"
  <2>1. <<s>> \in Seq(Ops)
    BY <1>2
  <2>2. UndoneOf(s, q) = <<s>> \o q
    BY <1>2 DEF UndoneOf
  <2> QED
    BY <1>2, <2>1, <2>2
<1> QED
  BY <1>1, <1>2

\* The last thing owed is the last request not carried out, or the last reply.
LEMMA OwedFacts ==
  ASSUME NEW r \in Seq(Replies), NEW q \in Seq(Ops), NEW s \in Ops \cup {"nothing"}
  PROVE  LET u == UndoneOf(s, q)
             o == OwedOf(r, s, q)
         IN  /\ Len(o) = Len(r) + Len(u)
             /\ u # <<>> => Last(o) = Last(u)
             /\ u = <<>> /\ r # <<>> => Last(o) = r[Len(r)].op
             /\ o = <<>> <=> Len(o) = 0
<1> DEFINE u == UndoneOf(s, q)
           w == [i \in 1 .. Len(r) |-> r[i].op]
<1>1. u \in Seq(Ops)
  BY UndoneFacts
<1>2. w \in Seq(Ops) /\ Len(w) = Len(r)
  <2>1. \A i \in 1 .. Len(r) : r[i].op \in Ops
    <3>1. \A i \in 1 .. Len(r) : r[i] \in Replies
      OBVIOUS
    <3> QED
      BY <3>1 DEF Replies
  <2>2. Len(r) \in Nat /\ w \in [1 .. Len(r) -> Ops]
    BY <2>1
  <2> QED
    BY <2>2, SeqDef
<1>3. OwedOf(r, s, q) = w \o u
  BY DEF OwedOf
<1> HIDE DEF u
<1>4. Len(w \o u) = Len(r) + Len(u)
  BY <1>1, <1>2
<1>5. ASSUME u # <<>>
      PROVE  Last(w \o u) = Last(u)
  BY <1>1, <1>2, <1>5 DEF Last
<1>6. ASSUME u = <<>>, r # <<>>
      PROVE  Last(w \o u) = r[Len(r)].op
  <2>1. w \o u = w /\ Len(r) \in 1 .. Len(r)
    BY <1>2, <1>6
  <2> QED
    BY <1>2, <2>1 DEF Last
<1>7. w \o u = <<>> <=> Len(w \o u) = 0
  BY <1>1, <1>2
<1> QED
  BY <1>3, <1>4, <1>5, <1>6, <1>7 DEF u

\* What Kept returns: the reading of a reply, or the last one before.
LEMMA KeptType ==
  ASSUME TypeOK, NEW taken \in Seq(Replies)
  PROVE  Kept(taken) \in Times \cup {NoTime}
<1> DEFINE readings == {i \in DOMAIN taken : taken[i].reading # NoTime}
<1>1. CASE readings = {}
  BY <1>1 DEF Kept, TypeOK
<1>2. CASE readings # {}
  <2>1. Len(taken) \in Nat /\ readings \subseteq 0 .. Len(taken)
    OBVIOUS
  <2>2. Max(readings) \in readings
    <3> HIDE DEF readings
    <3> QED
      BY <1>2, <2>1, MaxOfBounded
  <2>3. taken[Max(readings)] \in Replies
    BY <2>2
  <2> QED
    BY <1>2, <2>3 DEF Kept, Replies
<1> QED
  BY <1>1, <1>2

-----------------------------------------------------------------------------
\* Type correctness: what the run loop does with an answer.

\* The calls the run loop makes, and what for.
CallInv ==
  \/ call = NoCall
  \/ call.op = "read" /\ call.then \in {"display", "judge"}
  \/ call.op = "tune" /\ call.then = "tune"
  \/ call.op = "key" /\ call.then = "key"
  \/ call.op = "unkey" /\ call.then \in {"late", "finish", "poll", "cleared", "cardlate", "abandon"}

LoopOK ==
  /\ {watching, tripped, transmitting} \subseteq BOOLEAN
  /\ call \in Calls /\ CallInv
  /\ dial \in Dials

LEMMA NoCallType == NoCall \in Calls /\ ~NoCall.waiting
BY DEF NoCall, Calls, Ops, Reasons

LEMMA CallingType ==
  ASSUME NEW op \in Ops, NEW then \in Reasons
  PROVE  /\ Calling(op, then) \in Calls /\ ~Calling(op, then).waiting
         /\ Calling(op, then).op = op /\ Calling(op, then).then = then
         /\ Calling(op, then) # NoCall
BY DEF NoCall, Calling, Calls, Ops, Reasons

LEMMA TypeOKParts ==
  TypeOK => /\ watching \in BOOLEAN /\ tripped \in BOOLEAN /\ transmitting \in BOOLEAN
            /\ believed \in BOOLEAN /\ keyed \in BOOLEAN /\ refused \in BOOLEAN
            /\ call \in Calls /\ dial \in Dials /\ now \in Times
            /\ now \in Nat /\ AskEvery \in Nat /\ AskAfterNone \in Nat /\ AskAfterTune \in Nat
BY BoundsAreCounts DEF TypeOK, Times

Ends(then) == call' = Calling("unkey", then)

LEMMA EndsType ==
  ASSUME NEW then \in {"late", "finish", "poll", "cleared", "cardlate", "abandon"}, Ends(then)
  PROVE  call' \in Calls /\ CallInv' /\ ~call'.waiting
<1>1. "unkey" \in Ops /\ then \in Reasons
  BY DEF Ops, Reasons
<1> QED
  BY <1>1, CallingType DEF Ends, CallInv

LEMMA ReturnType ==
  ASSUME TypeOK, CallInv, NEW ok \in BOOLEAN, NEW reading \in Times \cup {NoTime},
         Return(ok, reading)
  PROVE  LoopOK' /\ ~call'.waiting
<1>1. CASE KeyReturns(ok)
  <2>1. Ends("abandon") \/ Ends("late") \/ call' = NoCall
    BY <1>1 DEF KeyReturns, Abandon, Ends
  <2>2. watching' \in BOOLEAN /\ tripped' \in BOOLEAN /\ transmitting' \in BOOLEAN /\ dial' \in Dials
    BY <1>1, TypeOKParts DEF KeyReturns, Abandon
  <2> QED
    BY <2>1, <2>2, EndsType, NoCallType DEF LoopOK, CallInv
<1>2. CASE ReleaseReturns(ok)
  <2>1. Ends("abandon") \/ call' = NoCall
    BY <1>2 DEF ReleaseReturns, Abandon, Ends
  <2>2. watching' \in BOOLEAN /\ tripped' \in BOOLEAN /\ transmitting' \in BOOLEAN /\ dial' \in Dials
    BY <1>2, TypeOKParts DEF ReleaseReturns, Abandon
  <2> QED
    BY <2>1, <2>2, EndsType, NoCallType DEF LoopOK, CallInv
<1>3. CASE TripReturns(ok)
  <2>1. Ends("cleared") \/ Ends("abandon")
    BY <1>3 DEF TripReturns, Abandon, Ends
  <2>2. watching' \in BOOLEAN /\ tripped' \in BOOLEAN /\ transmitting' \in BOOLEAN /\ dial' \in Dials
    BY <1>3, TypeOKParts DEF TripReturns, Abandon
  <2> QED
    BY <2>1, <2>2, EndsType DEF LoopOK
<1>4. CASE ReadReturns(reading)
  <2>1. \/ Ends("abandon") \/ call' = NoCall
        \/ call' = Calling("key", "key")
    BY <1>4 DEF ReadReturns, Judged, CallKey, Ends
  <2>2. watching' \in BOOLEAN /\ tripped' \in BOOLEAN /\ transmitting' \in BOOLEAN
    BY <1>4, TypeOKParts DEF ReadReturns, Judged, CallKey, watchdog
  <2>3. dial' \in Dials
    <3>1. \/ dial' = [readAt |-> now, taken |-> reading, nextAsk |-> now + AskEvery]
          \/ dial' = [dial EXCEPT !.nextAsk = now + AskAfterNone]
          \/ dial' = dial
      BY <1>4 DEF ReadReturns
    <3>2. now + AskEvery \in Nat /\ now + AskAfterNone \in Nat
      BY TypeOKParts
    <3> QED
      BY <3>1, <3>2, TypeOKParts DEF Dials
  <2>4. "key" \in Ops /\ "key" \in Reasons
    BY DEF Ops, Reasons
  <2> QED
    BY <2>1, <2>2, <2>3, <2>4, EndsType, NoCallType, CallingType DEF LoopOK, CallInv
<1>5. CASE TuneReturns(ok)
  <2>1. dial' \in Dials
    BY <1>5, TypeOKParts DEF TuneReturns, Dials
  <2>2. watching' = watching /\ tripped' = tripped /\ transmitting' = transmitting
    BY <1>5 DEF TuneReturns, watchdog
  <2> QED
    BY <1>5, <2>1, <2>2, TypeOKParts, NoCallType DEF TuneReturns, LoopOK, CallInv
<1> QED
  BY <1>1, <1>2, <1>3, <1>4, <1>5 DEF Return

-----------------------------------------------------------------------------
\* Type correctness.

LEMMA TypeInit == Init => TypeOK /\ CallInv
<1> SUFFICES ASSUME Init
             PROVE  TypeOK /\ CallInv
  OBVIOUS
<1>1. 0 \in Times /\ NoTime \in Times \cup {NoTime}
  BY BoundsAreCounts DEF Times
<1>2. question \in Questions /\ dial \in Dials
  BY <1>1 DEF Init, Questions, Dials
<1>3. requests \in Seq(Ops) /\ replies \in Seq(Replies)
  BY DEF Init
<1>4. {believed, keyed, refused, watching, tripped, transmitting} \subseteq BOOLEAN
  BY DEF Init
<1> QED
  BY <1>1, <1>2, <1>3, <1>4, NoCallType DEF Init, TypeOK, CallInv

LEMMA TypeWorker ==
  ASSUME TypeOK, CallInv, Worker
  PROVE  TypeOK' /\ CallInv'
<1> USE DEF port, watchdog
<1>1. CASE TakeRequest
  <2>1. Head(requests) \in Ops /\ Tail(requests) \in Seq(Ops)
    BY <1>1 DEF TypeOK, TakeRequest
  <2> QED
    BY <1>1, <2>1 DEF TypeOK, CallInv, TakeRequest
<1>2. CASE TakeQuestion
  <2>1. question' \in Questions
    BY <1>2 DEF TakeQuestion, TypeOK, Questions
  <2> QED
    BY <1>2, <2>1 DEF TypeOK, CallInv, TakeQuestion
<1>3. CASE AnswerQuestion
  <2>1. question' \in Questions
    BY <1>3 DEF AnswerQuestion, TypeOK, Questions
  <2> QED
    BY <1>3, <2>1 DEF TypeOK, CallInv, AnswerQuestion
<1>4. ASSUME NEW ok \in BOOLEAN, NEW reading \in Times \cup {NoTime},
             serving \in Ops, Answered(ok, reading),
             believed' \in BOOLEAN, keyed' \in BOOLEAN, refused' \in BOOLEAN
      PROVE  TypeOK' /\ CallInv'
  <2>1. [op |-> serving, ok |-> ok, reading |-> reading] \in Replies
    BY <1>4 DEF Replies
  <2>2. replies' \in Seq(Replies)
    BY <1>4, <2>1 DEF TypeOK, Answered
  <2> QED
    BY <1>4, <2>2 DEF TypeOK, CallInv, Answered
<1>5. NoTime \in Times \cup {NoTime}
  OBVIOUS
<1>6. ASSUME NEW ok \in BOOLEAN, KeyDone(ok)
      PROVE  TypeOK' /\ CallInv'
  <2>1. serving \in Ops /\ believed' \in BOOLEAN /\ keyed' \in BOOLEAN /\ refused' \in BOOLEAN
    BY <1>6, TypeOKParts DEF KeyDone, Ops
  <2> QED
    BY <1>4, <1>5, <1>6, <2>1 DEF KeyDone
<1>7. ASSUME NEW ok \in BOOLEAN, UnkeyDone(ok)
      PROVE  TypeOK' /\ CallInv'
  <2>1. serving \in Ops /\ believed' \in BOOLEAN /\ keyed' \in BOOLEAN /\ refused' \in BOOLEAN
    BY <1>7, TypeOKParts DEF UnkeyDone, Ops
  <2> QED
    BY <1>4, <1>5, <1>7, <2>1 DEF UnkeyDone
<1>8. CASE ReadDone
  <2>1. PICK reading \in {now, NoTime} : Answered(TRUE, reading)
    BY <1>8 DEF ReadDone
  <2>2. /\ serving \in Ops /\ reading \in Times \cup {NoTime}
        /\ believed' \in BOOLEAN /\ keyed' \in BOOLEAN /\ refused' \in BOOLEAN
    BY <1>8, TypeOKParts DEF ReadDone, Ops
  <2> QED
    BY <1>4, <2>1, <2>2
<1>9. ASSUME NEW ok \in BOOLEAN, TuneDone(ok)
      PROVE  TypeOK' /\ CallInv'
  <2>1. serving \in Ops /\ believed' \in BOOLEAN /\ keyed' \in BOOLEAN /\ refused' \in BOOLEAN
    BY <1>9, TypeOKParts DEF TuneDone, Ops
  <2> QED
    BY <1>4, <1>5, <1>9, <2>1 DEF TuneDone
<1> QED
  BY <1>1, <1>2, <1>3, <1>6, <1>7, <1>8, <1>9 DEF Worker

\* The run loop between two calls.
LEMMA TypeCalls ==
  ASSUME TypeOK, CallInv,
         \/ Judge \/ Display \/ TuneTo \/ Poll
         \/ \E then \in {"finish", "cardlate", "abandon"} : Finish(then)
  PROVE  TypeOK' /\ CallInv' /\ ~call'.waiting
<1> USE DEF port, watchdog
<1>1. /\ UNCHANGED <<port, question, pending, lastRead, watchdog, dial, now>>
      /\ transmitting' \in BOOLEAN
  BY TypeOKParts DEF Judge, Display, TuneTo, Poll, Finish, Judged, CallKey
<1>2. call' \in Calls /\ CallInv' /\ ~call'.waiting
  <2>1. \/ Ends("finish") \/ Ends("cardlate") \/ Ends("abandon") \/ Ends("poll")
        \/ call' = NoCall
        \/ call' = Calling("key", "key")
        \/ call' = Calling("tune", "tune")
        \/ call' = Calling("read", "judge") \/ call' = Calling("read", "display")
    BY DEF Judge, Display, TuneTo, Poll, Finish, Judged, CallKey, Ends
  <2>2. /\ {"key", "tune", "read"} \subseteq Ops
        /\ {"key", "tune", "judge", "display"} \subseteq Reasons
    BY DEF Ops, Reasons
  <2> QED
    BY <2>1, <2>2, EndsType, NoCallType, CallingType DEF CallInv
<1> QED
  BY <1>1, <1>2 DEF TypeOK

LEMMA TypeReadRadio ==
  ASSUME TypeOK, CallInv, ReadRadio
  PROVE  TypeOK' /\ CallInv'
<1> DEFINE at == question.reading
<1>1. at \in Times \cup {NoTime}
  BY DEF TypeOK, Questions
<1>2. question' \in Questions
  BY DEF ReadRadio, Questions
<1>3. lastRead' \in Times \cup {NoTime}
  BY <1>1 DEF ReadRadio, TypeOK
<1>4. dial' \in Dials
  <2>1. CASE question.at = "answered" /\ question.reading # NoTime
    <3>1. at \in Times /\ at \in Nat
      BY <1>1, <2>1 DEF Times
    <3>2. dial.nextAsk \in Nat /\ at + AskEvery \in Nat
      BY <3>1, TypeOKParts DEF Dials
    <3> DEFINE next == IF dial.nextAsk > at + AskEvery THEN dial.nextAsk ELSE at + AskEvery
    <3>3. dial' = [readAt |-> at, taken |-> at, nextAsk |-> next] /\ next \in Nat
      BY <2>1, <3>2 DEF ReadRadio
    <3> HIDE DEF next
    <3> QED
      BY <3>1, <3>3 DEF Dials
  <2>2. CASE ~(question.at = "answered" /\ question.reading # NoTime)
    BY <2>2, TypeOKParts DEF ReadRadio
  <2> QED
    BY <2>1, <2>2
<1> QED
  BY <1>2, <1>3, <1>4 DEF ReadRadio, TypeOK, CallInv, port, watchdog

-----------------------------------------------------------------------------
\* The replies are ours.  What is owed changes only where the proxy sends or takes.

\* Taking a request leaves what is undone and owed as it was; doing it moves it
\* from what is undone to the replies.
LEMMA RequestTaken ==
  ASSUME NEW q \in Seq(Ops), q # <<>>
  PROVE  UndoneOf(Head(q), Tail(q)) = UndoneOf("nothing", q)
<1>1. Head(q) \in Ops /\ Tail(q) \in Seq(Ops) /\ Head(q) # "nothing"
  BY DEF Ops
<1>2. UndoneOf(Head(q), Tail(q)) = <<Head(q)>> \o Tail(q)
  BY <1>1 DEF UndoneOf
<1>3. <<Head(q)>> \o Tail(q) = q
  BY <1>1
<1> QED
  BY <1>2, <1>3, UndoneFacts

LEMMA RequestDone ==
  ASSUME NEW r \in Seq(Replies), NEW q \in Seq(Ops), NEW s \in Ops,
         NEW reply \in Replies, reply.op = s
  PROVE  /\ Len(OwedOf(Append(r, reply), "nothing", q)) = Len(OwedOf(r, s, q))
         /\ Last(OwedOf(Append(r, reply), "nothing", q)) = Last(OwedOf(r, s, q))
         /\ OwedOf(Append(r, reply), "nothing", q) # <<>>
<1> DEFINE r2 == Append(r, reply)
<1>1. r2 \in Seq(Replies) /\ Len(r2) = Len(r) + 1 /\ r2 # <<>> /\ r2[Len(r2)] = reply
  OBVIOUS
<1>2. s # "nothing"
  BY DEF Ops
<1> HIDE DEF r2
<1>3. /\ UndoneOf("nothing", q) = q
      /\ UndoneOf(s, q) \in Seq(Ops)
      /\ Len(UndoneOf(s, q)) = Len(q) + 1
      /\ UndoneOf(s, q)[1] = s
      /\ \A i \in 1 .. Len(q) : UndoneOf(s, q)[i + 1] = q[i]
  BY <1>2, UndoneFacts
<1>4. /\ Len(OwedOf(r2, "nothing", q)) = Len(r2) + Len(q)
      /\ q # <<>> => Last(OwedOf(r2, "nothing", q)) = Last(q)
      /\ q = <<>> => Last(OwedOf(r2, "nothing", q)) = s
      /\ OwedOf(r2, "nothing", q) = <<>> <=> Len(OwedOf(r2, "nothing", q)) = 0
  BY <1>1, <1>3, OwedFacts, SMTT(30)
<1>5. /\ Len(OwedOf(r, s, q)) = Len(r) + (Len(q) + 1)
      /\ Last(OwedOf(r, s, q)) = Last(UndoneOf(s, q))
  BY <1>3, OwedFacts
<1>6. /\ q # <<>> => Last(UndoneOf(s, q)) = Last(q)
      /\ q = <<>> => Last(UndoneOf(s, q)) = s
  <2>1. Last(UndoneOf(s, q)) = UndoneOf(s, q)[Len(q) + 1]
    BY <1>3 DEF Last
  <2>2. q # <<>> => Len(q) \in 1 .. Len(q)
    OBVIOUS
  <2> QED
    BY <1>3, <2>1, <2>2 DEF Last
<1>7. Len(r) \in Nat /\ Len(q) \in Nat
  OBVIOUS
<1> QED
  BY <1>1, <1>4, <1>5, <1>6, <1>7 DEF r2

LEMMA RequestSent ==
  ASSUME NEW q \in Seq(Ops), NEW s \in Ops \cup {"nothing"}, NEW op \in Ops
  PROVE  UndoneOf(s, Append(q, op)) = Append(UndoneOf(s, q), op)
<1>1. CASE s = "nothing"
  <2>1. Append(q, op) \in Seq(Ops)
    OBVIOUS
  <2>2. UndoneOf(s, Append(q, op)) = Append(q, op)
    BY <1>1, <2>1, UndoneFacts
  <2>3. UndoneOf(s, q) = q
    BY <1>1, UndoneFacts
  <2> QED
    BY <2>2, <2>3
<1>2. CASE s # "nothing"
  <2>1. UndoneOf(s, q) = <<s>> \o q /\ UndoneOf(s, Append(q, op)) = <<s>> \o Append(q, op)
    BY <1>2 DEF UndoneOf
  <2>2. <<s>> \in Seq(Ops)
    BY <1>2
  <2>3. <<s>> \o Append(q, op) = Append(<<s>> \o q, op)
    BY <2>2
  <2> QED
    BY <2>1, <2>3
<1> QED
  BY <1>1, <1>2

LEMMA OwedTail ==
  ASSUME NEW r \in Seq(Replies), NEW q \in Seq(Ops), NEW s \in Ops \cup {"nothing"}, r # <<>>
  PROVE  /\ Len(OwedOf(Tail(r), s, q)) = Len(OwedOf(r, s, q)) - 1
         /\ Len(OwedOf(r, s, q)) # 1 =>
               /\ Last(OwedOf(Tail(r), s, q)) = Last(OwedOf(r, s, q))
               /\ OwedOf(Tail(r), s, q) # <<>>
<1> DEFINE u == UndoneOf(s, q)
           o == OwedOf(r, s, q)
           t == OwedOf(Tail(r), s, q)
<1>1. /\ Tail(r) \in Seq(Replies) /\ Len(Tail(r)) = Len(r) - 1
      /\ Tail(r) # <<>> => Tail(r)[Len(Tail(r))] = r[Len(r)]
  OBVIOUS
<1>2. /\ Len(o) = Len(r) + Len(u)
      /\ u # <<>> => Last(o) = Last(u)
      /\ u = <<>> => Last(o) = r[Len(r)].op
  BY OwedFacts
<1>3. /\ Len(t) = Len(Tail(r)) + Len(u)
      /\ u # <<>> => Last(t) = Last(u)
      /\ u = <<>> /\ Tail(r) # <<>> => Last(t) = Tail(r)[Len(Tail(r))].op
      /\ t = <<>> <=> Len(t) = 0
  BY <1>1, OwedFacts
<1>4. u \in Seq(Ops) /\ Len(u) \in Nat /\ Len(r) \in Nat /\ (u = <<>> <=> Len(u) = 0)
  BY UndoneFacts
<1>5. Tail(r) = <<>> <=> Len(r) = 1
  <2>1. Tail(r) = <<>> <=> Len(Tail(r)) = 0
    BY <1>1, EmptySeq
  <2> QED
    BY <1>1, <2>1
<1> HIDE DEF u, o, t
<1>6. Len(t) = Len(o) - 1
  BY <1>1, <1>2, <1>3, <1>4
<1>7. ASSUME Len(o) # 1
      PROVE  Last(t) = Last(o) /\ t # <<>>
  BY <1>1, <1>2, <1>3, <1>4, <1>5, <1>6, <1>7
<1> QED
  BY <1>6, <1>7 DEF o, t


\* The keying thread moves what is owed, and changes none of it.
LEMMA ReplyWorker ==
  ASSUME TypeOK, ReplyIsOurs, Worker
  PROVE  ReplyIsOurs'
<1> USE DEF port, watchdog
<1>1. /\ requests \in Seq(Ops) /\ replies \in Seq(Replies) /\ serving \in Ops \cup {"nothing"}
      /\ pending \in Nat
  BY DEF TypeOK
<1>2. CASE TakeRequest
  <2>1. UndoneOf(serving', requests') = UndoneOf(serving, requests)
    BY <1>1, <1>2, RequestTaken DEF TakeRequest
  <2>2. Owed' = Owed
    BY <1>2, <2>1, Channels DEF TakeRequest, OwedOf
  <2> QED
    BY <1>2, <2>2 DEF TakeRequest, ReplyIsOurs
<1>3. CASE TakeQuestion \/ AnswerQuestion
  <2>1. UNCHANGED <<requests, serving, replies, pending, call>>
    BY <1>3 DEF TakeQuestion, AnswerQuestion
  <2>2. Owed' = Owed
    BY <2>1, Channels
  <2> QED
    BY <2>1, <2>2 DEF ReplyIsOurs
<1>4. ASSUME serving # "nothing", NEW ok \in BOOLEAN, NEW reading \in Times \cup {NoTime},
             Answered(ok, reading)
      PROVE  ReplyIsOurs'
  <2> DEFINE reply == [op |-> serving, ok |-> ok, reading |-> reading]
  <2>1. serving \in Ops /\ reply \in Replies /\ reply.op = serving
    BY <1>1, <1>4 DEF Replies
  <2>2. replies' = Append(replies, reply) /\ serving' = "nothing" /\ requests' = requests
    BY <1>4 DEF Answered
  <2> HIDE DEF reply
  <2>3. /\ Len(OwedOf(Append(replies, reply), "nothing", requests))
             = Len(OwedOf(replies, serving, requests))
        /\ Last(OwedOf(Append(replies, reply), "nothing", requests))
             = Last(OwedOf(replies, serving, requests))
        /\ OwedOf(Append(replies, reply), "nothing", requests) # <<>>
    BY <1>1, <2>1, RequestDone
  <2>4. Len(Owed') = Len(Owed) /\ Last(Owed') = Last(Owed) /\ Owed' # <<>>
    BY <2>2, <2>3, Channels
  <2> QED
    BY <1>4, <2>4 DEF Answered, ReplyIsOurs
<1>5. NoTime \in Times \cup {NoTime} /\ now \in Times \cup {NoTime} /\ TRUE \in BOOLEAN
  BY DEF TypeOK
<1>6. ASSUME NEW ok \in BOOLEAN, KeyDone(ok) \/ UnkeyDone(ok) \/ TuneDone(ok)
      PROVE  ReplyIsOurs'
  <2>1. serving # "nothing" /\ Answered(ok, NoTime)
    BY <1>6 DEF KeyDone, UnkeyDone, TuneDone
  <2> QED
    BY <1>4, <1>5, <2>1
<1>7. CASE ReadDone
  <2>1. serving # "nothing"
    BY <1>7 DEF ReadDone
  <2>2. PICK reading \in {now, NoTime} : Answered(TRUE, reading)
    BY <1>7 DEF ReadDone
  <2> QED
    BY <1>4, <1>5, <2>1, <2>2
<1> QED
  BY <1>2, <1>3, <1>6, <1>7 DEF Worker

-----------------------------------------------------------------------------
\* ThreadedPtt::exchange: types and replies together.

LEMMA SendKeeps ==
  ASSUME TypeOK, CallInv, ReplyIsOurs, Send
  PROVE  TypeOK' /\ CallInv' /\ ReplyIsOurs'
<1> USE DEF watchdog
<1>1. /\ requests \in Seq(Ops) /\ replies \in Seq(Replies) /\ serving \in Ops \cup {"nothing"}
      /\ pending \in Nat /\ call \in Calls
  BY DEF TypeOK
<1> DEFINE left == pending - Len(replies)
           u == UndoneOf(serving, requests)
<1>2. u \in Seq(Ops) /\ left = Len(u) /\ left \in Nat
  <2>1. u \in Seq(Ops)
    BY <1>1, UndoneFacts
  <2>2. pending = Len(replies) + Len(u)
    BY <1>1, OwedFacts, Channels DEF ReplyIsOurs
  <2> QED
    BY <1>1, <2>1, <2>2
<1>3. /\ replies' = <<>> /\ <<>> \in Seq(Replies)
      /\ lastRead' \in Times \cup {NoTime}
      /\ UNCHANGED <<serving, believed, keyed, refused, question, now>>
  BY <1>1, KeptType DEF Send
<1>4. ASSUME left > 0, call.op # "unkey", pending' = left, requests' = requests,
             Return(FALSE, lastRead')
      PROVE  TypeOK' /\ CallInv' /\ ReplyIsOurs'
  <2>1. LoopOK' /\ ~call'.waiting
    BY <1>3, <1>4, ReturnType
  <2>2. Len(Owed') = Len(u)
    <3>1. requests' \in Seq(Ops) /\ serving' \in Ops \cup {"nothing"} /\ replies' \in Seq(Replies)
      BY <1>1, <1>3, <1>4
    <3>2. Len(Owed') = Len(replies') + Len(UndoneOf(serving', requests'))
      BY <3>1, OwedFacts, Channels
    <3> QED
      BY <1>2, <1>3, <1>4, <3>2
  <2>3. ReplyIsOurs'
    BY <1>2, <1>4, <2>1, <2>2 DEF ReplyIsOurs
  <2> QED
    BY <1>1, <1>2, <1>3, <1>4, <2>1, <2>3 DEF TypeOK, LoopOK
<1>5. ASSUME pending' = left + 1, requests' = Append(requests, call.op),
             call' = [call EXCEPT !.waiting = TRUE], UNCHANGED <<watchdog, transmitting, dial>>
      PROVE  TypeOK' /\ CallInv' /\ ReplyIsOurs'
  <2>1. call.op \in Ops /\ call # NoCall
    BY <1>1 DEF Send, Calls, NoCall
  <2>2. requests' \in Seq(Ops)
    BY <1>1, <1>5, <2>1
  <2>3. call' \in Calls /\ call'.op = call.op /\ call'.then = call.then
    BY <1>1, <1>5 DEF Calls
  <2>4. CallInv'
    BY <2>1, <2>3 DEF CallInv
  <2>5. UndoneOf(serving', requests') = Append(u, call.op)
    BY <1>1, <1>3, <1>5, <2>1, RequestSent
  <2>6. /\ Len(Owed') = Len(replies') + Len(UndoneOf(serving', requests'))
        /\ UndoneOf(serving', requests') # <<>> =>
              Last(Owed') = Last(UndoneOf(serving', requests'))
        /\ Owed' = <<>> <=> Len(Owed') = 0
    <3>1. serving' \in Ops \cup {"nothing"} /\ replies' \in Seq(Replies)
      BY <1>1, <1>3
    <3> QED
      BY <2>2, <3>1, OwedFacts, Channels
  <2>7. Append(u, call.op) # <<>> /\ Len(Append(u, call.op)) = Len(u) + 1
        /\ Last(Append(u, call.op)) = call.op
    BY <1>2, <2>1 DEF Last
  <2> HIDE DEF u, left
  <2>8. ReplyIsOurs'
    BY <1>2, <1>3, <1>5, <2>3, <2>5, <2>6, <2>7 DEF ReplyIsOurs
  <2> QED
    BY <1>2, <1>3, <1>5, <2>2, <2>3, <2>4, <2>8 DEF TypeOK
<1> QED
  BY <1>4, <1>5 DEF Send

LEMMA TakeReplyKeeps ==
  ASSUME TypeOK, CallInv, ReplyIsOurs, TakeReply
  PROVE  TypeOK' /\ CallInv' /\ ReplyIsOurs'
<1> USE DEF watchdog
<1> DEFINE reply == Head(replies)
<1>1. /\ requests \in Seq(Ops) /\ replies \in Seq(Replies) /\ serving \in Ops \cup {"nothing"}
      /\ pending \in Nat /\ call \in Calls /\ replies # <<>> /\ call.waiting
  BY DEF TypeOK, TakeReply
<1>2. reply \in Replies /\ reply.ok \in BOOLEAN /\ reply.reading \in Times \cup {NoTime}
  <2>1. reply \in Replies
    BY <1>1
  <2> QED
    BY <2>1 DEF Replies
<1>3. <<reply>> \in Seq(Replies) /\ Tail(replies) \in Seq(Replies)
  BY <1>1
<1>4. lastRead' \in Times \cup {NoTime} /\ replies' = Tail(replies) /\ pending' = pending - 1
      /\ UNCHANGED <<requests, serving, believed, keyed, refused, question, now>>
  BY <1>3, KeptType DEF TakeReply
<1>5. /\ Len(Owed') = Len(Owed) - 1
      /\ Len(Owed) # 1 => Last(Owed') = Last(Owed) /\ Owed' # <<>>
  BY <1>1, <1>4, OwedTail, Channels
<1>6. pending - 1 \in Nat
  <2>1. pending = Len(replies) + Len(UndoneOf(serving, requests))
    BY <1>1, OwedFacts, Channels DEF ReplyIsOurs
  <2>2. Len(replies) \in Nat /\ Len(replies) # 0 /\ UndoneOf(serving, requests) \in Seq(Ops)
    BY <1>1, EmptySeq, UndoneFacts
  <2> QED
    BY <2>1, <2>2
<1>7. CASE pending = 1
  <2>1. LoopOK' /\ ~call'.waiting
    <3> HIDE DEF reply
    <3>1. Return(reply.ok, reply.reading)
      BY <1>7 DEF TakeReply, reply
    <3> QED
      BY <1>2, <3>1, ReturnType
  <2>2. ReplyIsOurs'
    BY <1>4, <1>5, <2>1 DEF ReplyIsOurs
  <2> QED
    BY <1>1, <1>3, <1>4, <1>6, <2>1, <2>2 DEF TypeOK, LoopOK
<1>8. CASE pending # 1
  <2>1. UNCHANGED <<watchdog, call, transmitting, dial>>
    BY <1>8 DEF TakeReply
  <2>2. ReplyIsOurs'
    BY <1>4, <1>5, <1>8, <2>1 DEF ReplyIsOurs
  <2> QED
    BY <1>1, <1>3, <1>4, <1>6, <2>1, <2>2 DEF TypeOK, CallInv
<1> QED
  BY <1>7, <1>8

LEMMA TimeoutKeeps ==
  ASSUME TypeOK, CallInv, ReplyIsOurs, Timeout
  PROVE  TypeOK' /\ CallInv' /\ ReplyIsOurs'
<1>1. /\ Return(FALSE, lastRead) /\ lastRead \in Times \cup {NoTime}
      /\ UNCHANGED <<requests, serving, replies, believed, keyed, refused>>
      /\ UNCHANGED <<question, pending, lastRead, now>>
  BY DEF Timeout, TypeOK, port
<1>2. LoopOK' /\ ~call'.waiting
  BY <1>1, ReturnType
<1>3. Owed' = Owed
  BY <1>1, Channels
<1> QED
  BY <1>1, <1>2, <1>3 DEF TypeOK, LoopOK, ReplyIsOurs

-----------------------------------------------------------------------------
\* Types and replies, at every step.

TypeInv == TypeOK /\ CallInv /\ ReplyIsOurs

LEMMA TypeInvInit == Init => TypeInv
<1> SUFFICES ASSUME Init
             PROVE  TypeInv
  OBVIOUS
<1>1. TypeOK /\ CallInv
  BY TypeInit
<1>2. Owed = <<>> /\ Len(Owed) = 0 /\ ~call.waiting
  BY DEF Init, Owed, Undone, Serving, NoCall
<1> QED
  BY <1>1, <1>2 DEF TypeInv, ReplyIsOurs, Init

LEMMA TypeInvNext == TypeInv /\ [Next]_vars => TypeInv'
<1> SUFFICES ASSUME TypeInv, [Next]_vars
             PROVE  TypeInv'
  OBVIOUS
<1> USE DEF port, watchdog
<1>1. TypeOK /\ CallInv /\ ReplyIsOurs
  BY DEF TypeInv
<1>2. ASSUME UNCHANGED <<requests, serving, replies, pending>>, call' = call \/ ~call'.waiting
      PROVE  ReplyIsOurs'
  <2>1. Owed' = Owed
    BY <1>2, Channels
  <2> QED
    BY <1>1, <1>2, <2>1 DEF ReplyIsOurs
<1>3. CASE Worker
  BY <1>1, <1>3, TypeWorker, ReplyWorker DEF TypeInv
<1>4. CASE Exchange
  BY <1>1, <1>4, SendKeeps, TakeReplyKeeps, TimeoutKeeps DEF TypeInv, Exchange
<1>5. CASE \/ Judge \/ Display \/ TuneTo \/ Poll
           \/ \E then \in {"finish", "cardlate", "abandon"} : Finish(then)
  <2>1. TypeOK' /\ CallInv' /\ ~call'.waiting
    BY <1>1, <1>5, TypeCalls
  <2>2. UNCHANGED <<requests, serving, replies, pending>>
    BY <1>5 DEF Judge, Display, TuneTo, Poll, Finish
  <2> QED
    BY <1>2, <2>1, <2>2 DEF TypeInv
<1>6. CASE ReadRadio
  <2>1. UNCHANGED <<requests, serving, replies, pending, call>>
    BY <1>6 DEF ReadRadio
  <2> QED
    BY <1>1, <1>2, <1>6, <2>1, TypeReadRadio DEF TypeInv
<1>7. CASE Tick
  <2>1. now' \in Times
    BY <1>1, <1>7, BoundsAreCounts DEF Tick, TypeOK, Times
  <2>2. UNCHANGED <<requests, serving, replies, pending, call>>
    BY <1>7 DEF Tick
  <2> QED
    BY <1>1, <1>2, <1>7, <2>1, <2>2 DEF TypeInv, Tick, TypeOK, CallInv
<1>8. CASE UNCHANGED vars
  <2>1. UNCHANGED <<requests, serving, replies, pending, call>>
    BY <1>8 DEF vars
  <2> QED
    BY <1>1, <1>2, <1>8, <2>1 DEF TypeInv, vars, TypeOK, CallInv
<1> QED
  BY <1>3, <1>4, <1>5, <1>6, <1>7, <1>8 DEF Next, Loop

\* Every value the key's two threads keep is one of its type: the counts are
\* counts, the calls are the calls the run loop makes.
THEOREM KeyingTypeCorrect == Spec => []TypeOK
<1>1. TypeInv => TypeOK
  BY DEF TypeInv
<1> QED
  BY <1>1, TypeInvInit, TypeInvNext, PTL DEF Spec

\* However late the port answers and in whatever order the run loop gives up and
\* asks again, no late reply is taken for the answer to a later request.
THEOREM NoReplyIsMistaken == Spec => []ReplyIsOurs
<1>1. TypeInv => ReplyIsOurs
  BY DEF TypeInv
<1> QED
  BY <1>1, TypeInvInit, TypeInvNext, PTL DEF Spec


-----------------------------------------------------------------------------
\* Every key is answered by a release.

KeysOf(u) == {i \in DOMAIN u : u[i] \in {"key", "unkey"}}

\* Each key not carried out has a release behind it.
Covered(u) == \A i \in DOMAIN u : u[i] = "key" => \E j \in DOMAIN u : i < j /\ u[j] = "unkey"

\* The radio is not keyed, or will be released, or has refused to be.
Released == Covered(Undone) /\ (KeysOf(Undone) = {} => (keyed => refused))

\* What holds in each call: a key is sent only while everything before it is
\* released, and whatever comes of it the run loop transmits or releases next.
KeyInv ==
  /\ call.op \notin {"key", "unkey"} /\ ~transmitting => Released
  /\ call.op = "key" /\ ~call.waiting => Released
  /\ call.op = "unkey" /\ call.waiting => Released
  /\ call.op \in {"read", "tune", "key"} => ~transmitting /\ ~watching /\ ~tripped
  /\ call.op = "key" /\ call.waiting =>
        pending = 1 /\ (replies # <<>> => (replies[1].ok => keyed))
  /\ call.op = "unkey" /\ call.then # "poll" => ~transmitting
  /\ tripped => call.op = "unkey" /\ call.then \in {"cleared", "abandon"}
  /\ Idle => watching = transmitting
  /\ Idle /\ transmitting => keyed /\ KeysOf(Undone) = {}

\* A release sent behind anything covers all of it; another request, what it did.
LEMMA CoveredSent ==
  ASSUME NEW u \in Seq(Ops), NEW op \in Ops
  PROVE  /\ op = "unkey" => Covered(Append(u, op)) /\ KeysOf(Append(u, op)) # {}
         /\ op \in {"read", "tune"} => /\ Covered(u) => Covered(Append(u, op))
                                       /\ KeysOf(Append(u, op)) = {} => KeysOf(u) = {}
<1> DEFINE n == Len(u)
           v == Append(u, op)
<1>1. /\ n \in Nat /\ DOMAIN u = 1 .. n /\ DOMAIN v = 1 .. n + 1 /\ v[n + 1] = op
      /\ \A i \in 1 .. n : v[i] = u[i]
  OBVIOUS
<1>2. \A i \in 1 .. n : i \in 1 .. n + 1 /\ i < n + 1
  BY <1>1
<1>3. \A i \in 1 .. n + 1 : i \in 1 .. n \/ i = n + 1
  BY <1>1
<1>4. n + 1 \in 1 .. n + 1
  BY <1>1
<1> HIDE DEF n, v
<1>5. ASSUME op = "unkey"
      PROVE  Covered(v) /\ KeysOf(v) # {}
  <2>1. n + 1 \in KeysOf(v)
    BY <1>1, <1>4, <1>5 DEF KeysOf
  <2>2. Covered(v)
    BY <1>1, <1>2, <1>3, <1>4, <1>5 DEF Covered
  <2> QED
    BY <2>1, <2>2
<1>6. ASSUME op \in {"read", "tune"}, Covered(u)
      PROVE  Covered(v)
  <2> SUFFICES ASSUME NEW i \in 1 .. n + 1, v[i] = "key"
               PROVE  \E j \in 1 .. n + 1 : i < j /\ v[j] = "unkey"
    BY <1>1 DEF Covered
  <2>1. i \in 1 .. n /\ u[i] = "key"
    BY <1>1, <1>3, <1>6
  <2>2. PICK j \in 1 .. n : i < j /\ u[j] = "unkey"
    BY <1>1, <1>6, <2>1 DEF Covered
  <2> QED
    BY <1>1, <1>2, <2>2
<1>7. ASSUME KeysOf(v) = {}
      PROVE  KeysOf(u) = {}
  <2>1. \A i \in KeysOf(u) : i \in KeysOf(v)
    BY <1>1, <1>2 DEF KeysOf
  <2> QED
    BY <1>7, <2>1
<1> QED
  BY <1>5, <1>6, <1>7 DEF v

\* The oldest request carried out: what is behind it stays covered, and a key is
\* followed by the release that was behind it.
LEMMA CoveredDone ==
  ASSUME NEW q \in Seq(Ops), NEW s \in Ops
  PROVE  LET u == UndoneOf(s, q)
         IN  /\ Covered(u) => Covered(q)
             /\ Covered(u) /\ s = "key" => KeysOf(q) # {}
             /\ KeysOf(u) = {} <=> KeysOf(q) = {} /\ s \notin {"key", "unkey"}
<1> DEFINE u == UndoneOf(s, q)
           n == Len(q)
<1>1. /\ n \in Nat /\ DOMAIN q = 1 .. n
      /\ u \in Seq(Ops) /\ Len(u) = n + 1 /\ u[1] = s
      /\ \A i \in 1 .. n : u[i + 1] = q[i]
  <2>1. s # "nothing"
    BY DEF Ops
  <2>2. n \in Nat /\ DOMAIN q = 1 .. n
    OBVIOUS
  <2>3. /\ u \in Seq(Ops) /\ Len(u) = Len(q) + 1 /\ u[1] = s
        /\ \A i \in 1 .. Len(q) : u[i + 1] = q[i]
    <3> HIDE DEF u
    <3> QED
      BY <2>1, UndoneFacts DEF u
  <2> QED
    BY <2>2, <2>3
<1>2. DOMAIN u = 1 .. n + 1
  BY <1>1
<1> HIDE DEF u, n
<1>3. \A i \in 1 .. n : i + 1 \in 1 .. n + 1
  BY <1>1
<1>4. \A i \in 1 .. n + 1 : i = 1 \/ (i - 1 \in 1 .. n /\ u[i] = q[i - 1])
  BY <1>1
<1>5. 1 \in 1 .. n + 1
  BY <1>1
<1>6. ASSUME Covered(u)
      PROVE  Covered(q)
  <2> SUFFICES ASSUME NEW i \in 1 .. n, q[i] = "key"
               PROVE  \E j \in 1 .. n : i < j /\ q[j] = "unkey"
    BY <1>1 DEF Covered
  <2>1. i + 1 \in 1 .. n + 1 /\ u[i + 1] = "key"
    BY <1>1, <1>3
  <2>2. PICK j \in 1 .. n + 1 : i + 1 < j /\ u[j] = "unkey"
    BY <1>2, <1>6, <2>1 DEF Covered
  <2>3. j - 1 \in 1 .. n /\ q[j - 1] = "unkey" /\ i < j - 1
    BY <1>1, <1>4, <2>2
  <2> QED
    BY <2>3
<1>7. ASSUME Covered(u), s = "key"
      PROVE  KeysOf(q) # {}
  <2>1. PICK j \in 1 .. n + 1 : 1 < j /\ u[j] = "unkey"
    BY <1>1, <1>2, <1>5, <1>7 DEF Covered
  <2>2. j - 1 \in 1 .. n /\ q[j - 1] = "unkey"
    BY <1>1, <1>4, <2>1
  <2>3. j - 1 \in KeysOf(q)
    BY <1>1, <2>2 DEF KeysOf
  <2> QED
    BY <2>3
<1>8. KeysOf(u) = {} <=> KeysOf(q) = {} /\ s \notin {"key", "unkey"}
  <2>1. ASSUME KeysOf(u) = {}
        PROVE  KeysOf(q) = {} /\ s \notin {"key", "unkey"}
    <3>1. \A i \in KeysOf(q) : i + 1 \in KeysOf(u)
      BY <1>1, <1>2, <1>3 DEF KeysOf
    <3>2. s \in {"key", "unkey"} => 1 \in KeysOf(u)
      BY <1>1, <1>2, <1>5 DEF KeysOf
    <3> QED
      BY <2>1, <3>1, <3>2
  <2>2. ASSUME KeysOf(q) = {}, s \notin {"key", "unkey"}
        PROVE  KeysOf(u) = {}
    <3>1. \A i \in KeysOf(u) : i - 1 \in KeysOf(q)
      BY <1>1, <1>2, <1>4, <2>2 DEF KeysOf
    <3> QED
      BY <2>2, <3>1
  <2> QED
    BY <2>1, <2>2
<1> QED
  BY <1>6, <1>7, <1>8 DEF u

LEMMA ReleasedKept ==
  ASSUME Undone' = Undone, keyed' = keyed, refused' = refused
  PROVE  Released' = Released /\ KeysOf(Undone)' = KeysOf(Undone)
BY DEF Released, Covered, KeysOf

\* What the run loop does with an answer.
LEMMA CallKeyKeeps ==
  ASSUME TypeInv, KeyInv, call.op \in {"read", "none"}, ~transmitting,
         CallKey \/ (call' = NoCall /\ UNCHANGED transmitting),
         UNCHANGED watchdog,
         Undone' = Undone, keyed' = keyed, refused' = refused
  PROVE  KeyInv'
<1>1. Released /\ watching = FALSE /\ tripped = FALSE
  <2>1. call.op = "none" => Idle
    BY DEF TypeInv, CallInv, Idle
  <2>2. watching \in BOOLEAN /\ tripped \in BOOLEAN /\ transmitting \in BOOLEAN
    BY TypeOKParts DEF TypeInv
  <2> QED
    BY <2>1, <2>2 DEF KeyInv
<1>2. watching' = watching /\ tripped' = tripped
  BY DEF watchdog
<1>3. transmitting' = FALSE
  <2>1. transmitting \in BOOLEAN
    BY TypeOKParts DEF TypeInv
  <2> QED
    BY <1>1, <2>1 DEF CallKey
<1>4. Released'
  BY <1>1, ReleasedKept
<1>5. CASE call' = NoCall
  BY <1>1, <1>2, <1>3, <1>4, <1>5 DEF KeyInv, NoCall, Idle
<1>6. CASE call' = Calling("key", "key")
  BY <1>1, <1>2, <1>3, <1>4, <1>6 DEF KeyInv, NoCall, Calling, Idle
<1> QED
  BY <1>1, <1>5, <1>6 DEF CallKey

LEMMA ReturnKeeps ==
  ASSUME TypeInv, KeyInv, call # NoCall, NEW ok \in BOOLEAN, NEW reading, Return(ok, reading),
         Undone' = Undone, keyed' = keyed, refused' = refused,
         call.op = "unkey" => Released,
         call.op = "key" /\ ok => keyed /\ KeysOf(Undone) = {}
  PROVE  KeyInv'
<1>1. watching \in BOOLEAN /\ tripped \in BOOLEAN /\ transmitting \in BOOLEAN
  BY TypeOKParts DEF TypeInv
<1>2. Released' = Released /\ KeysOf(Undone)' = KeysOf(Undone)
  BY ReleasedKept
<1>3. ASSUME Abandon, watching' = FALSE, tripped' \in BOOLEAN
      PROVE  KeyInv'
  BY <1>3 DEF Abandon, KeyInv, Calling, Idle, NoCall
<1>4. CASE KeyReturns(ok)
  <2>1. call.op = "key" /\ ~transmitting /\ ~tripped
    <3>1. call.op = "key"
      BY <1>4 DEF KeyReturns, TypeInv, CallInv
    <3> QED
      BY <3>1 DEF KeyInv
  <2>2. watching' = ok /\ tripped' = tripped
    BY <1>4 DEF KeyReturns
  <2>3. CASE ~ok
    BY <1>1, <1>3, <1>4, <2>2, <2>3 DEF KeyReturns
  <2>4. CASE ok /\ call' = NoCall /\ transmitting' = TRUE
    BY <1>2, <2>1, <2>2, <2>4 DEF KeyInv, NoCall, Idle
  <2>5. CASE ok /\ call' = Calling("unkey", "late") /\ UNCHANGED transmitting
    BY <2>1, <2>2, <2>5 DEF KeyInv, Calling, NoCall, Idle
  <2> QED
    BY <1>4, <2>3, <2>4, <2>5 DEF KeyReturns
<1>5. CASE ReleaseReturns(ok)
  <2>1. call.op = "unkey" /\ transmitting = FALSE /\ Released
    <3>1. call.op = "unkey" /\ call.then # "poll"
      BY <1>5 DEF ReleaseReturns, TypeInv, CallInv, NoCall
    <3> QED
      BY <1>1, <3>1 DEF KeyInv
  <2>2. watching' = FALSE /\ tripped' = FALSE
    BY <1>5 DEF ReleaseReturns
  <2>3. CASE call' = NoCall /\ UNCHANGED transmitting
    BY <1>2, <2>1, <2>2, <2>3 DEF KeyInv, NoCall, Idle
  <2>4. CASE Abandon
    BY <1>3, <2>2, <2>4
  <2> QED
    BY <1>5, <2>3, <2>4 DEF ReleaseReturns
<1>6. CASE TripReturns(ok)
  <2>1. watching' = FALSE /\ tripped' = TRUE
    BY <1>6 DEF TripReturns
  <2>2. CASE Abandon
    BY <1>3, <2>1, <2>2
  <2>3. CASE call' = Calling("unkey", "cleared") /\ transmitting' = FALSE
    BY <2>1, <2>3 DEF KeyInv, Calling, NoCall, Idle
  <2> QED
    BY <1>6, <2>2, <2>3 DEF TripReturns
<1>7. CASE ReadReturns(reading)
  <2>1. call.op = "read"
    BY <1>7 DEF ReadReturns, TypeInv, CallInv
  <2>2. ~transmitting
    BY <2>1 DEF KeyInv
  <2>3. CallKey \/ (call' = NoCall /\ UNCHANGED transmitting)
    BY <1>7 DEF ReadReturns, Judged
  <2>4. UNCHANGED watchdog
    BY <1>7 DEF ReadReturns
  <2> QED
    BY <2>1, <2>2, <2>3, <2>4, CallKeyKeeps
<1>8. CASE TuneReturns(ok)
  <2>1. call.op = "tune"
    BY <1>8 DEF TuneReturns, TypeInv, CallInv
  <2>2. transmitting = FALSE /\ watching = FALSE /\ tripped = FALSE /\ Released
    BY <1>1, <2>1 DEF KeyInv
  <2>3. call' = NoCall /\ watching' = watching /\ tripped' = tripped /\ transmitting' = transmitting
    BY <1>8 DEF TuneReturns, watchdog
  <2> QED
    BY <1>2, <2>2, <2>3 DEF KeyInv, NoCall, Idle
<1> QED
  BY <1>4, <1>5, <1>6, <1>7, <1>8 DEF Return

\* The keying thread carries requests out.
LEMMA KeyWorker ==
  ASSUME TypeInv, KeyInv, Worker
  PROVE  KeyInv'
<1> USE DEF port, watchdog
<1>1. /\ requests \in Seq(Ops) /\ replies \in Seq(Replies) /\ serving \in Ops \cup {"nothing"}
      /\ pending \in Nat /\ keyed \in BOOLEAN /\ refused \in BOOLEAN
  BY TypeOKParts DEF TypeInv, TypeOK
<1>2. ASSUME Undone' = Undone,
             UNCHANGED <<replies, keyed, refused, pending, watching, tripped, call, transmitting>>
      PROVE  KeyInv'
  BY <1>2, ReleasedKept DEF KeyInv, Idle
<1>3. CASE TakeRequest
  <2>1. UndoneOf(serving', requests') = UndoneOf(serving, requests)
    BY <1>1, <1>3, RequestTaken DEF TakeRequest
  <2> QED
    BY <1>2, <1>3, <2>1, Channels DEF TakeRequest
<1>4. CASE TakeQuestion \/ AnswerQuestion
  <2>1. /\ UNCHANGED <<requests, serving>>
        /\ UNCHANGED <<replies, keyed, refused, pending, watching, tripped, call, transmitting>>
    BY <1>4 DEF TakeQuestion, AnswerQuestion
  <2> QED
    BY <1>2, <2>1, Channels
<1>5. ASSUME serving \in Ops, NEW ok \in BOOLEAN, NEW reading \in Times \cup {NoTime},
             Answered(ok, reading),
             serving = "unkey" => (keyed' => refused'),
             serving \in {"read", "tune"} => UNCHANGED <<keyed, refused>>,
             serving = "key" => (ok => keyed')
      PROVE  KeyInv'
  <2>1. /\ UNCHANGED <<pending, watching, tripped, call, transmitting>>
        /\ Undone' = requests /\ Undone = UndoneOf(serving, requests)
    <3>1. UndoneOf("nothing", requests) = requests
      BY <1>1, UndoneFacts
    <3> QED
      BY <1>5, <3>1, Channels DEF Answered
  <2>2. /\ Covered(Undone) => Covered(requests)
        /\ Covered(Undone) /\ serving = "key" => KeysOf(requests) # {}
        /\ KeysOf(Undone) = {} <=> KeysOf(requests) = {} /\ serving \notin {"key", "unkey"}
    BY <1>1, <1>5, <2>1, CoveredDone
  <2>3. /\ Covered(Undone)' = Covered(requests)
        /\ KeysOf(Undone)' = KeysOf(requests)
    BY <2>1 DEF Covered, KeysOf
  <2>4. Released => Released'
    BY <1>5, <2>1, <2>2, <2>3 DEF Released, Ops
  <2>5. Idle /\ transmitting /\ keyed /\ KeysOf(Undone) = {} => keyed' /\ KeysOf(Undone)' = {}
    BY <1>5, <2>1, <2>2, <2>3 DEF Ops
  <2>6. ASSUME call.op = "key", call.waiting, pending = 1
        PROVE  replies'[1].ok => keyed'
    <3>1. Len(OwedOf(replies, serving, requests)) = 1
          /\ Last(OwedOf(replies, serving, requests)) = "key"
      BY <2>6, Channels DEF TypeInv, ReplyIsOurs
    <3> DEFINE u == UndoneOf(serving, requests)
    <3>2. u \in Seq(Ops) /\ Len(u) = Len(requests) + 1 /\ u[1] = serving
      <4>1. serving # "nothing"
        BY <1>5 DEF Ops
      <4> HIDE DEF u
      <4> QED
        BY <1>1, <4>1, UndoneFacts DEF u
    <3>3. /\ Len(OwedOf(replies, serving, requests)) = Len(replies) + Len(u)
          /\ u # <<>> => Last(OwedOf(replies, serving, requests)) = Last(u)
      BY <1>1, OwedFacts
    <3> HIDE DEF u
    <3>4. Len(u) = 1 /\ Len(replies) = 0
      BY <1>1, <3>1, <3>2, <3>3
    <3>5. u # <<>> /\ Last(u) = serving
      <4>1. u # <<>>
        BY <3>2, <3>4, EmptySeq
      <4>2. Last(u) = u[Len(u)]
        BY DEF Last
      <4> QED
        BY <3>2, <3>4, <4>1, <4>2
    <3>6. serving = "key"
      BY <3>1, <3>3, <3>5
    <3>7. replies = <<>>
      BY <1>1, <3>4, EmptySeq
    <3>8. replies' = Append(<<>>, [op |-> serving, ok |-> ok, reading |-> reading])
      BY <1>5, <3>7 DEF Answered
    <3>9. replies'[1].ok = ok
      BY <3>8
    <3> QED
      BY <1>5, <3>6, <3>9
  <2> QED
    BY <2>1, <2>4, <2>5, <2>6 DEF KeyInv, Idle
<1>6. NoTime \in Times \cup {NoTime} /\ now \in Times \cup {NoTime} /\ TRUE \in BOOLEAN
  BY DEF TypeInv, TypeOK
<1>7. ASSUME NEW ok \in BOOLEAN, KeyDone(ok)
      PROVE  KeyInv'
  <2>1. /\ serving \in Ops /\ serving = "key" /\ Answered(ok, NoTime)
        /\ ok => keyed'
    BY <1>7 DEF KeyDone, Ops
  <2> QED
    BY <1>5, <1>6, <2>1
<1>8. ASSUME NEW ok \in BOOLEAN, UnkeyDone(ok)
      PROVE  KeyInv'
  <2>1. /\ serving \in Ops /\ serving = "unkey" /\ Answered(ok, NoTime)
        /\ keyed' => refused'
    BY <1>8 DEF UnkeyDone, Ops
  <2> QED
    BY <1>5, <1>6, <2>1
<1>9. CASE ReadDone
  <2>1. serving \in Ops /\ serving = "read" /\ UNCHANGED <<keyed, refused>>
    BY <1>9 DEF ReadDone, Ops
  <2>2. PICK reading \in {now, NoTime} : Answered(TRUE, reading)
    BY <1>9 DEF ReadDone
  <2> QED
    BY <1>5, <1>6, <2>1, <2>2
<1>10. ASSUME NEW ok \in BOOLEAN, TuneDone(ok)
       PROVE  KeyInv'
  <2>1. /\ serving \in Ops /\ serving = "tune" /\ Answered(ok, NoTime)
        /\ UNCHANGED <<keyed, refused>>
    BY <1>10 DEF TuneDone, Ops
  <2> QED
    BY <1>5, <1>6, <2>1
<1> QED
  BY <1>3, <1>4, <1>7, <1>8, <1>9, <1>10 DEF Worker

\* The proxy sends: behind an unanswered request only a release goes.
LEMMA KeySend ==
  ASSUME TypeInv, KeyInv, Send
  PROVE  KeyInv'
<1> USE DEF watchdog
<1>1. /\ requests \in Seq(Ops) /\ replies \in Seq(Replies) /\ serving \in Ops \cup {"nothing"}
      /\ pending \in Nat /\ call \in Calls /\ call # NoCall /\ call.op # "none"
  BY DEF TypeInv, TypeOK, Send, NoCall
<1> DEFINE left == pending - Len(replies)
           u == UndoneOf(serving, requests)
<1>2. u \in Seq(Ops) /\ left = Len(u) /\ left \in Nat
  <2>1. u \in Seq(Ops)
    BY <1>1, UndoneFacts
  <2>2. pending = Len(replies) + Len(u)
    BY <1>1, OwedFacts, Channels DEF TypeInv, ReplyIsOurs
  <2> QED
    BY <1>1, <2>1, <2>2
<1>3. replies' = <<>> /\ UNCHANGED <<serving, keyed, refused>>
  BY DEF Send
<1>4. ASSUME left > 0, call.op # "unkey", requests' = requests, Return(FALSE, lastRead')
      PROVE  KeyInv'
  <2>1. Undone' = Undone
    BY <1>3, <1>4, Channels
  <2> QED
    BY <1>1, <1>3, <1>4, <2>1, ReturnKeeps
<1>5. ASSUME ~(left > 0 /\ call.op # "unkey"), pending' = left + 1,
             requests' = Append(requests, call.op),
             call' = [call EXCEPT !.waiting = TRUE], UNCHANGED <<watchdog, transmitting, dial>>
      PROVE  KeyInv'
  <2>1. call.op \in Ops /\ Undone = u
    BY <1>1, Channels DEF Calls
  <2>2. call'.op = call.op /\ call'.then = call.then /\ call'.waiting = TRUE /\ call' # NoCall
    BY <1>1, <1>5 DEF Calls, NoCall
  <2>3. Undone' = Append(u, call.op)
    BY <1>1, <1>3, <1>5, <2>1, RequestSent, Channels
  <2>4. Covered(Undone)' = Covered(Append(u, call.op)) /\ KeysOf(Undone)' = KeysOf(Append(u, call.op))
    BY <2>3 DEF Covered, KeysOf
  <2>5. call.op = "unkey" => Released'
    BY <1>2, <2>1, <2>4, CoveredSent DEF Released
  <2>6. call.op \in {"read", "tune"} => (Released => Released')
    BY <1>2, <1>3, <2>1, <2>4, CoveredSent DEF Released
  <2>7. call.op = "key" => pending' = 1
    BY <1>2, <1>5
  <2> HIDE DEF u, left
  <2> QED
    BY <1>1, <1>3, <1>5, <2>1, <2>2, <2>5, <2>6, <2>7 DEF KeyInv, Idle, Ops
<1> QED
  BY <1>4, <1>5 DEF Send

\* ... and takes the replies in turn.
LEMMA KeyTakeReply ==
  ASSUME TypeInv, KeyInv, TakeReply
  PROVE  KeyInv'
<1> USE DEF watchdog
<1> DEFINE reply == Head(replies)
<1>1. /\ requests \in Seq(Ops) /\ replies \in Seq(Replies) /\ serving \in Ops \cup {"nothing"}
      /\ pending \in Nat /\ call \in Calls /\ replies # <<>> /\ call.waiting /\ call # NoCall
  BY DEF TypeInv, TypeOK, TakeReply, NoCall
<1>2. /\ replies' = Tail(replies) /\ pending' = pending - 1
      /\ UNCHANGED <<requests, serving, keyed, refused>>
  BY DEF TakeReply
<1>3. Undone' = Undone
  BY <1>2, Channels
<1>4. reply = replies[1] /\ reply.ok \in BOOLEAN
  <2>1. reply = replies[1] /\ reply \in Replies
    BY <1>1
  <2> QED
    BY <2>1 DEF Replies
<1>5. CASE pending = 1
  <2>1. Return(reply.ok, reply.reading)
    BY <1>5 DEF TakeReply
  <2>2. KeysOf(Undone) = {}
    <3>1. 1 = Len(replies) + Len(Undone)
      BY <1>1, <1>5, OwedFacts, Channels DEF TypeInv, ReplyIsOurs
    <3>2. Len(replies) \in Nat /\ Len(replies) # 0 /\ Undone \in Seq(Ops)
      BY <1>1, EmptySeq, UndoneFacts, Channels
    <3>3. Len(Undone) = 0
      BY <3>1, <3>2
    <3> QED
      BY <3>2, <3>3 DEF KeysOf
  <2>3. /\ call.op = "unkey" => Released
        /\ call.op = "key" /\ reply.ok => keyed
    BY <1>1, <1>4 DEF KeyInv
  <2> HIDE DEF reply
  <2> QED
    BY <1>1, <1>2, <1>3, <1>4, <2>1, <2>2, <2>3, ReturnKeeps
<1>6. CASE pending # 1
  <2>1. UNCHANGED <<watchdog, call, transmitting>>
    BY <1>6 DEF TakeReply
  <2>2. Released' = Released /\ KeysOf(Undone)' = KeysOf(Undone)
    BY <1>2, <1>3, ReleasedKept
  <2> QED
    BY <1>1, <1>2, <1>6, <2>1, <2>2 DEF KeyInv, Idle
<1> QED
  BY <1>5, <1>6

LEMMA KeyTimeout ==
  ASSUME TypeInv, KeyInv, Timeout
  PROVE  KeyInv'
<1>1. /\ Return(FALSE, lastRead) /\ call # NoCall /\ call.waiting
      /\ UNCHANGED <<requests, serving, keyed, refused>>
  <2>1. call.waiting /\ NoCall.waiting = FALSE
    BY DEF Timeout, NoCall
  <2> QED
    BY <2>1 DEF Timeout, port
<1>2. Undone' = Undone
  BY <1>1, Channels
<1>3. call.op = "unkey" => Released
  BY <1>1 DEF KeyInv
<1> QED
  BY <1>1, <1>2, <1>3, ReturnKeeps

\* The run loop begins a call.
LEMMA KeyCalls ==
  ASSUME TypeInv, KeyInv,
         \/ Judge \/ Display \/ TuneTo \/ Poll
         \/ \E then \in {"finish", "cardlate", "abandon"} : Finish(then)
  PROVE  KeyInv'
<1> USE DEF port, watchdog
<1>1. UNCHANGED <<requests, serving, replies, keyed, refused, pending, watching, tripped>>
  BY DEF Judge, Display, TuneTo, Poll, Finish
<1>2. Undone' = Undone /\ Released' = Released /\ KeysOf(Undone)' = KeysOf(Undone)
  BY <1>1, Channels, ReleasedKept
<1>3. Idle /\ call.op = "none" /\ call = NoCall
  BY DEF Judge, Display, TuneTo, Poll, Finish, Begin, Idle, NoCall
<1>4. tripped = FALSE /\ watching = transmitting /\ (~transmitting => Released)
  <2>1. tripped \in BOOLEAN
    BY TypeOKParts DEF TypeInv
  <2> QED
    BY <1>3, <2>1 DEF KeyInv
<1>5. transmitting \in BOOLEAN
  BY TypeOKParts DEF TypeInv
<1>6. ASSUME NEW op \in {"read", "tune"}, NEW then, call' = Calling(op, then),
             ~transmitting, transmitting' = transmitting
      PROVE  KeyInv'
  BY <1>1, <1>2, <1>4, <1>5, <1>6 DEF KeyInv, Calling, NoCall, Idle
<1>7. CASE Judge
  <2>1. CASE call' = Calling("read", "judge") /\ UNCHANGED transmitting
    BY <1>6, <1>7, <2>1 DEF Judge, Begin
  <2>2. CASE Judged
    <3>1. CallKey \/ (call' = NoCall /\ UNCHANGED transmitting)
      BY <2>2 DEF Judged
    <3>2. ~transmitting
      BY <1>7 DEF Judge, Begin
    <3> QED
      BY <1>1, <1>2, <1>3, <3>1, <3>2, CallKeyKeeps
  <2> QED
    BY <1>7, <2>1, <2>2 DEF Judge
<1>8. CASE Display
  BY <1>6, <1>8 DEF Display, Begin
<1>9. CASE TuneTo
  BY <1>6, <1>9 DEF TuneTo, Begin
<1>10. CASE Poll
  <2>1. call' = Calling("unkey", "poll") /\ transmitting' = transmitting
    BY <1>10 DEF Poll
  <2> QED
    BY <1>1, <1>2, <1>4, <2>1 DEF KeyInv, Calling, NoCall, Idle
<1>11. ASSUME NEW then \in {"finish", "cardlate", "abandon"}, Finish(then)
       PROVE  KeyInv'
  <2>1. call' = Calling("unkey", then) /\ transmitting' = FALSE
    BY <1>11 DEF Finish
  <2> QED
    BY <1>1, <1>2, <1>4, <2>1 DEF KeyInv, Calling, NoCall, Idle
<1> QED
  BY <1>7, <1>8, <1>9, <1>10, <1>11

-----------------------------------------------------------------------------
\* The key is always answered.

Inv == TypeInv /\ KeyInv

LEMMA InvInit == Init => Inv
<1> SUFFICES ASSUME Init
             PROVE  Inv
  OBVIOUS
<1>1. TypeInv
  BY TypeInvInit
<1>2. Undone = <<>>
  BY DEF Init, Undone, Serving
<1>3. Released /\ KeysOf(Undone) = {}
  BY <1>2 DEF Released, Covered, KeysOf, Init
<1> QED
  BY <1>1, <1>3 DEF Inv, KeyInv, Init, NoCall, Idle

LEMMA InvNext == Inv /\ [Next]_vars => Inv'
<1> SUFFICES ASSUME TypeInv, KeyInv, [Next]_vars
             PROVE  Inv'
  BY DEF Inv
<1>1. TypeInv'
  BY TypeInvNext
<1>2. ASSUME UNCHANGED <<port, pending, watchdog, call, transmitting>>
      PROVE  KeyInv'
  <2>1. Undone' = Undone /\ Released' = Released /\ KeysOf(Undone)' = KeysOf(Undone)
    BY <1>2, Channels, ReleasedKept DEF port
  <2> QED
    BY <1>2, <2>1 DEF KeyInv, Idle, port, watchdog
<1>3. CASE Exchange
  BY <1>1, <1>3, KeySend, KeyTakeReply, KeyTimeout DEF Exchange, Inv
<1>4. CASE \/ Judge \/ Display \/ TuneTo \/ Poll
           \/ \E then \in {"finish", "cardlate", "abandon"} : Finish(then)
  BY <1>1, <1>4, KeyCalls DEF Inv
<1>5. CASE ReadRadio \/ Tick \/ UNCHANGED vars
  BY <1>1, <1>2, <1>5 DEF ReadRadio, Tick, vars, Inv
<1>6. CASE Worker
  BY <1>1, <1>6, KeyWorker DEF Inv
<1> QED
  BY <1>1, <1>3, <1>4, <1>5, <1>6 DEF Inv, Next, Loop

LEMMA KeysOfUndone == KeysOf(Undone) = KeyingUndone
BY DEF KeysOf, KeyingUndone

\* A key the run loop gave up on, done late, always has a release behind it: with
\* nothing being transmitted the last keying command still to be done is a release,
\* and with none to be done the radio is not keyed, unless it refused the last one.
THEOREM KeyIsAnsweredHolds == Spec => []KeyIsAnswered
<1>1. Inv => KeyIsAnswered
  <2> SUFFICES ASSUME Inv, Idle, ~transmitting
               PROVE  IF KeyingUndone # {} THEN Undone[Max(KeyingUndone)] = "unkey"
                                           ELSE keyed => refused
    BY DEF KeyIsAnswered
  <2>1. Released
    BY DEF Inv, KeyInv, Idle, NoCall
  <2>2. CASE KeyingUndone = {}
    BY <2>1, <2>2, KeysOfUndone DEF Released
  <2>3. CASE KeyingUndone # {}
    <3>1. Undone \in Seq(Ops)
      BY UndoneFacts, Channels DEF Inv, TypeInv, TypeOK
    <3>2. Len(Undone) \in Nat /\ KeyingUndone \subseteq 0 .. Len(Undone)
      BY <3>1 DEF KeyingUndone
    <3>3. Max(KeyingUndone) \in KeyingUndone /\ \A y \in KeyingUndone : Max(KeyingUndone) >= y
      BY <2>3, <3>2, MaxOfBounded
    <3> DEFINE m == Max(KeyingUndone)
    <3> HIDE DEF m
    <3>4. m \in DOMAIN Undone /\ Undone[m] \in {"key", "unkey"}
      BY <3>3 DEF m, KeyingUndone
    <3>5. ASSUME Undone[m] = "key"
          PROVE  FALSE
      <4>1. PICK j \in DOMAIN Undone : m < j /\ Undone[j] = "unkey"
        BY <2>1, <3>4, <3>5 DEF Released, Covered
      <4>2. j \in KeyingUndone
        BY <4>1 DEF KeyingUndone
      <4>3. m \in Int /\ j \in Int
        BY <3>2, <3>3, <4>2 DEF m
      <4> QED
        BY <3>3, <4>1, <4>2, <4>3 DEF m
    <3> QED
      BY <2>3, <3>4, <3>5 DEF m
  <2> QED
    BY <2>2, <2>3
<1> QED
  BY <1>1, InvInit, InvNext, PTL DEF Spec

\* What is transmitted goes into a radio that is keyed, the watchdog counting, no
\* release still to be done that would cut it; a trip never outlives its
\* transmission.
THEOREM WatchFollowsTheKeyHolds == Spec => []WatchFollowsTheKey
<1>1. Inv => WatchFollowsTheKey
  <2>1. Idle => call.op # "unkey"
    BY DEF Idle, NoCall
  <2> QED
    BY <2>1, KeysOfUndone DEF Inv, KeyInv, WatchFollowsTheKey
<1> QED
  BY <1>1, InvInit, InvNext, PTL DEF Spec

=============================================================================
