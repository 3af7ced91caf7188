------------------------------- MODULE Keying -------------------------------
(***************************************************************************)
(* The radio's key, as the daemon holds it: the station's run loop calls a *)
(* watchdog (PttWatchdog), which calls a proxy (ThreadedPtt), which sends  *)
(* requests to a thread that owns the keying port.  The port may hang, so  *)
(* the run loop waits for a reply no longer than a bound; what it stopped  *)
(* waiting for is still in the queue and is still done.  A release is      *)
(* always sent; nothing else is sent behind an unanswered request.         *)
(*                                                                         *)
(* Both threads take steps of their own: the run loop (Loop) makes one     *)
(* call at a time, the keying thread (Worker) serves one request at a      *)
(* time and, with none, one background reading of the dial.                *)
(*                                                                         *)
(* The data left out: what the dial reads (a reading is the time it was    *)
(* taken), the S-meter and the settings (read with the dial), wording.     *)
(***************************************************************************)
EXTENDS Integers, Sequences, SequencesExt

CONSTANTS
    MaxOut,        \* bound: a call is begun with fewer requests unanswered
    MaxTime,       \* bound: the last tick of the station's clock
    FreshAge,      \* DIAL_FRESH_S: an older reading is asked for again
    StaleAge,      \* DIAL_STALE_S: an older reading stands for nothing
    AskEvery,      \* how often the display asks the radio
    AskAfterNone,  \* ... after it did not answer
    AskAfterTune   \* ... after a tune it accepted

ASSUME BoundsAreCounts ==
    /\ {MaxOut, MaxTime, FreshAge, StaleAge} \subseteq Nat
    /\ {AskEvery, AskAfterNone, AskAfterTune} \subseteq Nat

VARIABLES
    \* the keying thread and the radio
    requests,      \* the channel of requests, oldest first
    serving,       \* what the thread has the port doing
    replies,       \* the channel of replies, oldest first
    believed,      \* the thread's `keyed`
    keyed,         \* whether the radio is transmitting
    refused,       \* history: the last release done came back refused
    question,      \* the background reading out: see Questions
    \* ThreadedPtt and PttWatchdog
    pending,       \* requests whose replies have not been taken
    lastRead,      \* ThreadedPtt.dial: when its last reading was taken
    watching,      \* keyed_since.is_some()
    tripped,
    \* the station
    call,          \* the call its run loop is in
    transmitting,
    dial,          \* FrequencyCache, and when its reading was really taken
    now

port == <<requests, serving, replies, believed, keyed, refused>>
watchdog == <<watching, tripped>>
vars == <<port, question, pending, lastRead, watchdog, call, transmitting, dial, now>>

NoTime == -1
Times == 0 .. MaxTime
Ops == {"key", "unkey", "read", "tune"}

(* Why the run loop called: what it does with the answer. *)
Reasons == {"display", "judge", "key", "late", "finish", "poll", "cleared",
            "cardlate", "abandon", "tune", "none"}

(* A call: made, then (waiting) sent. *)
Calls == [op : Ops \cup {"none"}, then : Reasons, waiting : BOOLEAN]
NoCall == [op |-> "none", then |-> "none", waiting |-> FALSE]
Calling(op, then) == [op |-> op, then |-> then, waiting |-> FALSE]

Replies == [op : Ops, ok : BOOLEAN, reading : Times \cup {NoTime}]

(* `asking` is question.at # "nowhere": one at a time, at the thread's     *)
(* door, before the radio, or answered and not yet taken.                  *)
Questions == [at : {"nowhere", "asked", "radio", "answered"},
              reading : Times \cup {NoTime}]

Dials == [readAt : Times \cup {NoTime}, taken : Times \cup {NoTime},
          nextAsk : Nat]

(* Every request not yet answered to the run loop, oldest first. *)
Serving == IF serving = "nothing" THEN <<>> ELSE <<serving>>
Undone == Serving \o requests
Owed == [i \in 1 .. Len(replies) |-> replies[i].op] \o Undone

Init ==
    /\ requests = <<>> /\ replies = <<>> /\ serving = "nothing"
    /\ believed = FALSE /\ keyed = FALSE /\ refused = FALSE
    /\ question = [at |-> "nowhere", reading |-> NoTime]
    /\ pending = 0 /\ lastRead = NoTime
    /\ watching = FALSE /\ tripped = FALSE
    /\ call = NoCall /\ transmitting = FALSE
    /\ dial = [readAt |-> NoTime, taken |-> NoTime, nextAsk |-> 0]
    /\ now = 0

-----------------------------------------------------------------------------
(* The keying thread. *)

(* The run loop's requests first. *)
TakeRequest ==
    /\ serving = "nothing" /\ question.at # "radio"
    /\ requests # <<>>
    /\ serving' = Head(requests)
    /\ requests' = Tail(requests)
    /\ UNCHANGED <<replies, believed, keyed, refused>>
    /\ UNCHANGED <<question, pending, lastRead, watchdog, call, transmitting, dial, now>>

(* A background reading only with no request, and none taken while keyed.  *)
TakeQuestion ==
    /\ serving = "nothing" /\ requests = <<>>
    /\ question.at = "asked"
    /\ question' = IF believed THEN [at |-> "answered", reading |-> NoTime]
                               ELSE [at |-> "radio", reading |-> now]
    /\ UNCHANGED <<port, pending, lastRead, watchdog, call, transmitting, dial, now>>

(* The radio answers the background reading, or does not. *)
AnswerQuestion ==
    /\ question.at = "radio"
    /\ \E reading \in {question.reading, NoTime} :
          question' = [at |-> "answered", reading |-> reading]
    /\ UNCHANGED <<port, pending, lastRead, watchdog, call, transmitting, dial, now>>

Answered(ok, reading) ==
    /\ replies' = Append(replies, [op |-> serving, ok |-> ok, reading |-> reading])
    /\ serving' = "nothing"
    /\ UNCHANGED <<requests, question, pending, lastRead, watchdog>>
    /\ UNCHANGED <<call, transmitting, dial, now>>

(* A command whose answer is lost may have been carried out. *)
KeyDone(ok) ==
    /\ serving = "key"
    /\ believed' = (believed \/ ok)
    /\ keyed' \in IF ok THEN {TRUE} ELSE {keyed, TRUE}
    /\ Answered(ok, NoTime)
    /\ UNCHANGED refused

UnkeyDone(ok) ==
    /\ serving = "unkey"
    /\ believed' = ~ok
    /\ keyed' \in IF ok THEN {FALSE} ELSE {keyed, FALSE}
    /\ refused' = ~ok
    /\ Answered(ok, NoTime)

ReadDone ==
    /\ serving = "read"
    /\ \E reading \in {now, NoTime} : Answered(TRUE, reading)
    /\ UNCHANGED <<believed, keyed, refused>>

TuneDone(ok) ==
    /\ serving = "tune"
    /\ Answered(ok, NoTime)
    /\ UNCHANGED <<believed, keyed, refused>>

Worker ==
    \/ TakeRequest
    \/ TakeQuestion
    \/ AnswerQuestion
    \/ \E ok \in BOOLEAN : KeyDone(ok)
    \/ \E ok \in BOOLEAN : UnkeyDone(ok)
    \/ ReadDone
    \/ \E ok \in BOOLEAN : TuneDone(ok)

-----------------------------------------------------------------------------
(* The watchdog and the station: what the run loop does with an answer.    *)

(* abandon_tx: the transmission is given up and the key released; for an   *)
(* error of any keying call, and for a sound card that stopped.            *)
Abandon ==
    /\ call' = Calling("unkey", "abandon")
    /\ transmitting' = FALSE

(* PttWatchdog::key: refused after a trip, nothing to do when keyed.       *)
CallKey ==
    /\ call' = IF tripped THEN Calling("unkey", "abandon")
               ELSE IF watching THEN NoCall ELSE Calling("key", "key")
    /\ transmitting' = (watching /\ ~tripped)

(* Where the gate judges the reading the rules check has just had.         *)
Judged ==
    \/ CallKey
    \/ call' = NoCall /\ UNCHANGED transmitting

(* The key is up: the transmission starts, or its start is now past its    *)
(* slot and the key is let go again.                                       *)
\* Mutant: a key refused is not followed by a release.
KeyReturnsKept(ok) ==
    /\ call.then = "key"
    /\ watching' = ok
    /\ call' = NoCall /\ transmitting' = ok
    /\ UNCHANGED <<tripped, dial>>

KeyReturns(ok) ==
    /\ call.then = "key"
    /\ watching' = ok
    /\ IF ok THEN \/ call' = NoCall /\ transmitting' = TRUE
                  \/ call' = Calling("unkey", "late") /\ UNCHANGED transmitting
             ELSE Abandon
    /\ UNCHANGED <<tripped, dial>>

(* PttWatchdog::unkey: the watchdog's state is cleared either way.         *)
ReleaseReturns(ok) ==
    /\ call.then \in {"late", "finish", "cleared", "cardlate", "abandon"}
    /\ watching' = FALSE /\ tripped' = FALSE
    /\ IF ok \/ call.then = "abandon"
       THEN call' = NoCall /\ UNCHANGED transmitting
       ELSE Abandon
    /\ UNCHANGED dial

(* PttWatchdog::poll: the key was held too long; a trip is cleared by the  *)
(* release after it.                                                       *)
\* Mutant: the trip is left to whoever keys next.
TripReturnsLatched(ok) ==
    /\ call.then = "poll"
    /\ watching' = FALSE /\ tripped' = TRUE
    /\ call' = NoCall /\ transmitting' = FALSE
    /\ UNCHANGED dial

TripReturns(ok) ==
    /\ call.then = "poll"
    /\ watching' = FALSE /\ tripped' = TRUE
    /\ IF ok THEN call' = Calling("unkey", "cleared") /\ transmitting' = FALSE
             ELSE Abandon
    /\ UNCHANGED dial

(* A reading asked for now is stamped now, whatever the proxy answered.    *)
ReadReturns(reading) ==
    /\ call.then \in {"display", "judge"}
    /\ dial' = IF reading # NoTime
               THEN [readAt |-> now, taken |-> reading, nextAsk |-> now + AskEvery]
               ELSE IF call.then = "display"
               THEN [dial EXCEPT !.nextAsk = now + AskAfterNone] ELSE dial
    /\ IF call.then = "judge" THEN Judged
                              ELSE call' = NoCall /\ UNCHANGED transmitting
    /\ UNCHANGED watchdog

TuneReturns(ok) ==
    /\ call.then = "tune"
    /\ dial' = IF ok THEN [readAt |-> now, taken |-> now, nextAsk |-> now + AskAfterTune]
                     ELSE dial
    /\ call' = NoCall
    /\ UNCHANGED <<watchdog, transmitting>>

Return(ok, reading) ==
    \/ KeyReturns(ok)
    \/ ReleaseReturns(ok)
    \/ TripReturns(ok)
    \/ ReadReturns(reading)
    \/ TuneReturns(ok)

-----------------------------------------------------------------------------
(* ThreadedPtt::exchange. *)

(* The last reading among replies being taken. *)
Kept(taken) ==
    LET readings == {i \in DOMAIN taken : taken[i].reading # NoTime}
    IN  IF readings = {} THEN lastRead ELSE taken[Max(readings)].reading

(* Late replies are taken; then the request is sent, unless one is still   *)
(* unanswered: behind it only a release goes.                              *)
\* Mutant: a release waits its turn like the rest.
SendInTurn ==
    /\ call.op # "none" /\ ~call.waiting
    /\ replies' = <<>>
    /\ lastRead' = Kept(replies)
    /\ LET left == pending - Len(replies)
       IN  IF left > 0
           THEN /\ pending' = left
                /\ UNCHANGED requests
                /\ Return(FALSE, lastRead')
           ELSE /\ pending' = left + 1
                /\ requests' = Append(requests, call.op)
                /\ call' = [call EXCEPT !.waiting = TRUE]
                /\ UNCHANGED <<watchdog, transmitting, dial>>
    /\ UNCHANGED <<serving, believed, keyed, refused, question, now>>

Send ==
    /\ call.op # "none" /\ ~call.waiting
    /\ replies' = <<>>
    /\ lastRead' = Kept(replies)
    /\ LET left == pending - Len(replies)
       IN  IF left > 0 /\ call.op # "unkey"
           THEN /\ pending' = left
                /\ UNCHANGED requests
                /\ Return(FALSE, lastRead')
           ELSE /\ pending' = left + 1
                /\ requests' = Append(requests, call.op)
                /\ call' = [call EXCEPT !.waiting = TRUE]
                /\ UNCHANGED <<watchdog, transmitting, dial>>
    /\ UNCHANGED <<serving, believed, keyed, refused, question, now>>

(* Everything owed before the reply waited for is taken first. *)
TakeReply ==
    /\ call.waiting /\ replies # <<>>
    /\ LET reply == Head(replies)
       IN  /\ lastRead' = Kept(<<reply>>)
           /\ IF pending = 1 THEN Return(reply.ok, reply.reading)
              ELSE UNCHANGED <<watchdog, call, transmitting, dial>>
    /\ replies' = Tail(replies)
    /\ pending' = pending - 1
    /\ UNCHANGED <<requests, serving, believed, keyed, refused, question, now>>

(* The bound passes with no reply: KEY_BOUND, READ_BOUND or TUNE_BOUND.    *)
\* Mutant: a request given up on is counted no more.
TimeoutForgets ==
    /\ call.waiting /\ replies = <<>>
    /\ Return(FALSE, lastRead)
    /\ pending' = pending - 1
    /\ UNCHANGED <<port, question, lastRead, now>>

Timeout ==
    /\ call.waiting /\ replies = <<>>
    /\ Return(FALSE, lastRead)
    /\ UNCHANGED <<port, question, pending, lastRead, now>>

Exchange == Send \/ TakeReply \/ Timeout

-----------------------------------------------------------------------------
(* The run loop between two calls. *)

Idle == call = NoCall
Begin == Idle /\ ~transmitting /\ pending < MaxOut

(* start_pending: what is next is judged, the radio asked for its dial     *)
(* first when the last reading is old.                                     *)
Judge ==
    /\ Begin
    /\ IF dial.readAt = NoTime \/ now - dial.readAt > FreshAge
       THEN call' = Calling("read", "judge") /\ UNCHANGED transmitting
       ELSE Judged
    /\ UNCHANGED <<port, question, pending, lastRead, watchdog, dial, now>>

Display ==
    /\ Begin /\ now >= dial.nextAsk
    /\ call' = Calling("read", "display")
    /\ UNCHANGED <<port, question, pending, lastRead, watchdog, transmitting, dial, now>>

TuneTo ==
    /\ Begin
    /\ call' = Calling("tune", "tune")
    /\ UNCHANGED <<port, question, pending, lastRead, watchdog, transmitting, dial, now>>

(* The samples have left the card; the card dropped them as late; the card *)
(* stopped.                                                                *)
Finish(then) ==
    /\ Idle /\ transmitting
    /\ transmitting' = FALSE
    /\ call' = Calling("unkey", then)
    /\ UNCHANGED <<port, question, pending, lastRead, watchdog, dial, now>>

(* The key has been up for max_key_s, whether or not anything plays.       *)
Poll ==
    /\ Idle /\ watching
    /\ call' = Calling("unkey", "poll")
    /\ UNCHANGED <<port, question, pending, lastRead, watchdog, transmitting, dial, now>>

(* Every pass: the background reading that came is kept, stamped with when *)
(* it was taken, and another asked for when one is due.                    *)
ReadRadio ==
    LET came == question.at = "answered" /\ question.reading # NoTime
        at == question.reading
        none == [at |-> "nowhere", reading |-> NoTime]
    IN  /\ Idle
        /\ question.at \in {"nowhere", "answered"}
        /\ question' \in IF transmitting THEN {none}
                                         ELSE {none, [none EXCEPT !.at = "asked"]}
        /\ question' # question
        /\ lastRead' = IF came THEN at ELSE lastRead
        /\ dial' = IF came THEN [readAt |-> at, taken |-> at,
                                 nextAsk |-> IF dial.nextAsk > at + AskEvery
                                             THEN dial.nextAsk ELSE at + AskEvery]
                           ELSE dial
        /\ UNCHANGED <<port, pending, watchdog, call, transmitting, now>>

(* The station's clock is the sound card's: it stands while a call waits.  *)
Tick ==
    /\ Idle /\ now < MaxTime
    /\ now' = now + 1
    /\ UNCHANGED <<port, question, pending, lastRead, watchdog, call, transmitting, dial>>

Loop ==
    \/ Exchange
    \/ Judge
    \/ Display
    \/ TuneTo
    \/ \E then \in {"finish", "cardlate", "abandon"} : Finish(then)
    \/ Poll
    \/ ReadRadio

Next == Worker \/ Loop \/ Tick

(* The port answers in the end, and a wait ends: both threads run.         *)
Spec == Init /\ [][Next]_vars /\ WF_vars(Worker) /\ WF_vars(Exchange)

-----------------------------------------------------------------------------
(* Properties. *)

TypeOK ==
    /\ requests \in Seq(Ops) /\ replies \in Seq(Replies)
    /\ serving \in Ops \cup {"nothing"}
    /\ question \in Questions
    /\ pending \in Nat
    /\ lastRead \in Times \cup {NoTime}
    /\ {believed, keyed, refused, watching, tripped, transmitting} \subseteq BOOLEAN
    /\ call \in Calls
    /\ dial \in Dials
    /\ now \in Times

(* The proxy's count is exactly what the thread owes it, and while the run *)
(* loop waits the last thing owed is what it waits for: no late reply is   *)
(* ever taken for the answer to a later request.                           *)
ReplyIsOurs ==
    /\ pending = Len(Owed)
    /\ call.waiting => Owed # <<>> /\ Last(Owed) = call.op

(* Which requests not yet carried out are keying commands. *)
KeyingUndone == {i \in DOMAIN Undone : Undone[i] \in {"key", "unkey"}}

(* With the run loop in no call and nothing being transmitted, the last    *)
(* keying command still to be done is a release; with none to be done the  *)
(* radio is not keyed, unless it refused the last release.  So a key the   *)
(* run loop gave up on, done late, always has a release behind it.         *)
KeyIsAnswered ==
    Idle /\ ~transmitting =>
        IF KeyingUndone # {} THEN Undone[Max(KeyingUndone)] = "unkey"
                             ELSE keyed => refused

(* What is transmitted goes into a radio that is keyed, with the watchdog  *)
(* counting and no release still to be done that would cut it; the         *)
(* watchdog counts for nothing else, and a trip never outlives its         *)
(* transmission: the next key is not refused for it.                       *)
WatchFollowsTheKey ==
    Idle => /\ watching = transmitting /\ ~tripped
            /\ transmitting => keyed /\ KeyingUndone = {}

(* A reading that stands for the dial was given by the radio no longer ago *)
(* than a reading may be (station.rs:856-858).                             *)
ReadingIsRecent ==
    dial.readAt # NoTime /\ now - dial.readAt <= StaleAge =>
        now - dial.taken <= StaleAge

(* A radio left keyed comes down as soon as the port answers, unless it    *)
(* refuses to, or transmits again (ptt.rs:294-295).                        *)
KeyComesUp == keyed /\ ~transmitting ~> ~keyed \/ transmitting \/ refused
=============================================================================
