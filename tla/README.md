# Formal models of the Aether HF link

TLA+ models of the protocol core of `src/core` (the link engine `aether-link`
and the parts of the daemon `aetherd` it depends on), model-checked with TLC on
small instances, with theorems checked by TLAPS.

## 1. The system

Two amateur stations share one HF frequency. Each runs the daemon `aetherd`:
a run loop (`station.rs`) that reads audio, demodulates it (`aether-phy`,
`aether-fec`), hands every frame to the link engine
(`aether-link/src/granted.rs`), and carries out the engine's actions (transmit,
deliver to the host, events). The engine is a sequential state machine without
threads: it is called with `connect`, `send`, `on_frame`, `on_tx_done`,
`on_tx_dropped`, `on_tx_cut_unread`, `on_tx_delayed` and `tick`, all with a
time, and answers with a queue of actions. The concurrency is between the two
stations, the air between them, and each engine and its own driver, which keys
when it can and reports afterwards.

In a session one station, the caller, is the **master**. It transmits a header
and data; every transmission **grants** the **slave** one slot, in which the
slave answers and sends data of its own, or stays silent. The master transmits
again once the slot can no longer be in use (ADR-0069). Nobody listens before
an answer: that the two never radiate together rests on the two clocks alone.

| component | state | operations | calls, is called by |
|---|---|---|---|
| granted slots (`granted.rs`) | the master's slot, wait, possible answer families, estimate of the slave's lateness; the slave's transmission being received, grant, owed answer, open window | `on_frame`, `tick`, `on_tx_done`, `on_tx_cut_unread`, `on_tx_dropped`, `send` | keying gate of `station.rs`; the receiver |
| session data (`granted.rs`, `frames.rs`) | queue, blocks recorded by sequence number, window bases; receive buffer, pieces | `data_frames`, `take_ack`, `accept`, `send`, `close_slot` | host; granted slots |
| HARQ inference (`granted.rs`) | combining buffers, what the last two acknowledgements said | `take_data`, `infer_seq`, `ack_fields` | receiver |
| measurement (`granted.rs`) | measurement asked for and out, report owed, ladder | `measure`, `measurement*` | the field test |
| session lifecycle (`granted.rs`) | state, role, session number, left sessions, identifiers, link timer | `connect`, `probe`, `disconnect`, `abort`, `on_request`, `on_acceptance`, `answer_left`, `expire` | host, receiver |
| rate controller (`rate.rs`) | accounts per rung, tries, refusals | `observe*`, `decide`, `silent` | session data |
| datagrams (`datagram.rs`) | partial datagrams | `add`, `expire` | KISS host, beacons |
| keying (`station.rs`, `ptt.rs`) | rendered playback, its window, key watchdog | `within_window`, `drop_late`, key, unkey, trip | engine, radio |
| busy detector, regulatory gate, bandwidth moves | statistics, rules, the call being moved | per transmission | run loop |
| waveform and FEC | buffers | demodulate, decode | run loop |
| host protocols, control API, files, UI | sockets, documents | commands | the operator |

What is hard, and what the models are for:

* two clocks and no carrier sense: the end of a slot is a matter of arithmetic
  on two stations that may have read different things (`SlotTiming`);
* a lost header leaves the slave with the state of an older one; a late decode
  reports a slot that is over; a rescued copy carries a wrong count;
* the engine reckons with estimates until its driver reports, and the driver
  may hold, drop or cut what it was given;
* acknowledgements and data are lost in any combination, sequence numbers wrap,
  blocks change their form while copies of the old form are on the air
  (`DataTransfer`);
* held frames, elided headers and pieces must not end in a session in which
  nothing more arrives;
* reports of a measurement travel where acknowledgements do, and what a
  receiver keeps to combine is kept under a number it guessed (`Measurement`);
* the keying port is another thread that may hang, refuse or answer late, and a
  command the run loop gave up on is still carried out (`Keying`);
* the engine keeps an account of what it handed to the driver, and the driver
  has a queue, a card with a clock of its own, a watchdog and an operator, each
  of which may end a transmission at its own point of a pass (`Transmitter`);
* datagrams are never acknowledged, their numbers wrap and their pieces mix
  with those of other stations (`Datagrams`).

`PROJECT.json` lists every component, modelled or not, and every hazard at its
line with the properties that cover it.

## 2. Modules

| module | what it is |
|---|---|
| `SlotTiming` | when master and slave may key: both engines' timing, their gates, the air |
| `MCSlotTiming` | values for TLC: lengths, margins and two sets of policies |
| `SlotTimingProofs` | theorems about `SlotTiming`: types, the driver is done when the deadline expires, the two stations share the frequency |
| `ByteStream` | abstract specification: an in-order byte stream |
| `DataTransfer` | one direction of a session's data: window, pieces, acknowledgement |
| `MCDataTransfer` | values for TLC |
| `DataTransferProofs` | theorems about `DataTransfer`, and that it implements `ByteStream` |
| `Session` | two engines' sessions from call to closing identifier: calls, leaving, left sessions, every timer, what the driver reports |
| `MCSession` | values for TLC: who calls whom, identifier lengths, when the band closes |
| `SessionProofs` | theorems about `Session` |
| `Measurement` | the ladder of a Test: measurements, their reports, and the buffers a receiver combines in |
| `MeasurementProofs` | theorems about `Measurement` |
| `Keying` | the run loop, the watchdog, the keying thread and the radio |
| `KeyingProofs` | theorems about `Keying` |
| `Transmitter` | the station's queue, card, gates and account of what is transmitted |
| `TransmitterProofs` | theorems about `Transmitter` |
| `Datagrams` | splitting, numbering and reassembly of datagrams, between several senders and one receiver |
| `MCDatagrams` | values for TLC: the senders are alike |
| `DatagramsProofs` | theorems about `Datagrams` |
| `InductionFacts` | lemmas the proofs share: least and greatest elements, induction over a set of naturals |

How they fit: `Session` is the frame in which a session exists, `SlotTiming` and
`DataTransfer` are what goes on inside it, the first with the times and without
the data, the second with the data and without the times, `Measurement` what
takes the place of data. `Transmitter` is what stands behind "the driver" of
those three (what it may do to a transmission is what `MasterRadiates`,
`MasterCutUnread`, `SlaveDropped` and `Transmit` assume), and `Keying` what
stands behind "the port refuses" of `Transmitter`.

### SlotTiming and the code

The operators of the first half are the functions of `granted.rs` under their
own names: `SlotStart` is `slot_start`, `After` is `after`, `SlotClose`,
`OpenSlot`, `StateEnd`, `ScheduleSlave`, `KeyAnswer`, `TryWindow`, and so on.
They take the engine's state and the time and return the new state, so that an
action is the composition the code makes: a header read is `on_frame`,
`on_control`, `slave_control`, `placed`, `schedule_slave`, `schedule`,
`decide_if_final`, `key_answer`, `send_answer` in one step.

State: `master` holds `slot` (the struct `Slot`), the `Proceed` deadline,
`possible` (families of the answer), `peerLate`, `silent`, and the transmission
its driver holds; `slave` holds `m_end`, the header's grant, `ans_sticky`,
`answered_end`, the owed `Answer`, the open window, the grid of data frames and
those reported, and the transmission its driver holds. `toSlave` and `toMaster`
are the frames radiated and not yet read.

What the timing does not determine is any value: `Policies` (what the rest of
`send_header` decides: grant, level, families, window, data, elision, under the
code's own conditions `Allowed` and `MayElide`) and `Choices` (what the slave
has queued). So a property holds for every rate controller and every host.

Environment, from how the code uses it:

* a receiver reports frames in the order they began (`stream.rs:250-266`), each
  at any time from its end on, or never; a data frame may decode alone, be
  rescued by HARQ (then its count is any), or be reported undecoded;
* the keying gate lets an answer radiate only between `not_before` and
  `not_after` (`station.rs:3238-3267`); it can drop it at any time before;
* the master's driver radiates within `KeyDelay` of the engine's estimate and
  reports within `ReportDelay` of the frames' end. `DriverAssumption` bounds
  the two by what the slot leaves room for; it is what keeps a `Proceed` armed
  on the estimate from firing early (`DueMeansDone`). `Tick` is the only action
  with this upper bound; every decode and every timer may be arbitrarily late;
* a cut transmission is reported unread before `HEADER_UNDECODABLE_SHARE` of
  its header, and as whole otherwise (`station.rs:3217-3224`).

Not modelled there: the closing rounds of a session, `on_tx_delayed`, the
closing identifier, and the ordering tolerances of the code's floating-point
comparisons (1e-9 to 1e-3 s), for which integer time has no counterpart.

### DataTransfer and the code

`sender` is the sending half of an engine (`tx_queue`, `tx_base`, `tx_next`,
`records`, `silent`, the slot it granted), `receiver` the receiving half
(`rx_base`, `rx_buf`, `pieces`, `max_seen`, `ack_owed`) and what was delivered.
A unit stands for as many bytes as fit the smallest frame; a block is a run of
units. `DataFrames` is `data_frames`: which blocks go again, which come down to
a slower mode and whether they then fit whole or go in pieces, one family a
transmission, a try across the families' edge, then new blocks while the window
is open. `Accept` is `accept` with the delivery loop, `TakeAck` is `take_ack`.
The mode of new data, which stuck blocks come down and to which mode are the
rate controller's and any here, but a block only ever comes down.

Frames and acknowledgements are read in order or lost; a frame may be read after
its slot closed (`Hear(TRUE)`: accepted, but it makes the master owe nothing).

`StreamSpec` says that a session implements `ByteStream`: the instance maps the
abstract `sent` to the units handed over and `delivered` to what came out.

### Session and the code

Two whole engines with nothing to send: a session's exchange is a header and an
answer. `eng[s]` is one `GrantedEngine` (state, role, session, slot, `hold_until`,
the armed timers in their order, `left`, the identifier owed) with `out`, the
transmissions its driver has and has not reported (`in_flight`). The operators
keep the code's names: `Connect`, `OnRequest`, `CalledAgain`, `AcceptCall`,
`OnAcceptance`, `MasterControl`, `SlaveControl`, `AnswerLeft`, `Proceed`,
`CloseSlot`, `RepeatLeave`, `EndSession`, `SendIdentifier`, `OweAgain`,
`ClosingHold`. `Pass` is one `tick`: the timers due, by due time, ones due
together in the order they were armed, each taken once.

An operator's abort is the daemon's (`station.rs:2042`): what is on the air is
cut and reported unread or as done, what waits is dropped, then the engine
aborts. Identifiers radiate behind a DISC_ACK or alone, alone ones only once
the channel is heard clear where the engine asks for it (`listen_first`).

Abstracted: one family, one level, one slot length for every control frame
(`SlotTiming` has those); fresh session numbers (the code's seven bits are not
modelled); no own keying latency, no declared turnaround; what drains before a
disconnect is a choice until the drain's limit. An answer is decided when its
frame is read and radiates in its slot or not at all, as `decide_if_final` makes
it for all answers without data. Timers and the driver are on time: `Tick` waits
for what is due. Left out: probes and beacons, `on_tx_delayed`, `on_preamble`
(a call's next try put off while something is being heard), an abort while idle,
several callsigns of one station, refusals for bandwidth and version.

The history variables are `said` (the last session that came up, the sessions
identified), `apart` and the counter `lost`. `fade` is when the band closes for
a station: from then on it neither reads nor hears the other.

### Measurement and the code

`master` is the sending half of the master: `measure_ask` and `measure_out` as
the number of frames (`ask`, `out`), `measure_again`, `measure_unheard`, the
slot, `silent`, and its data as numbered blocks (`queue`, `next`, `unacked`).
`slave` is the receiving half of the slave: `measured` (no report, or one with
the frames it counts), `rx_measure` (`of`: the transmission taken for a
measurement), `m_end` (`anchor`: the transmission whose end it knows),
`answered_end`, the blocks it has, and `harq` with what each buffer combines.
Transmissions are numbered; a frame belongs to one, and where the code compares
times to tell an earlier transmission from a later one (`placed`), the model
compares numbers.

The master measures, as the daemon's Test does (`fieldtest.rs`, the rungs of
`run_test`, one at a time); the engine's `measure` would let a slave do it too.
The number `infer_seq` guesses for a frame that did not decode is any in the
window, and when a full buffer starts over is a choice, so what is shown of
combining holds however well it guesses.

The history is `heard` (what the slave decoded of the last measurement
radiated, and whether it took it for more of one before) and the two fields of
a rung that repeat it. Two properties name an exception that TLC finds, both
from a lost header (the hazards at `granted.rs:4551` and `granted.rs:4546`):

* of a measurement only a frame whose count means "three or more" decodes. The
  slave then knows it is being measured and not when the transmission ends, and
  never answers it. The repeat, or after a second silence the next rung, is
  taken for more of the same: `measurement_heard` returns at once, and the bits
  of the first are in the report of the second (`joined` in `LadderIsOwn`);
* a measurement silent twice is recorded and `measure_out` is empty, so no
  later header says that the last was a measurement. What the slave holds of it
  stays, and the next data may be combined with it (`CombinedIsData`).

### Keying and the code

Two threads. `Loop` is the run loop in one call at a time (`key`, `unkey`, a
reading of the dial, a tune), each made, sent, answered or timed out;
`PttWatchdog` and `ThreadedPtt` are the state between (`tripped`, `watching`;
`pending`, `lastRead`). `Worker` is the keying thread: it serves one request at
a time, and a background reading when there is none. A request given up on
stays in the channel; its reply is taken and thrown away later (`drain`). The
port may take any time and may report a command failed that the radio carried
out. What the run loop does with each answer is its own (`Reasons`): an abandon,
a finish, a late drop, a trip, the display.

### Transmitter and the code

One pass of the run loop is commands, capture, flush, fill (`main.rs:1371`), and
the card plays on its own (`Card`). `s` is the station and the engine's account:
`pending`, the rendered transmission (`current`, `waiting`, `transmitting`),
`keying`, `cutShort`, `flush`, `playingTest`, the datagram queue and `onAir`, and
the engine's `in_flight`. An operator is a function of the code under its name
(`abandon_tx`, `abort`, `finish_transmission`, `drop_link_pending`, `refuse`,
`feed_datagram`), from `s` to the states it may leave. What a clock or the
channel decides (the slot, its slack, busy, the rules) is a choice; so is what
the engine hands over: an answer, a header, a master's data with its header
elided, an acceptance, a call or probe, a closing identifier (`Link`). The first
two begin with a control frame (`Headed`), so `cut_unread` can hold of them; the
others have no `header_on_air`, and `report_cut` reports them over wherever they
were cut, before they radiated too. Answers and acceptances have a slot to be late
for (`Slotted`).

The watchdog trips on whatever transmits (`Tripped`), and leaves `playing_test`
and `datagrams.on_air` as they were. The last fields of `s` are history: what of
the current transmission has radiated (`air`), the datagrams not yet reported
(`open`), false reports (`lies`), and the two things the trip can spoil. `mistaken`
is set when a closing identifier is taken for the test that a trip left playing
(`render_next` returns before it sets `playing_test` for one): an abort spares it
on the air and counts what it drops behind it off the wrong end, a `tune_stop`
drops it waiting and tells nobody. It holds until the account is right again.
`spoiled` has the datagrams whose last burst a trip ended, and those keyed while
the flush of what went before was still to come. `AccountMatches`,
`DoneMeansRadiated` and `DatagramsAccounted` except by name what these two mark,
and nothing else (the hazards at `station.rs:3044` and `audio.rs:369`).

### Datagrams and the code

`Split` is `split`, on lengths; `Add` is `Reassembler::add`, with what `expire`
takes and what makes room; `Make`, `Transmits` are the station's numbering and
feeding. A piece carries whose it is (`of`) for the properties; the receiver
uses the number and the last index only, as `add` does. Senders that are alike
share the channel a piece at a time. `JoinedIsOne` and `HeardIsJoined` except by
name what the code cannot tell apart: pieces of two stations whose numbers agree.

## 3. Runs

| run | instance | states (about) | what it shows |
|---|---|---|---|
| `SlotFamilies.cfg` | ordinary and floor frames, one data frame, both families asked for, elided headers, the shorter open window; 15 ticks | 4.5 million | `NoOverlap`, `FamilyIsPossible` |
| `SlotCounts.cfg` | two data frames, counts saturating at 1, two gap levels, a slave slow to hear again, the longer open window; 15 ticks | 2.0 million | `TypeOK`, `SlaveInSlot`, `StatedIsTheEnd`, `DueMeansDone`, `SlaveHearsNext`, `NeverKeysTwice` |
| `TransferStream.cfg` | window 2 of 4 numbers, 5 units, three modes of two families, blocks of up to 3 units split in pieces of 2 and of 1 | 329 000 | `TypeOK`, `AckedIsReceived`, `PiecesAreOfTheBlock`, `StreamSpec` |
| `TransferLive.cfg` | either station sends, two modes of different families | 25 000 | `AllDelivered` |
| `SessionCalls.cfg` | both call, twice in all, one aborts; frames read up to 3 ticks late, past the slot they grant | 2.5 million | `TypeOK`, `OneMaster`, `SomeMaster`, `WaitIsTimed` |
| `SessionEnds.cfg` | one session, both operators may disconnect and abort, the band closes for each station at any of several ticks or never, one frame or answer lost | 4.2 million | `IdentPlaced`, `EveryEndIdentified`, `IdentApart`, `EndTogether`, `NeverMeet` |
| `Measurement.cfg` | two measurements of up to two frames, two blocks, four transmissions, two silent slots allowed | 7.9 million | `TypeOK`, `LadderIsOwn`, `CombinedIsData`, `AckedIsReceived` |
| `KeyingPort.cfg` | up to three requests unanswered, a port that hangs, refuses and answers late | 120 000 | `TypeOK`, `ReplyIsOurs`, `KeyIsAnswered`, `WatchFollowsTheKey`, `KeyComesUp` |
| `TransmitterAccount.cfg` | every command, two transmissions of the engine's, a queue of two, two datagrams of one or two bursts; the watchdog may trip on anything | 5.2 million | `TypeOK`, `AccountMatches`, `DoneMeansRadiated`, `CardIsTheKeys`, `DatagramsAccounted` |
| `Datagrams.cfg` | three senders with three numbers, four datagrams each at most, two waiting at the receiver, lengths at every edge of a frame | 2.6 million | `TypeOK`, `PiecesFit`, `JoinedIsOne`, `HeardIsJoined` |
| `SessionIdentFirst.cfg` | **violated**: an aborting slave calls another station | | `IdentFirst` |
| `KeyingDial.cfg` | **violated**: the port hangs while the dial is read | | `ReadingIsRecent` |

The two violated properties are what the documents say and the code does not do;
`PROJECT.json` quotes both under "findings":

* a call to another station is to wait for the identifier owed (ADR-0075).
  `connect` arms `Ident` at the present and `Connect` at `hold_until`, which is
  past, and `tick` takes the earlier first: the call goes out and the identifier
  does not;
* a reading of the dial is not to stand for it when it is older than
  `DIAL_STALE_S`. `ThreadedPtt::frequency_hz` answers a question the port did not
  answer with its last reading, and the station stamps that with the present,
  every time it asks.

Other disagreements met on the way, each a hazard with a note in `PROJECT.json`:
a slave that left and identified alone still answers a header of the old session
with a DISC, though `07-protocol-8.md` says nothing follows the identifier; a
datagram one of whose earlier bursts was given up is reported sent
(`station.rs:2150`, `datagrams.rs:98`); a transmission that went out whole and
whose release the radio refuses is reported dropped (`station.rs:3425`); a
refused release is not tried again (`station.rs:2131`, the exception `refused`
of `KeyComesUp`); a call, an acceptance, or data whose header is elided, cut
before anything of it radiates, is reported over (`station.rs:366` and `:3217`);
what a trip leaves marked as playing makes a later abort or `tune_stop` take an
identifier for a test, and what it leaves marked as on the air is reported sent
later, or is replaced and never reported (`station.rs:3044`); a flush that is late
takes a datagram that is then reported sent (`audio.rs:369`); and the two
exceptions of `Measurement` above.

`EveryEndIdentified` is checked with one session. With a second, a master called
again while its own slot is open ends the first without an identifier
(`called_again`) and does not take the call (`on_request` returns while the slot
is held); if the caller then gives up, nothing is left to identify the first.
The protocol note (`07-protocol-8.md`, §5.4) excuses the identifier only where
the communication goes on in the new session.

Bounds. `MaxTime` ends exploration; a slot run is long enough for three
transmissions of the master's with the slots between them, which is what it
takes for a frame, a grant or a family of one exchange to meet the next but one.
Margins are one tick each, tone frames are longer than ordinary ones by more
than any margin, as in the code (0.8 s against 0.2 s and more), so that a
wrongly reckoned family or count is an overlap. Sequence numbers are the least
that keep the code's relation of window to numbers (16 of 256) meaningful: two
windows in the round, and more blocks than numbers. `MaxAir` and `MaxAcks` bound
what is on its way; two frames suffice to have a copy of an old block next to a
new one.

In the session runs a frame, the slack and the guards are one tick or two, an
exchange is longer than any header and answer and the link timeout is four
exchanges where an end by timeout matters (`SessionEnds`), as in the code's
configuration. `LastCall` and `LastOrder` end the operators' orders early enough
for everything they cause to happen before `MaxTime`. One frame may be lost
(`MaxLost`), fewer than the DISCs an aborting master sends (`LeaveRepeats`): with
all of them lost and both stations aborting, both identifiers come at a time of
their own, and only hearing the other first keeps them apart. `ReadDelay` is one
tick, within the decode budget, where identifiers are at stake: in `SessionEnds`
a frame decoded later than the wait for it lets an aborting master key a DISC
and still answer that frame, and both then identify at once. `SessionCalls`
reads frames up to three ticks late.

In `Measurement` four transmissions are two measurements and a repeat of either,
or a measurement between two transmissions of data; `MaxFollows` is one less
than a measurement's frames, so that the first frame of one says "so many or
more", as with the Test's four frames and the code's `MAX_FOLLOWS` of three. In
`Keying` three unanswered requests are a key, its release and what is sent
after both; the clock (`MaxTime`) matters to the dial only. In `Transmitter` a
queue of two is one waiting behind one, for the engine's own and the station's.
In `Datagrams` the numbers come round within the run (`MaxMade` is more than
`Numbers`), no sooner than the code's do (`WrapAssumption`), and a third sender
can push an incomplete datagram out (`Keep`).

Every property is broken by a mutant of a mapped definition (`PROJECT.json`),
each a plausible slip in the code: a forgotten clamp, a grant not reset, a
rescued count believed, a window left open, a buffer not cleared, a queue
dropped before what is on the air, an off-by-one in the bitmap.

`CHECK_DEADLOCK FALSE`: time ends at `MaxTime`, a session ends after
`max_retries` silent slots, a Test after its rungs.

### Fairness

`SlotTiming`, `Session`, `Measurement`, `Transmitter` and `Datagrams` state
safety only. `FairSpec` of `DataTransfer` assumes:

* the scheduler: a master keeps transmitting and its slots close (`Proceed` is
  a deadline that is always armed in a connected session; weak fairness of what
  a master transmits: a slave transmits only when it answers, and is assumed to
  only by the following), and where a station keeps being able to send data it does in the end (the rate
  controller cannot choose a room of nothing for ever: `burst_capacity` is at
  least one frame);
* the air: a frame sent again and again is heard in the end, one with news among
  them (strong fairness on `Hear(FALSE)`); otherwise nothing could be promised;
* answers: an owed acknowledgement is sent and read in the end. For a master
  that receives this is assumed only while it owes one: an elided header carries
  none.

The other way out, `~sender.up`, is the code's own: more than `max_retries`
silent slots end the session.

`Keying` assumes weak fairness of the keying thread (it blocks on its channel and
on the port and on nothing else, so a port that answers at all lets it go on)
and of the run loop inside a call (`Exchange`: it takes a reply or its timeout
runs out). Nothing is assumed of when the run loop calls.

## 4. Proofs

| module | theorems |
|---|---|
| `SlotTimingProofs` | `TypeCorrect`, `DueMeansDoneHolds`, `NoOverlapHolds`, `SlaveInSlotHolds`, `StatedIsTheEndHolds`, `FamilyIsPossibleHolds`, `NeverKeysTwiceHolds`, `SlaveHearsNextHolds` |
| `DataTransferProofs` | `Numbered` (the inductive invariant), `AckedReceived`, `PiecesOfTheBlock`, `StreamHolds` (the refinement of `ByteStream`), `TransferTyped` |
| `SessionProofs` | `IInvAlways` (the inductive invariant), `Typed`, `NeverTwoMasters`, `EveryWaitTimed`, `IdentifierPlaced` |
| `MeasurementProofs` | `MeasurementTypeCorrect`, `LadderIsOwnHolds`, `CombinedIsDataHolds`, `MeasurementAckedIsReceived` |
| `KeyingProofs` | `KeyingTypeCorrect`, `NoReplyIsMistaken`, `KeyIsAnsweredHolds`, `WatchFollowsTheKeyHolds` |
| `TransmitterProofs` | `TransmitterTypeCorrect`, `EngineAccountMatches`, `DoneWasRadiated`, `CardPlaysTheKeyed`, `EachDatagramAnswered` |
| `DatagramsProofs` | `DatagramsTypeCorrect`, `PiecesFitHolds`, `JoinedIsOneHolds`, `HeardIsJoinedHolds` |
| `InductionFacts` | lemmas the others share |

Every theorem holds for all values of the constants that satisfy the named
assumptions of the component's module, and of nothing else: the bounds of a run
(`MaxTime`, `MaxUnits`, `MaxAir`, `MaxRetries` and the like) are any natural
numbers in them, as are windows, number spaces, lengths and margins.

**SlotTiming.** The assumptions are that lengths and margins are natural numbers,
that a turnaround is declared rounded up, by less than what the master waits past
a slot, and `DriverAssumption`: the driver keys and reports within what the slot
leaves room for, strictly (a report at the very instant the deadline expires
could come after it).

* `TypeCorrect`. `TypeOK` is not inductive: `CloseSlot` counts one silent slot
  more than before, so `TypeInv` adds that a session that is up has `silent <=
  MaxRetries`, and that every frame on the air ends no earlier than it begins,
  without which a stated end `t_end + read * (t_end - t_start)` need not be a
  time. One lemma per operator says which set it maps into; the products (`n`
  frames of one length) have lemmas of their own, since the provers do not
  reason about them.
* `DueMeansDoneHolds`. The invariant is `DueInv`: while the driver has a
  transmission, the slot is not final and the `Proceed` deadline lies beyond the
  estimated end by more than the driver may take (`Armed`), and the driver's
  clock is within those bounds (`Driven`). The proof does not use that the
  model's `Proceed` asks for an idle driver: it is what justifies that guard.
* The other six come from one invariant, `Sharing`. What the slave has scheduled
  or handed over is of the latest transmission and lies in the slot it granted,
  or of an earlier one and can no longer be keyed: its mode is `Spent` (nothing
  of it can be keyed any more), `Owing` (an answer or an open window that fits
  the slot waits) or `Given` (a transmission that fits is with its driver).
  `MasterInv` is what the master reckons of its slot, `FrameShape` that a frame
  not yet read is of the latest transmission or `Stale`, `RepliesInv` that the
  slave's frames under way are of the slot the master has open, and `HearsInv`
  that the slave's last answer is past by its turnaround. `NoOverlap` alone is
  far from inductive: it says nothing of what is scheduled and not radiated.

**DataTransfer.** The sequence numbers wrap, so nothing in the state says which
block a number means. `IInv` says that there *are* block numbers that do: `tb`
and `tn` for the sender's window, `rb` for the receiver's, the first unit
`start[x]` of every block ever cut, the block of every frame on the air (`fb`)
and the base and contents of every acknowledgement under way (`ab`, `ag`), such
that

* `tb <= rb <= tn <= tb + Window` (`SenderInv`, `ReceiverInv`), and the records
  are those of the blocks in between;
* a frame on the air is a form of its block, and its block is within a window of
  the receiver's base, and within a window of those of the frames behind it
  (`AirInv`): this is what makes its number mean the same block to both ends,
  with `2 * Window <= SeqMod`;
* bases of acknowledgements under way only grow, what one says arrived did, and
  so say the ones behind it (`AcksInv`); what is recorded as acknowledged is with
  the receiver, and every acknowledgement to come says so (`AckedInv`), so that
  an old one never takes an arrival back.

The numbers are witnesses, not variables: no step of the model needs them. Before
it was proved, the invariant was checked with the witnesses as history variables
on the instance of `TransferStream`. `StreamHolds` takes its steps through the
same witnesses: what is delivered is the units up to `start[rb]`, so it is a
prefix of what was handed over, and only grows.

**Session.** The assumptions are `StationAssumption` (two stations, nobody calls
itself), `TimeAssumption` and `CountAssumption` (lengths, margins and counters are
natural numbers, calls and DISCs are tried at least once); in particular nothing
is assumed of how `ReadDelay`, the link timeout, the slots and the retries compare,
so the theorems hold however late a frame is read. They rest on that session
numbers are fresh, as the model has them: the code's seven bits come round.

An engine does not remember which sessions it has called with or accepted, and
`OneMaster` is about just that. So `IInv` says that there *are* histories `w` that
account for what is seen: for each station the numbers it has called with
(`call`), of which the call has been on the air (`sent`), and that it has accepted
(`accept`), all of them sent by the other (`Witnesses`). Given these,

* `Sound(s, N, e, t)`: every field of an engine is what it is declared to be, and
  each frame it has handed over is a call of a number in `call` or an acceptance
  of one in `accept`, the calls in the order of their numbers (`Engines`); state,
  role and session agree, a master being in a session that the other accepted and
  a slave in one it accepted itself (`Shape`); and what it waits for has its timer
  (`TimedBut`), except `t`, the one that is being taken: within a `tick` the timer
  is disarmed before it is known what replaces it;
* `Ranked`: a station that calls or is the master does so under a number later
  than all that it accepted and the latest of those it called with, and a slave is
  in the latest it accepted;
* a call that waits to be sent (`Fresh`) is under a number that it has not yet
  called with, so that no acceptance on the air can be of it. Without this an
  acceptance could make a master of a station that has granted no slot, and
  `WaitIsTimed` would fail;
* `Heeded`: the calls that a station may still read were sent, are no earlier than
  any it has accepted, and follow one another by number.

Two masters would each be in a session later than the other's, and a master and a
slave each in one no later than the other's. `Keeps` is what every operator but
the call itself and the taking of a call does to the ranking: nobody begins to
call, lead or follow, and nobody changes the number it leads or follows under.
Each operator has one lemma for `Sound` and `Keeps`, each action one for `IInv`.
`Pass` (the timers of a `tick`, in their order) and `Flushed` (the transmissions
an abort drops) are recursive functions that the proofs first show to exist
(`PassedExists`, `DroppedExists`).

**Measurement.** `Inv` has nine parts: bounds, the order of what is on the air
(`InOrder`), that a transmission carries a measurement or data (`OneKind`), and
what each end knows of the last measurement (`Known`, `Asked`, `AnswerInv`,
`OwnInv`, `HeldInv`, `ComingInv`). The exceptions in `LadderIsOwn` and
`CombinedIsData` are in `OwnInv` and `HeldInv` as they are in the properties; the
invariant shows that there are no others.

**Keying.** `NoReplyIsMistaken`: the count `pending` is the number of commands
whose reply has not been taken, whatever was given up on, and the keying thread
serves in order. `KeyInv` (the rest): among the commands still to be done every
key has a release behind it unless the run loop transmits, and with none left
the radio is unkeyed or refused its release.

**Transmitter.** All five theorems assume `Bounds` and nothing else: the watchdog
may trip on whatever transmits, there are any number of transmissions and
datagrams, and any of the commands. What a trip makes wrong in the code is excepted
in the properties (`mistaken`, `spoiled`; section 2), so that the theorems also say
that nothing else is wrong.

The invariant is `FlowInv`: the account itself (`Account`, for the queue and for
what is keyed), what may be true together of a transmission (`Flow`: it is waiting
or on the air and not both, what is keyed as the engine's is the engine's, a test
is a tone, or a closing identifier that a trip's mark was left for), how far the
card has come with it (`Fits`), and what a pass relies on
from the one before it (`PassFits`: a drop is read before a cut, and a flush left
for the filling of the card is an abandoned transmission's, whose queue is empty).
`AccountMatches` alone is not inductive: whether a cut is told of the right
transmission depends on `keying` being the current's, and `DoneMeansRadiated` on
the card having left its lead-in whenever a transmission is finished. `DataInv`
adds the clients' part. A datagram not yet reported is in the queue, waits as its
last burst, or is on the air, and in one of these only (`Places`, `Accounted`);
where it is on the air and not the one transmitting it is `Excused`, that is, one of
the `spoiled`. A burst waits only while nothing is rendered (`BurstFlow`), so that
what is behind the front of the queue is never a datagram's (`OneBurst`) and
`abandon_tx`, which refuses all that waits, refuses one. `Radiates` relates the
two clocks: a last burst that is not excused is in the card until it has radiated
whole, so what finds the card at its end and reports it sent tells the truth. Each
operator has one lemma that says what it does to every field (`ToldFacts`,
`AbandonFacts`, `RenderedFacts`, ...), so that the proofs of the steps need no
definition of it.

**Datagrams.** `Partial` is 2, as in the code (`SizeAssumption`). The invariant
keeps that the numbers count a sender's datagrams from 1 and come round after
`Numbers` (`Numbered`) and that what waits is younger than the round of the
numbers, from `WrapAssumption`. `HeardIsJoinedHolds` is an action property, from
`StoryInv`: as long as none of the exceptions came true, the pieces heard of a
datagram are in one entry of the receiver's (`Followed`).

Induction over data is beyond these provers (the library's induction theorems
take an operator). Where a proof needs one over the naturals (the least block
not received, the length of what is delivered at once, the number of a piece),
`InductionFacts` states it of a *set* (`SetInduction`: a set with 0 and with the
successor of each of its elements has every natural), proved from the
well-foundedness of `<`. For the same reason operators are written without
recursion where they can be: `InOrder` chooses the sequence that lists a set by
rank, where a fold would compute it. `Of` and `RefusePending` of `Transmitter` are
recursive functions, of which the proofs show that there is exactly one
(`KeptExists` and `KeptAgree`, `RefusedExists` and `RefusedAgree`) before they
reason about it.

Only model-checked:

* liveness (`AllDelivered`, `KeyComesUp`), which the prover does not do;
* of `Session`: `SomeMaster` (not two slaves), `IdentApart`, `NeverMeet` and
  `EndTogether`, which hold by how the two stations' times compare: a call is not
  taken in a slot of one's own, an identifier falls where the other's slot is
  over, the DISCs are done within so many exchanges. A proof needs an invariant of
  when each station believes the other's slot to end, over every state of both;
  and for the last three, constants that are related as in the code, which the
  assumptions do not ask.
  `EveryEndIdentified` is about one session only
  (section 3), and needs the histories of what each end has said.

## 5. Not modelled

* Signal processing, coding, files, sockets, devices and the user interface hold
  no protocol state; whether a frame decodes is a choice.
* The rate controller (`rate.rs`) is floating-point arithmetic on outcomes; its
  choices are any in every model, so nothing shown depends on it, and nothing is
  shown of how well it chooses.
* `infer_seq` and `ack_history`: which number a frame that did not decode is
  given. A wrong guess costs a combination that fails; `Measurement` lets it be
  any.
* The busy detector and the regulatory gate: their verdicts are choices of
  `Transmitter`.
* Of the engine: probes, `on_tx_delayed`, several callsigns, refusals for
  bandwidth and version, a slave that measures.
* Of the station: bandwidth, calling centre and reserve moves; Pause and Drive,
  the key test, the setup identifier, authorised tokens, uploads; a call that is
  put off by another's.
* Times in `Transmitter` and `Measurement`, and so which slot a delay misses:
  a beacon, or a call the channel holds, keeps an answer behind it waiting, and
  that it goes out in the end was seen for part of the commands only.

## 6. Plan

1. Proofs: `SomeMaster` and `IdentApart` of `Session`, from an invariant that says
   where each station's slot lies on the other's clock, as `Sharing` does for
   `SlotTiming`.
2. `Session`: probes and `on_tx_delayed`; that a leaving station always gets to
   idle, as a liveness property.
3. The sequence number a slot implies to the receiver is the one the sender sent
   there, when the sender laid it out from one of the last two acknowledgements.
4. Calls that move to another bandwidth.
