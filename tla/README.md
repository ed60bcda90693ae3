# Longpath: verification of the transmit core

Longpath is a Qt/C++ client for networked SDR radios (HPSDR protocol 1 and 2,
FlexRadio, SunSDR). These TLA+ modules model the part of it where a mistake puts
a carrier on the air that nobody asked for, or takes one off the air that
somebody did: the MOX/PTT state machine, the amplifier interlock, the gate
between the two and the transmit channel, the choice of the transmitting slice
and its way to the radio, the radio's microphone key, the TUNE cycle, the two-tone
test, the SWR protection, the SWR sweep, and two of the queues that carry audio: the
lock-free byte ring between threads and the buffer that reorders microphone blocks.

`PROJECT.json` is the index: components, runs, the source lines behind every
definition, hazards, findings, theorems. Paths below are relative to the
repository.

    tlc -workers 2 -config MCMoxController.cfg MCMoxController
    tlapm MoxControllerProofs.tla

## 1. Inventory

`RadioModel` (src/models/RadioModel.cpp) owns everything and wires it with Qt
signals. Three ways of interaction matter:

- **Synchronous signals** between objects of the main thread: the subscribers run
  inside `emit`, before the emitting slot goes on. The models make the emitting
  slot and its subscribers one step, in the code's order.
- **Timers and posted calls** (`QTimer::singleShot`, `QMetaObject::invokeMethod`
  with a queued connection): each is a step of its own and may come at any time
  after it was started; most of the program's single-shots can not be cancelled.
- **The TX worker thread** and the audio threads, which share queues and atomics
  with the main thread.

| component | state | operations | what makes it correct | modules |
|---|---|---|---|---|
| MOX/PTT state machine, `core/MoxController.cpp` | committed request, walk state, PTT mode, key-block latch, four timers | `setMox`, `setTune`, PTT slots, timer slots, safety trip | no stale timer ends an abandoned walk; the latch is never overrun; amplifiers hear of a key before the hardware flips; a steady request is reached | `MoxController`, `TxPhases` |
| Microphone key, `MoxController::onMicPttFromRadio` fed by every status frame | frame clock, 150 ms release tail | frame with and without the PTT bit | only the owner's release un-keys; release does un-key | `MicPtt` |
| Amplifier interlock, `core/SmartSdrApiListener.cpp` | clients, acknowledgements, pending source, ack timer, single-shots | TCP lines, request, release, start, stop | a request is answered whatever the amplifiers do; no answer to a request that is over | `AmpInterlock` |
| RF-flow gate, `RadioModel` 1560-1830 and 10400-10500, `core/TxChannel.cpp`, `core/TxWorkerThread.cpp` | two flags, failsafe shots, run state, posted calls | subscribers of the two above | keyed means on the air in the end; un-keyed means silent | `RfGate` |
| TUNE cycle, `RadioModel::setTune`, `completeTuneOff`, `teardownConnection` | tuning flag, latch, settle shots, saved mode | press, release, settle, teardown | everything TUNE changed is undone; no latch waits for a stranger | `TuneCycle` |
| Two-tone test, `core/TwoToneController.cpp` | two flags, three settle timers, saved power | `setActive`, timers, `onMoxRejected` | a reported test runs, OFF ends it, power is given back; the generator never runs unreported (it does: section 5) | `TwoTone` |
| Byte ring, `core/audio/AudioRingSpsc.h` | two counters and a buffer | `tryPushCopy`, `pushCopy`, `popInto`, `dropOldest` | a FIFO of whole frames without races | `AudioRing`, `Fifo` |
| MOX fan-out and TX slice, `core/TxSliceArbiter.cpp`, slice list and `onMoxHardwareFlipped` of `RadioModel`, high-priority datagrams of `core/P2RadioConnection.cpp` | slice list, TX flags, binding, receive channels, two event queues, grace window | add, refuse, remove, retune, hand over, restore; hardware flip; posted calls; heartbeat | one transmitter; MOX is off before it moves; the radio follows MOX although datagrams get lost | `TxSlice` |
| Safety gates, `core/safety/SwrProtectionController.cpp` with `RadioModel::handlePaTelemetry` (`TxInterlockPolicy`, `SwrRiegel`, `TxInhibitMonitor`, `BandPlanGuard` as verdicts or not at all) | trip count, wind-back latch, fold-back factor, settings | telemetry, MOX edges, settings | full drive into a mismatch is bounded; a wind-back stands until receive; nothing leaks into the next transmission | `SwrProtection` |
| SWR sweep, `core/SwrSweepController.cpp` and its lines of `RadioModel` | step, timers, run lengths, saved settings | start, step, telemetry, abort, watchdog, TUNE released | every sweep ends, un-keys and puts frequency and protection back | `SwrSweep` |
| Microphone reordering, `core/audio/MicReorderBuffer.cpp` | expected number, held blocks | push | blocks leave in order, at most once, and only the lost are concealed | `MicReorder`, `MicPlayout` |
| Other queues: `AudioTapRing`, `TciSendQueue`, `TciVfoCoalescer`, `SunSdrTxPacer` | bounded queues | push, pop, coalesce | order within a class, bounded loss | not modelled |
| Streams and receivers: `SliceStreamAllocator`, `ReceiverManager` | tables | allocate, free | no stream in two hands | not modelled |
| PureSignal pump, FT8 sequencer | small state machines | MOX edges, decodes | off when MOX is off; one QSO at a time | not modelled |
| Radio and accessory connections, TCI/CAT servers | sockets, parsers | wire protocols | input/output; their effect is an input here | MOX over protocol 2 in `TxSlice`, else not modelled |
| DSP engine, audio devices, FFT | floating point | signal processing | out of reach of TLC and TLAPS | not modelled |
| GUI, settings, rendezvous service | widgets, files, Python servers | | inputs here | not modelled |

### What is hard about it

- Walks are turned round in the middle (key, un-key and re-key within 130 ms), and
  signals of the old walk meet state of the new one.
- Single-shots outlive what they were started for: the 30 ms amplifier settle,
  the 1500 ms failsafe, the 100 ms TUNE settle.
- MOX and frequency reach the radio by different ways of different length, in
  datagrams nobody acknowledges.
- Start of the TX channel is a direct call, its stop is posted to a thread that
  takes posted calls only between microphone blocks.
- Refusals come in two kinds, one with `moxRejected` and one without a word, and
  come back synchronously into the middle of the caller.
- Two sources share one MOX: every "un-key" may end somebody else's transmission.
- Amplifiers vanish, stay silent, leave and rejoin between any two steps.

Every one of these is listed at its line under `hazards` in PROJECT.json with the
properties that would catch it.

## 2. Modules

    MoxController                                TxPhases   <== MoxController
         ^                                       Fifo       <== AudioRing
         |-- MicPtt                              MicPlayout <== MicReorder
         |-- TuneCycle <-- SwrSweep
         |-- TwoTone
         |-- SwrProtection
         |-- TxSlice
         +-- RfGate --> AmpInterlock

    MoxControllerProofs <-- RfGateProofs, TxSliceProofs, MoxUsersProofs
    AmpInterlockProofs  <-- RfGateProofs
    TuneCycleProofs     <-- SwrSweepProofs
    MoxUsersProofs
    QueueProofs

An arrow leads to the module that is taken with `INSTANCE` or `EXTENDS`, a double
arrow to the specification that is implemented. Every `XProofs` extends `X`;
`MoxUsersProofs` extends SwrProtection and takes MicPtt and TwoTone as instances (`Ptt`,
`Test`), and `QueueProofs` extends AudioRing and takes MicReorder as an instance (`Mic`).

A composing module declares the variables of what it composes, takes the
component with `INSTANCE`, and conjoins the component's action with what the
subscribers do. `signals` of `MoxController` and `granted` of `AmpInterlock` are
the emissions of the last step; they are what a subscriber sees.

**MoxController.** One action per public slot and timer slot. `SetMox(on,
verdict)` is the common body: the key-block latch and the two pre-flight checks
(band plan with `moxRejected`, interlock policy silently: `verdict`), the
idempotent guard, and `BeginWalk`, which is `stopAllTimers()` with the start of
the new walk. An OFF request always releases the latch, also when MOX is off.
`RadioModel::setMox` adds nothing to the state and is `RequestMox`.
`OpenAntennaTrip` is the subscriber of the SWR protection: un-key, then latch.
The PTT mode is claimed before the request is judged and is never given back, as
in the code. Durations are abstracted: a running timer may elapse at any time,
which includes every real schedule. The CW break-in states that exist as
enumerators only are left out.

**TxPhases** is what those who listen to MoxController may rely on without knowing
its walk: the announcements tell one story, in five phases. "Ready" is heard only of
a key nobody has taken back since, "over" only of an un-key nobody has overtaken, and
the same request is not announced twice. MoxController implements it with the phase
read off the walk state (`PhaseOf`) and the emissions of the step as what is heard.

**MicPtt.** `MoxController` with a clock, because the defect at stake is about
durations: every status frame calls `onMicPttFromRadio`, and each frame without
the PTT bit restarts the 150 ms tail. `FrameTicks` and `TailTicks` keep the ratio
of the two. The second source is the MOX button. `owner` and `seen` are history.

**AmpInterlock.** Per client its place in the interlock, plus the handshake. A
TCP line, a timer slot and a call from `RadioModel` are actions; the 0 ms post of
`advanceToTransmittingIfReady` and the 30 ms settle are steps of their own, the
latter counted because several can be outstanding. The age of an acknowledgement
(500 ms) is a choice: a new request may keep any subset of the old ones. A
request to TRANSMIT with no client at all is granted at once. The history `request`
says how the last request ended: with a grant, or cut off by `stop()`, after which
nothing is left that would answer it. `RequestNotLost` and `RequestIsAnswered` speak of
requests that are still open. That the wait ends after 500 ms *with a grant* is what the
code does and not what its header promises; no property of the run claims it, and
`SettleMeansAcked`, the header's promise, is listed in section 5.

**RfGate.** Both of the above with `RadioModel`'s subscribers: `txAboutToBegin`
arms the gate and asks, `txReady` and `interlockGranted` in either order start the
channel, `moxStateChanged(false)` cleans up, the failsafe opens a gate that nobody
answered. `stops` are `setRunning(false)` calls in the event queue of the TX
worker, which takes such a call at once (a microphone feeds it) or much later (none
does); the properties say which they assume. The subscribers and the failsafe ask for
`m_txChannel` first (RadioModel.cpp:1810, 10462, 10478); it exists as long as the
radio is connected, which is assumed here. A stopped interlock server is part of the
model: the failsafe is then all that gets a keyed operator on the air
(`PromptStopGetsRf`).

**TuneCycle.** `setTune(true)` saves the DSP mode, swaps CW for the sideband,
starts the tone and keys; a refusal calls `setTune(false)` in the same step.
`completeTuneOff` comes 100 ms after `rxReady`, or after the release if MOX was
off. Everything else TUNE saves (tune power, filter, meter) is saved and restored
by the same lines as the mode and stands or falls with it. `teardownConnection`
clears the latches and leaves MoxController alone.

**TwoTone.** `setActive` with its 200 ms MOX-release settle, the delayed second
tone, the 200 ms deactivation settle, the power snapshot, and the rejection that
comes back while `continueActivation` is in its call to `setMox`. The operator presses
at any time, within the settles too: an OFF leaves `m_activationInFlight` to the
deactivation settle, a repeated ON commits before the settle of the first, and a
MOX-release settle may elapse when its activation is over, committed by another press or
ended by the deactivation settle of an earlier OFF. It then sets the generator up once
more, in the second case without a commit, so that the next OFF is taken for a repeat. `stale` is the history of that event; the
properties hold until it happens, and it can happen (`RunningIsReported`, section 5).

**SwrProtection.** A telemetry sample goes through `ingest` whole: suspension by
measurement mode and its power ceiling, TUNE and its exemption, the open-antenna
test, the trip count with its debounce, the latch. Powers are small integers in
which the thresholds of the code keep their order (`MCSwrProtection`). The
open-antenna trip un-keys through MoxController and then sets its key block. `exposed`
is history: mismatched samples in a row at full drive, over transmissions.

**SwrSweep.** The sequencer over TuneCycle: the carrier it keys is a TUNE of
`RadioModel`, which the operator, a refusal or a trip may take away. Step timer and
watchdog are flags that may elapse at any time; a measurement is a verdict (good,
mismatched, dead), with the run lengths that end a sweep early. A teardown severs the
signals first, as `teardownConnection` does, and a later session finds the sweep as it
was.

**TxSlice.** Three queues between a request and the antenna: `hardwareFlipped`
posted to the main loop, calls posted to the connection thread, and datagrams that may
be lost. A handoff runs `setMox(false)` and pushes the frequency of the new slice
in one step; the flip it causes comes later. A frequency is named by its slice. The
radio is a protocol 2 radio: a datagram carries MOX and frequency, `setMox` sends
nothing for a repeated value, and the 100 ms heartbeat repeats the state while keyed
and for a grace period after the un-key.

**MicReorder.** A sender numbers blocks modulo `2 * Half` and from zero in a new
session, which comes with `reset()`; the network loses, doubles and delays them up to
`Lag` places; `Push` is the code's
`push` on signed distances. `held` is a function from the slots in use, as `m_pending` is
an array of slots, so that a block keeps its slot until it is emitted. **MicPlayout** is what it promises: each position filled
once and in order, by its block or by concealment, and a jump only over a gap that
`ResyncDelta` allows. The map from number to position is the refinement mapping.

**AudioRing** takes each atomic access and each copied byte as a step of producer
or consumer. The acquire/release pairs give the order of counter and bytes; each
counter has one writer; so interleavings of these steps are the executions C++
allows. Counters wrap with `size_t`. **Fifo** is the abstract queue;
`AudioRing!IsFifo` is the refinement, with the live bytes of the buffer between
the counters as the queue. An input larger than the ring is cut (`BeginPush`), but
the runs push only what fits: no caller in the program pushes more, and the cut
leaves an odd number of bytes.

The MC modules give the CONSTANTs their values and hold nothing else.

## 3. Runs

| run | distinct states | question | bounds and why they are enough |
|---|---|---|---|
| `mox` | 365 | the walk turned round at any point, by any source, with refusals and trips | VOX and CAT stand for the PTT slots, which differ in the mode they claim; the state is finite without a bound |
| `amp` | 25,034 | the handshake against two amplifiers that may do anything, and a server that stops and starts | two clients: one that answers and one that does not is what the wait distinguishes; `MaxShots = 3` single-shots when a request is made, so shots of two earlier transmissions meet a third |
| `rfgate` | 142,130 | is the operator who stays keyed on the air in the end, is the gate clean in receive, does the channel stop | one amplifier (the interlock reports only "some / none joined, all / not all ready" to the gate); two old shots, two old failsafes |
| `rfgate_stale_stop` | violation | the same late stop against the next transmission | |
| `mic` | 1,052 | a held key transmits, an idle stream harms nobody | one tick per frame, three per tail: frames come closer together than the tail lasts, as with the 50 to 100 frames per second of the radios |
| `tune` | 5,477 | is every TUNE-off completed and everything undone | three settle shots: two cycles and a refused press |
| `twotone` | 4,546 | the test against presses at any time, other sources, refusals and trips | the state is finite without a bound; `stale` marks the one order of events in which the code goes wrong (section 5) |
| `ring` | 280,856 | is the ring a FIFO of whole frames, is it race free, does a wait end | eight bytes, seven usable, which no number of two-byte frames fills; counters wrap at 16; two payloads that tell loss, doubling and shift apart |
| `txslice` | 589,520 | one transmitter under every order of slice operations, and a radio that follows MOX and frequency | three slices: the bound one, its successor, a bystander; two flips and two pushes under way, so that those of an un-key and of the next key meet; one datagram lost in a row against one heartbeat of grace (ten of the code) |
| `micreorder` | 247,875 | ordered playout over loss, doubling, delay, wrap and renumbering | twenty blocks with numbers modulo 16, so the numbers wrap; delay of five places with a depth of four, so a late block comes before and after it was given up; a jump of six resynchronises |
| `swrprot` | 2,256 | is full drive into a mismatch bounded, does the wind-back stand and end | debounce of four samples as in the code; one reading on either side of every threshold; the state is finite without a bound |
| `swrsweep` | 186,578 | does a sweep end un-keyed with everything put back | three points; an early end after two reflecting points, in reach, and three dead ones; settle shots as in `tune` |

Every passing run completes the state space without a state constraint and
checks for deadlock. Where a bound is a guard (`MaxShots`, `MaxFailsafes`,
`MaxSettles`) it delays a new request of the operator until an old shot has
elapsed; it never drops a shot.

`TypeOK` is checked on its own or as a conjunct of the invariant every step of the
module relies on (`MoxInv`, `GateInv`, `TuneInv`, `TestInv`, `RingInv`, `SliceInv`, `HoldInv`,
`ProtectionInv`, `SweepInv`).

### Fairness

Weak fairness is assumed of timers that run (Qt delivers them as long as the event
loop turns), of posted calls, of the radio's frame stream, of the TX worker once a
microphone feeds it, and of the two threads of the ring, whose consumer is an audio
callback that comes again and again. The network of TxSlice loses at most `MaxLost`
datagrams in a row, no more than the heartbeats of the grace window: a longer loss is
outside of what kMoxOffGraceMs is meant to cover, and would leave the radio keyed. Nothing is assumed of the operator, the other
sources of MOX, the amplifiers, or the session. Liveness properties are therefore
conditional: `<>[]mox => <>[]running` speaks of the operator who stays keyed.

## 4. Proofs

For every value of the constants: any set of PTT slots and of amplifiers, finite or
not, any number of slices, any coupler, limit, threshold and sweep, any capacity and
counter range of the ring, any depth, resync distance and range of numbers of the
microphone buffer, and every bound of section 3. One condition is named in the table:
the tail outlasts a frame. The operator of the two-tone test presses whenever he likes.

| theorem | of | states |
|---|---|---|
| `TypeCorrect` | MoxController | `[]TypeOK`, with the emission sequences |
| `WalkStaysConsistent` | | `[]WalkConsistent`: the running timer is the one the state waits for, and the state is on the requested side |
| `WalkHolds` | | `[]MoxInv`: the two together, as the run checks them |
| `WalkTellsOneStory` | | `IsTxPhases`: the controller implements TxPhases |
| `LatchHolds` | | `[]LatchMeansUnkeyed` |
| `KeyingAlwaysAnnounced` | | `KeyingIsAnnounced`, an action property |
| `TypeCorrect` | AmpInterlock | `[]TypeOK` |
| `RequestNeverLost` | | `[]RequestNotLost`: a request nobody has cut off has its timer or its settle |
| `TimerOnlyWhileWaiting` | | `[]TimerMeansWaiting` |
| `GateHolds` | RfGate | `[]GateInv`: types, a gate that follows the walk, a closed gate whose grant is still to come |
| `SilenceAlwaysTimed` | | `[]SilenceIsTimed`: a closed gate on the air has its own failsafe |
| `PartsStayCorrect` | | the invariants of MoxController and AmpInterlock inside the composition |
| `LatchNeverStranded` | TuneCycle | `[]TuneInv`: types, and a TUNE-off that something will complete |
| `CycleAlwaysUndone` | | `[]TuneUndone` |
| `SweepHolds` | SwrSweep | `[]SweepInv`: types, a timer for every sweep, a sweep for every carrier |
| `SweepAlwaysUndone` | | `[]SweepIsUndone` |
| `CycleStaysCorrect` | | the invariants of TuneCycle under a sweep |
| `ProtectionHolds` | SwrProtection | `[]ProtectionInv`: types, a clean receive, an open antenna that holds |
| `ExposureStaysBounded` | | `[]ExposureIsBounded` |
| `WindBackAlwaysStands` | | `WindBackStands`, an action property |
| `ClockHolds` | MicPtt | `[]TypeOK` |
| `StreamIsHarmless` | | `IdleStreamIsHarmless`, an action property, for `FrameTicks < TailTicks` |
| `TestHolds` | TwoTone | `[]TestInv`: types, a reported test that runs, an activation that is timed, and until a stale settle no generator that is not reported |
| `PowerAlwaysGivenBack` | | `[]PowerGivenBack`: the operator's power is back whenever the generator is off, until a stale settle |
| `SliceHolds` | TxSlice | `[]SliceInv`: types, distinct slice ids, one transmitter |
| `SettledAlwaysAgrees` | | `[]SettledAgrees`: connection, radio and receivers after everything posted |
| `HandoffAlwaysDropsMox` | | `HandoffDropsMox`, an action property |
| `RingHolds` | AudioRing | `[]RingInv`: types, no byte written while it is read |
| `FramesHold` | | `[]FramesStayWhole` |
| `RingIsFifo` | | `IsFifo`: the ring implements Fifo |
| `HoldStaysShort` | MicReorder | `[]HoldInv`: types, and a short hold |
| `OnlyLostConcealed` | | `ConcealOnlyLost`, an action property |
| `BufferPlaysOut` | | `IsPlayout`: the buffer implements MicPlayout |

### The invariants

**MoxController**: `TypeOK /\ WalkConsistent /\ LatchMeansUnkeyed`. The half that says
"the state is on the requested side" is not inductive by itself: a timer slot moves
the state without looking at it, and keeps it on the right side only because the
running timer is known to be the one of that state, which is the other half of
`WalkConsistent`. All request slots go through the lemma `SetMoxKeepsInv`, the proof
about `setMox` for any claim of PTT mode. The announcement follows from the
invariant: a step that sets `mox` passed the latch, and `BeginWalk` is the only source
of the pair. `WalkTellsOneStory` maps the initial states and each step: a timer slot
announces whatever it was written to announce, in whichever state it finds the walk, so
that its step is one of TxPhases only because the running timer is the one of the
current state; that is `WalkConsistent` once more, and a request is a Key or an Unkey
because the state is on the side of the request it turns round.

**AmpInterlock**: `TypeOK /\ RequestNotLost /\ TimerMeansWaiting`. They need each
other: the timeout starts a settle only for a pending source and otherwise just ends, so
"not lost" needs "the timer means waiting", and both need the range of the shot counter.

**RfGate** is composed of these two, and their proofs are taken over whole:
RfGateProofs instantiates MoxControllerProofs and AmpInterlockProofs, shows that each
step of the gate is a step of either or leaves it alone (`MoxPartStep`, `AmpPartStep`),
and cites their lemmas `NextInv`. What the gate adds is `GateFollowsWalk`,
`ClosedGateIsUnanswered` and `SilenceIsTimed`, and that the key block stays clear here,
without which a request for ON could be refused after the gate had armed.

**TuneCycle** adds `CycleKeepsMode` to `TuneInv` and `TuneUndone`: an undisturbed cycle
holds the operator's mode in `saved`, and a latched TUNE-off belongs to a cycle.
Without it the completion could restore a mode of an earlier cycle.

**SwrSweep** takes TuneCycle's proof over in the same way. Its own invariant adds
`CarrierIsKept`: no release is latched while the sweep's carrier is on, since pressing
TUNE clears the latch. Without it the settle shot of an earlier release could end
TUNE under the sweep, and `CarrierHasSweep` is not inductive.

**SwrProtection** adds three facts to `ProtectionInv`: a wind-back is at one percent, an
open antenna has set the key-block latch (so that no request keys), and the trip
count has counted every sample of the exposure. The last one carries the bound: the
count survives the un-key (`OnMoxOff` leaves it), so the exposure of several short
transmissions adds up in it. Which sample trips (the SWR arithmetic of `IsTrip`) is not
used.

**MicPtt**: the tail has more to run than the next frame has to come
(`TailOutlastsFrame`), as long as the microphone is the claimed source and the last
frame came without the bit. A frame restores it, a tick takes one from either side. So
the tail ends a transmission only after a frame that reported the key. The theorem
assumes `FrameTicks < TailTicks`, which every radio of the program meets (10 to 20 ms
against 150 ms); with a slower stream the property fails (section 5).

**TwoTone**: three parts. A test that is committed runs and a snapshot belongs to a
generator that runs; every end of a test clears the three together. An activation under
way has the timer that will end it, the MOX-release settle or, after an OFF, the
deactivation settle (`TestRuns`). And as long as no MOX-release settle has outlived its
activation, the generator runs only for a committed test and the operator's power is
either in place or in the snapshot (`PowerIsKept`), so that the next snapshot can not
take the test's power for the operator's. A stale settle breaks just this part: it sets
the generator up a second time.

**TxSlice**: `SettledAgrees` speaks of the moment when all queues are empty, so the
invariant says where the truth is while they are not (`Route`). The posted flips
alternate and the last one is `mox`; `Keyed`, which the flips worked off so far have
made of the hardware, decides which receiver rests; the newest call of either kind
carries what the connection will be told. `RadioWillKnow` counts: after the un-key, a
radio that still transmits has missed as many datagrams as the grace window has spent,
so with `MaxLost <= GraceBeats` (`MaxLostAssumption`) it can not be missing the last
one. The operations on slices share one lemma: each keeps the list and the receivers
(`ListKept`), and leaves the transmitter, moves it to a live slice through `MoveTo`, or
happens before the first slice (`Stays`, `Moves`, `Unborn`).

**AudioRing**: `TypeOK`, `CountersAgree` and `CopiesAgree`. Each thread's copy of the
other's counter is out of date on the safe side (`CountersAgree`); therefore no byte is
written while it is read, and therefore what has been copied so far equals its source
(`CopiesAgree`), which is what the refinement needs when the counter is published. The
first half of the module is about remainders: counters are compared modulo the range
of `size_t` and index the buffer modulo the capacity, and the one divides the other
(`RingAssumption`). `RingIsFifo` maps the initial states and each step: `Publish` is the
queue's push, the consumer's last step its pop or drop, everything else a stutter.
`FramesStayWhole` carries its condition in the property: `FramesFit`, no input larger
than the ring and a counter range that the frame divides. MCAudioRing assumes
`FramesFit` of its instance, so the run does not hold vacuously; in the program a frame
is a power of two of bytes, and no caller pushes more than the ring holds.

**MicReorder**: `BufferInv` says what the buffer's few members stand for while a session
runs. `Turn(d)`: one position `d` is due; `nextSeq` is its number, `lastEmitted` the block
before it, and every slot in use holds a block ahead of `d`, each position in one slot
(`Fits`). A number stands for many positions; that `d` is the one meant follows from
`sent - d < Half`, which is why the outage bound is in the invariant. The lemma
`DistanceIs` does the rest: within half of the numbers the signed distance of two numbers
is the distance of the positions, across a wrap or not, so every test of `push` is a
comparison of positions. `Emitted` says what a push emits: the run of held blocks ends
because each of its positions takes a slot (`RunEnds`), and the slots it finds are those
of the positions (`SlotsOfPosition`). With it each of the five pushes has one lemma,
which names what came out and what goes on waiting; `HoldInv`, `ConcealOnlyLost` and the
refinement are read off those. For `ConcealOnlyLost`: the blocks here when a gap is given
up are at least `Depth`, and each of them either comes out or still waits. For the
refinement, `next` is the due position and `waiting` the held ones: a block in turn is
Start or Play, one that conceals is Play, one held back is Wait, a jump is Skip,
everything else is Nothing or NewSession.

### Assumptions and limits

`PttKeysAssumption` (the slots are among the four of the code), `MaxShotsAssumption`,
`RfGateAssumption`, `MaxSettlesAssumption`,
`SwrProtectionAssumption` (readings and thresholds are natural numbers, the debounce
count is not zero), `SwrSweepAssumption`, `MaxSlicesAssumption`,
`GraceBeatsAssumption`, `MaxQueueAssumption`, `MaxLostAssumption`, `RingAssumption` and
`MicReorderAssumption` (the depth fits the slots, these the resync distance, and that and
the delay of the network half of the numbers). TLC evaluates all of them in the runs.

Each invariant was model-checked before it was proved.

Only model-checked is liveness, which is out of the prover's reach: `RequestIsHonoured`,
`RequestIsAnswered`, `PromptStopGetsRf`, `CarrierStops`, `HeldKeyTransmits`,
`TuneOffCompletes`, `BothTones`, `OffEndsTest`, `WaitEnds`, `RadioFollows` and `SweepEnds`.
Every other property of a passing run has a theorem.

## 5. Where code and comments part

Finding with a run (the counterexample is the run's):

- **`rfgate_stale_stop`**: `txaFlushed` posts `setRunning(false)` to the worker,
  `txReady` calls `setRunning(true)` directly. With a microphone that feeds no
  blocks the stop waits, comes after the next transmission's start and silences it.

Known deviations without a run of their own. Each is a property of the named
module, stated from the comment, and TLC finds it violated with the named CONSTANTs
within seconds:

| property | CONSTANTs as in | what happens |
|---|---|---|
| `AmpInterlock!SettleMeansAcked` | `amp` | SmartSdrApiListener.h:162-166: after 500 ms without all acknowledgements the radio does not fall through to TRANSMITTING, `interlockBlocked` is emitted and MOX rolled back. Since a change of policy (the comment at SmartSdrApiListener.cpp:532) `onPttAckTimeout` grants whoever stays silent; `interlockBlocked` is emitted nowhere, and its subscriber (RadioModel.cpp:1707) would continue to transmit |
| `AmpInterlock!GrantedOnce` | `amp` | the settle of an earlier transmission grants the next one a second time (SmartSdrApiListener.h:156 "exactly once") |
| `AmpInterlock!TransmittingMeansActive` | `amp` | un-key within the 30 ms settle: TRANSMITTING goes out after the un-key |
| `AmpInterlock!StopCancelsPending` | `amp` | `stop()` stops the timer of the wait but leaves `m_pttPendingSource` set: the request looks as if it waited, and nothing will answer it (SmartSdrApiListener.cpp:72) |
| `RfGate!LateGrantIsIgnored` | `rfgate` | un-key 500 to 520 ms after keying with an amplifier that stays silent: the 530 ms grant comes between `txaFlushed` and `moxStateChanged(false)` and restarts the drained channel (RadioModel.cpp:1641-1644) |
| `RfGate!NoCarrierWhileAwaiting` | `rfgate` | a re-key before the drain arms the gate over a running channel |
| `RfGate!FailsafeIsOwn` | `rfgate` | re-key 1.4 s after keying: the first failsafe opens the second gate |
| `MicPtt!ReleaseUnkeys` | `mic` | frames come every 10 to 20 ms and each one without the bit restarts the 150 ms tail, so the tail never elapses and a released microphone key does not un-key (P1RadioConnection.cpp:3396 "repeated false calls are harmless") |
| `MicPtt!PressCancelsTail` | `mic` | a press while MOX is on returns before `stopAllTimers()` (MoxController.cpp:551, 1267-1270) |
| `MicPtt!IdleStreamIsHarmless` | `FrameTicks = 3, TailTicks = 2` | after a gap in the stream the tail ends a transmission the MOX button took over, since the button claims no PTT mode |
| `TuneCycle!PressKeepsLatch` | `tune` | after a trip a TUNE press is refused, but cleans up through `setTune(false)`, an OFF request that releases the latch: the second press keys into the open antenna (MoxController.h:300) |
| `TuneCycle!TuneRestoresMode` | `tune` | a second TUNE press within a cycle saves the swapped mode as the operator's |
| `TuneCycle!ToneOffIsIdle` | `tune` | off 0 ms, on 50, off 125: the settle of the first `rxReady` at 130 stops the tone on a running channel |
| `TuneCycle!TeardownStopsWalk` | `tune` | MoxController's timers run on after the teardown (RadioModel.cpp:15731 says they are stopped) |
| `TwoTone!RunningIsReported`, `EngagesOnce` | `twotone` | on, then on again within the 200 ms in which MOX is released: the second press commits the test at once, and the settle of the first activates once more, with the test's power as the operator's (TwoToneController.h:304). On, off, on within 200 ms, with MOX keyed by somebody else before either ON: the deactivation settle of the OFF ends the second activation, whose MOX-release settle then starts generator and MOX with the test reported off |
| `TwoTone!CommitMeansKeyed` | `twotone` | the interlock policy denies without `moxRejected`: the test is committed and shown as running, with the generator on and MOX off (TwoToneController.cpp:394) |
| `TwoTone!OthersRejectionIsIgnored` | `twotone` | any source's rejected request ends a running test |
| `AudioRing!TryPushWritesWhatFits` | `ring` | the first paragraph on `tryPushCopy` describes the partial write that the alignment note below it abolished |
| `TxSlice!FrequencyMovesUnkeyed` | `txslice` | a handoff's frequency push is posted at once, the un-key only from the event loop: the radio moves while it still transmits (RadioModel.cpp:954) |
| `TxSlice!OrphansAreStopped` | `txslice` | the TX slice is removed while keyed: un-keying switches the channel of the removed slice on again (RadioModel.cpp:4455, 6093) |
| `TxSlice!MutedWhileKeyed` | `txslice` | a retune while keyed switches the muted receive channel on (RadioModel.cpp:5532) |
| `SwrProtection!EverySampleFolds` | `swrprot` | stage 1 folds on the fourth mismatched sample in a row, not on any sample over the limit (SwrProtectionController.h:88) |
| `SwrProtection!HighSwrIsCurrent` | `swrprot` | `highSwr()` is not the verdict on the most recent sample: the first three samples over the limit do not set it |
| `SwrSweep!SweepDiesWithRadio` | `swrsweep` | the teardown severs the signals by which the sweep would be told of it: it goes on until its watchdog (RadioModel.cpp:15942, 16356) |

Read but not modelled: `pttMode` is never reset to None although MoxController.cpp
expects RadioModel to do so; `teardownConnection` leaves MOX keyed; a safety trip
during TUNE leaves the tuning flag set until the operator releases TUNE; a coupler
that shows more reflected than forward power is taken for a perfect match
(SwrProtectionController.cpp:192); after `SwrRiegel` has broken a transmission, one
that is keyed at the radio itself is not broken again until `flexTasten` or
`flexAbstimmen` has run; a block renumbered backwards without a new start is dropped as
stale until the numbers have caught up.

## 6. Not modelled, and why

Signal processing and device input/output (floating point, hardware), wire
protocols and their parsers (their effect enters as input), widgets, settings. These
are by far the most lines of the program: `MainWindow`, `SpectrumWidget`, the applets,
the TCI server, the codecs.

Of the modelled files: VOX and anti-VOX parameter setters of MoxController, the slice,
meter and status text protocol of SmartSdrApiListener, everything of RadioModel
and P2RadioConnection outside the named ranges, the DSP of TxChannel. Of TxSlice's
subject: saving the binding, the teardown of the session, a stream binding that is
suppressed, antenna routing. Protocol 1 sends its state in every frame of a steady
stream and needs no grace window; it is not modelled.

Control that could be modelled and is not: the keying path of FlexRadio with
`SwrRiegel`, the two slice/stream tables (`SliceStreamAllocator`, `ReceiverManager`),
the PureSignal pump, the FT8 sequencer, the reconnect logic of the accessories, the
second byte ring (`AudioTapRing`), the TCI send queue, the SunSDR pacer. Their hazards
are listed without a property.

Real time is abstracted except in MicPtt: a counterexample is listed above only
after its timing was found possible with the constants of the code.

## 7. Plan

The modules above cover the transmit side. Next, in this order: `FlexKey` (the
FlexRadio keying path with `SwrRiegel` and its per-band verdicts), `TxInterlockPolicy`
in place of the free choice of `Verdicts`, `AudioTapRing` as the second implementation
of `Fifo`, `TciSend`, `SliceStreams`.
