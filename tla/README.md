# DormSense in TLA+

Specifications of the concurrent and failure-prone parts of XiaoXi DormSense, model-checked with TLC
and proved safe with TLAPS. Every definition is a translation of code under `src/`;
`PROJECT.json` ("map") says which lines each one stands for.

## The system

| part | state it keeps | operations | talks to |
|---|---|---|---|
| **node01** (`firmware/arduino-uno-r4`) | EEPROM boot record, sample sequence, SHT31 line buffer, gesture tracker, TLS budget | sample every 10 s, scan the button every 12 ms, reconnect | broker: raw telemetry, status (retained, with a will), button events |
| **node02** (`firmware/esp32-c3-ir`) | boot counter in NVS, ring of 8 command ids, learning window, one prepared waveform | the handler of MQTT commands, IR receiver polling, reconnect | broker: commands in, events out |
| **validator** (`services/bridge/validator.py`) | per attempt: handshake, one unfinished publish; on disk: `sequence.json` and its lock | `accept()`, MQTT callbacks, `run()` | broker: raw topics in, validated topics out |
| **learning service** (`services/ir_learning`) | profiles and `active.json`, the open window, a collector, waiting replies; replay journal | start / next / confirm / skip / cancel, MQTT callbacks, watchdog | node02 through the broker |
| **control API** (`control.py`, `server.py`) | the queue of its one HTTP thread | learning operations, list, send | the learning service, `replay_once`, Hermes over HTTP |
| **proxies and gateway** (`services/bridge`) | sixteen slots; per tunnel two sockets, three clocks, a chunk in hand | admit, read and answer a CONNECT, relay; authorise and project one request | Home Assistant, model providers |
| **Hermes plugins and patch** (`hermes`) | a tool call's request and its timeout; in the browser voice session, speech request, last button event | learn, list, send; record, transcribe, speak, poll | control API, gateway |
| **analytics** | for one pass: active and retired boots, high-water numbers, the filter, the health of the last row | summarise the archived rows | Home Assistant's recorder |

What is hard about them: two processes may share the gate's files or a replay's journal, and die or lose power
between two system calls; three threads of the learning service let go of one lock before they take another;
messages are lost, late, repeated or overtaken by a reboot; counters and clocks are 32 bits wide and wrap; a
publish that failed may still arrive; several limits (8 ids, 128 records, 1 unfinished publish, 60 s backoff)
are reached in normal use; the page's callbacks (permissions, recordings, transcripts, syntheses) come after
what they belonged to was given up; only the last button event is kept; a request outlives the tool call that
made it; a peer of a tunnel half-closes, stops reading or sends ahead; the archive's rows are in the order of
writing, not of measuring. `PROJECT.json` ("hazards") lists each at its line with the properties that cover
it, or the reason none does yet.

What makes each part correct:

* gate: what it accepts is strictly increasing for the life of the deployment; after a loss it refuses;
* relay: validated subscribers see each sample at most once, in order; the status is never stuck; an
  attempt always ends;
* replay: a command id reaches the diode at most once, only after it is durably used up, with the right
  waveform, in time, and the outcome told to the user is true;
* learning: a record vouched for by the library is about the state the remote really was in, a window
  gives at most one record and always closes, saved records survive;
* control: what the model is told about a send is true, a send never disturbs a learning window, nobody who
  stalls blocks the others;
* node01: boot counts never repeat; a value labelled `ok` is recent; a gesture is reported once;
* voice: the microphone is let go, nothing is sent twice, an interrupted reply stays silent;
* proxies: no slot is lost or doubled; a stream's end is passed on only after all its bytes; a tunnel ends
  only for a cause, and always in the end;
* analytics: what is counted is one history, an estimate rests on its latest unbroken part, "fresh" is now.

## Modules

| module | models | kind |
|---|---|---|
| `Segments` | `<boot_count, sequence>` and Python's tuple order | shared operators |
| `ReplayGuard` | what the gate promises: an increasing history | abstract specification |
| `SequenceGate` | `SequenceGate.accept` at the granularity of system calls, with crashes, power failures, losses and repairs | detailed |
| `Relay` | `Relay`'s callbacks and `run()`, a broker, a network and a clock | detailed |
| `RelayProofs` | theorems about it | proofs |
| `OneShot` | what a replay promises: used up on disk, then sent at most once | abstract specification |
| `RawReplay` | `replay_once` and its journal against node02's command handler | composition of host and node |
| `RawReplayProofs` | theorems about it | proofs |
| `LearningSession` | `LearningSession`, `LearningTransport` with their three threads, node02's window, the person | composition |
| `LearningSessionProofs` | theorems about it | proofs |
| `Node01` | node01's boot record, sampling loop, clock and MQTT session, with the broker's side of it | detailed |
| `NodeToGate` | a sample's way: `Node01`'s samples delivered to `SequenceGate` | composition |
| `NodeToGateProofs` | theorems about `Node01`, `SequenceGate` and both together | proofs |
| `GestureProtocol` | what readers of button events rely on: long press and release alternate | abstract specification |
| `ButtonGesture` | `ButtonGestureTracker.update`, `poll_button` and the animation they switch | detailed |
| `VoicePage` | the voice card of the chat page: one recording, one spoken answer | component |
| `PushToTalk` | `VoicePage` with node01's events, Home Assistant, the gateway and the poll | composition |
| `HoldToTalk` | `PushToTalk` with the tracker of `ButtonGesture` in the protocol's place | composition, implements `PushToTalk` |
| `HoldToTalkProofs` | theorems about `ButtonGesture`, `PushToTalk` and both together | proofs |
| `Control` | a tool call's way: plugin, HTTP server, `IRControl`, the session's window, `replay_once`, the operator's command line | composition, implements `OneShot` |
| `ControlProofs` | theorems about it | proofs |
| `BytePipes` | what each direction of a tunnel promises | abstract specification |
| `Egress` | both proxies: slots, threads, request, connection, relay and its three time limits, two peers | detailed |
| `EgressProofs` | theorems about it | proofs |
| `EnvironmentSummary` | the loop of `environment.py` over the rows of one channel | detailed |
| `EnvironmentSummaryProofs` | theorems about it | proofs |

`MC*` modules only add symmetry sets and the constraints named below; the `.cfg` files give the constants
their values. Each component's module has a `TypeOK`, which is proved. `SequenceGate` and `ButtonGesture` have their names
prefixed (`GateInit`, `ButtonNext`), since a composition extends them together with what they meet.

### SequenceGate

One action per system call of `_accept_locked` (`OpenLock`, `Flock`, `WriteMarker`, `SyncMarker`,
`CheckMarker`, `ReadState`, `Replace`, `SyncAndAccept`), because another process may run or the machine
may stop between any two. `Fail` is an exception of any of them: `accept()` returns `False`, and whatever
was already done to the disk stays. `lock` and `state` are the files as processes see them, `diskLock` and
`diskState` what `fsync` has made durable; `PowerLoss` picks anything between the two. `LoseFiles` and
`Restore` are the operator of the module's docstring: files go only while no call runs, a trusted mark is
one that no accepted sample is above, and a worker is not started on an emptied volume. The relay takes
part as any sequence of segments, in any order, at any instance.

### Relay

`relay` is the object's fields; each callback is an action that consumes the next packet, with its early
returns as disjuncts. `Publish` has two outcomes, queued or failed. `WritePublish` is paho writing the
packet out later, `BrokerPublish` the broker reading it, perhaps after the client is gone. The gate appears
as its high-water `mark`: `SequenceGate` shows that this is sound. `run()` is `Connect`, `Checks`,
`EndAttempt`; a restart keeps only the mark. `Pass` is the clock passing a deadline. `calm` says when the
last fault is over, so that convergence can be asked for.

### RawReplay and OneShot

A host is a run of `replay_once`; `at` is the wait it is in. `journal[c]` is the file of command id `c`,
`durable[c]` what a power failure leaves of it. The node keeps one prepared waveform, the ring of recent
ids, and a clock counted modulo `Modulus` (2^32 in the code); `Remaining` and `BeforeDeadline` are the
firmware's unsigned and signed differences. A command may be lost, delivered twice or late; a reboot clears
the ring and may come back with the same boot id, since the result of writing the counter is not looked at.
`OnOther` is any other publisher of commands. `Tick` does not let a preparation become half a turn of the clock
old: `loop()` drops what has expired in every pass, and 2^31 ms are 25 days. The refinement maps `consumed` to the ids whose journal says
so durably and `emitted` to the ids sent.

### LearningSession

The HTTP thread, the MQTT thread and the watchdog are separate: `http` is where the first is inside
`transport.arm` or `cancel`, `callback[t]` what the others have taken from the transport and not yet given
to the model. Saving is an action's effect, in file order; `StartCut` is the one death between the two
files that matters, the first. Frames carry `was`, the state the remote was really in, which no code reads:
it is what the properties compare with. The person follows the prompts (`MayPress`): while the service
takes the context for certain, a key is pressed only in a window that is ready, and once. The directory is
not fsynced in this service; only deaths of the process are modelled for it, not power failures.

### Node01

The other end of the gate's comparison, and the second system that implements `ReplayGuard`: there as what
is accepted, here as what is generated. `allocate_boot` is `Allocate` (the record is read and checked),
three `PutWord` steps and `Verify` (it is read back), because power may go between them; the memory may
also keep an old word, which `Verify` notices. `PowerCut` inside a word leaves anything in that word, and
only in it: that the words of one `EEPROM.put` are written in order is assumed of the library. The loop is
`Tick` and `Sample`: `Tick` lets time pass, also while a network operation blocks the loop, and `Sample`
takes all whole periods by `millis()`, which wraps at `Clock` (2^32 in the code). Only a block of a whole
turn of the clock, 49 days, is excluded. `session` is the broker's: what was sent and not yet read, and
whether ONLINE was read; `Connect` takes an old session over, publishes its will and drops its rest.
`Transmit` fails before or after the sample is out. When the device retries is left open. `epoch` is a
history variable: when sample 0 of this boot was due.

### NodeToGate

`Deliver` is the only step of both: a call of `accept()` begins with one of the samples the broker sent out,
any of them, again or late, at any instance. This is more than one connection of QoS 0 allows; what is
promised does not lean on its order. `accept()` itself and all faults of `SequenceGate`, and all steps of
`Node01`, are steps of one of them that leave the other alone. The relay between them, and what it drops or
repeats, is in `Relay`; here it can deliver anything that was sent.

### ButtonGesture and GestureProtocol

The variables are the fields of the tracker, with each time replaced by an age: `update` computes nothing of a
time but `now_ms` minus it, and compares it with one limit, at which the age stops. `Scan` is one call with
what the lines read at that moment; its cases are the conditions of `update` in their order, with what
`poll_button` does to the animation. `KeyMoves` is the finger, the bounce of a contact and a plugged wire, at
any moment between scans. A tick is an interval in which an idle loop scans at least once; `Idle` is how many
may then pass between two scans, `MaxGap` how many while the network keeps the loop. The refinement maps
`holding` to `long_fired`. A click that ends the animation (`main.cpp:342`) and one that finds it over leave
the same, so `SingleClick` sets `wave` to zero for both. `span` and `hold` are history, how long the key was
really away, and so is `delayed`: that a scan was late since the press was recognised.

### VoicePage and PushToTalk

One action per handler of the page; between two of them the browser and the server answer in any order.
`session` is `voiceInputRef`, `input[s]` an input's own object with the phase the browser is in, so that
the callbacks of an input the page has given up still come. A slot whose callbacks have all come is used
again. `request`, `fetching`, `audio` and `sounding` are the same for spoken answers. `Leave` is a change
of chat or profile. In `PushToTalk` node01 takes the steps of `GestureProtocol`; `Publish` uses up a
sequence number whether or not the event arrives (QoS 0), `sensor` is the one event Home Assistant keeps,
`Projected` what the gateway makes of it, `PollReads` and `PollHandles` the two ends of one poll, so that
events and other handlers come between. `since` and `press` are history: which events this page can
rightly act on.

### HoldToTalk

`PollButton` is `poll_button`: one `Scan`, and what it returned is published in the same step (`PublishEvent`),
since nothing else of node01 runs between. `World` is the finger and the clock; everything else is `PushToTalk`'s
`Elsewhere`. `holding` of the page's side is `long_fired` of the tracker's. `longs` is history: of each long press
its number, how long the key had really been held and whether a scan was late. That the whole implements
`PushToTalk` (`ImplementsTalk`), and that a recording by the button answers a key that was held that long
(`ButtonMeansHeld`), is proved for every instance, so no run is spent on it.

### Control

What is in the other modules is here only as far as the way of a call needs it: a learning session is its
`window` and its `saved` records, a replay is `Reserve`, `Publish` and an acknowledgement. `Ask` and `GiveUp`
are the plugin's `_request` with its timeout; the request stays in `queue`, the listening socket's backlog,
and is served although nobody waits. `Accept` is `serve_forever`, which is back only when the connection is
answered; `ReadTimesOut` is `settimeout(3)` for a `Stranger` who never sends one. `Handle` is `do_POST` with
each operation, in two steps where it waits for the node outside the session's lock (`Armed`, `Cancelled`).
`send()` holds that lock until its replay is over, so `Callback`, the MQTT thread, comes before or after.
`run["cli"]` is the command line, another process that shares the journal and nothing else. A catalogue is
what it offers for sending. A `window` that is "stuck" is one whose save failed in `next()`. `by`, `offered`
and `listed` are history. The configuration file is taken as unchanged while the service runs.

### Egress and BytePipes

`server` says which of the two programs this is; they differ in the request, the addresses they accept and the
answers they give. `Admit`, `Refuse`, `StartFails` and `Release` are the accept loop and the semaphore;
`ReadRequest` to `Answer` the handler until the tunnel; `Receive`, `Send`, `PassEnd` and `Abandon` one turn
each of `relay_tunnel`, with the chunk in `hand` between `recv` and the end of `sendall`. The ages `wait`,
`idle` and `life` are those of the present wait, of `last_activity` and of `started`. `Peer` is either peer,
at any time. `Tick` lets time pass when no thread has anything to do that takes none. Nothing is read ahead of
the answer: `sent` counts also what a client wrote before it. `quiet` and `news` are history. Headers and
addresses are accepted or refused. The refinement makes each side of each connection a pipe that is complete
when its end was passed on and cut when the handler ended before that.

### EnvironmentSummary

The variables are the locals of the loop. A row is an action: `Unordered`, `Invalid`, `Rejected` or
`Accepted`, in the order of its write time, with any boot, number and time of reception. `estimate` is the
set of readings the Kalman filter has seen since its last reset, so that `EstimateOfSegment` can say which
ones it ought to be. `Status` is `current_status`. Means, extremes and the filter's arithmetic are left out.

## Runs

| run | instance | asks |
|---|---|---|
| `gate` | 2 instances, counters up to 3, three samples of node01's, `FairPath` | `HighWaterCovers`, `FailsClosed`, refinement of `ReplayGuard`; every call of `accept()` returns (`CallsReturn`); what is accepted are node01's samples, each once, in the order they were taken (`AcceptedAsTaken`) |
| `relay` | 3 samples, 2 packets in flight, delay capped at 2, `WorkerSpec` | `SamplesInOrder`, `LostOnlyWithLink`; an attempt that is not ready ends whatever the broker does (`AttemptsEnd`); if it answers, the validated status becomes the raw one once faults stop (`StatusConverges`) |
| `replay` | 2 runs, of one id or of two, clock modulo 6 starting before its wrap | honest outcomes, refinement of `OneShot`, `NeverStale`; the waveform sent is the one of the id's own run (`RightWaveform`) |
| `learning` | 3 windows, 2 records, 2 keys, `FairSpec` | `VerifiedTrue`, `ClosedForGood`, `SavedStays`; a window never stays open (`WindowsEnd`) |
| `learning_restart` | 2 windows | expected violation, see Findings |
| `node01` | counters up to 3, period 2, clock modulo 7, 8 units of time per run, `FairSpec` | `RawInOrder`, `SamplesWhileOnline`, `OnSchedule`, refinement of `ReplayGuard`; a node that is off or has stopped for good is shown offline (`DeadGoesOffline`) |
| `button` | 3 patterns, up to 8 ticks between scans, `FairSpec` | `LongMeansHeld`, `KeySettles`, refinement of `GestureProtocol` |
| `voice` | 2 recordings and 2 answers outstanding; an old event and two new ones, losses, unavailability, `FairSpec` | the microphone is on only if wanted (`MicIsWanted`), one voice at a time and none while recording (`OneVoice`), no stale transcript is sent (`OnlyCurrentSent`), no old press starts a recording (`PressIsNew`), one that is asked to stop, also by a release that is read, ends (`StopEnds`) |
| `release_overtaken` | 1 recording, 4 events, none lost | expected violation, see Findings |
| `egress` | 2 connections, 1 slot, 4 addresses, limits of 1, 2 and 3 ticks, a window of 1 and 3 chunks, `FairSpec` | `SlotsBalance`, refinement of `BytePipes`; a tunnel is given up only for a cause (`GivenUpForCause`); a slot comes back (`SlotComesBack`) |
| `control` | 2 calls and the command line with one id, 2 records of which one can be replayed, 1 stranger, 1 crash, `FairSpec` | `AnswerHonest`, `NoSendWhileLearning`, refinement of `OneShot`; a request that is in the queue leaves it (`EveryRequestServed`) |
| `archive` | 4 rows, 2 boots, 3 numbers, a window of 7 instants | `OneHistory`; what the report estimates and calls fresh is so (`ReportIsTrue`) |

Why these bounds are enough. The gate compares two segments and remembers one, so two instances, two
boots and two sequence numbers (`FewSegments`) have a sample below, at and above the mark in each component;
histories end by themselves because accepted samples increase. They are samples node01 really takes: two of one boot
and one of the next (`Through`). Deliveries wait until node01 is through with them (`NodeFirst`), which leaves
nothing out: neither end reads the other's variables but `raw`, which only grows, and `Deliver` takes any of it at any
time, so that in every behaviour node01's steps may come first. In `Relay` two samples make an order and a third
comes after a loss; at most one publish is unfinished, so two packets in flight already collide. In
`RawReplay` two runs are one more than the node's single place and the single winner of a reservation;
the ring of one id (8 in the code) forgets after one other command; the modulus is small enough to wrap
inside a run and larger than twice every lifetime, as 2^32 is; a deadline of one unit and a lifetime of
two leave a moment before, at and after each, and time for a packet to be late. In `LearningSession`
three windows are a baseline, a key and a key after something went wrong; two records reach the limit;
the bound on messages under way there (`FewInTransit`) is absent from the run with two windows. In
`Node01` four sample numbers are used up within one run, so that a boot count is taken in the middle of
it, the clock wraps inside a run, three boots use up the counter, and up to three periods are due at
once. In `ButtonGesture` the limits keep their order (debounce below click window below long press below
rebaseline) with room between them for a scan that is early, at and late, `MaxGap` is as long as the
longest of them, and three patterns let the mask change between two that are not the resting one. In
`voice` a second slot is what a late callback can be confused with, and three events are the one from before, a
long press and its release; `OneAtATime` lets answers, drafts and switches move while the first of them is
shown, and only the user speak with the others, since no handler of a press reads them. In `egress` the second
connection waits for, is refused or inherits the slot of the first; three chunks are one read, one in the
peer's socket and one in hand; the limits differ, in the code's order, so that each can be the one that ends
a tunnel. In `control` two calls and the command line are three users of one id; a second call also finds
the queue not empty, the service dead or a window open. In `archive` four rows are two readings, one that
comes between them in some order, and one after; the second boot can be followed by the first; freshness,
jitter and delay differ, and the window is long enough for a gap and a stale end.
`CHECK_DEADLOCK` is off where the bounds let the model stop; the gate never stops (it can always crash or start) and is checked
for deadlock, as are `button`, `voice` and `egress`.

Fairness. `SequenceGate`: a process that runs takes its next step, and waiters of a `flock` are queued by
the kernel (strong fairness of `Flock`). `Relay`: `run()`'s loop turns and the clock passes for
`AttemptsEnd`; a broker that answers is added for `StatusConverges` only. `LearningSession`: the three
threads of the service run; nothing is asked of the node or the network. `Node01`: the broker drops a
client that has been silent for one and a half keep-alive times (30 s, `main.cpp:388`); nothing is asked
of the device. `ButtonGesture`: `loop()` comes round and time passes, with no limit on how much of it.
`PushToTalk`: the page polls (each answer, a failed one too, starts the timer of the next), the user
answers the permission prompt, a recorder that was asked to stop does, and the server answers a
transcription one way or the other. Nothing says that a recording ends by itself. `release_overtaken` takes
only the behaviours in which the terminal stays open, the user speaks instead of typing and spoken answers
are on (`OnlySpeaks`); none of these is read by the steps its property is about. `Egress`: time passes, the
resolver answers and a thread that can go on does; nothing is asked of a client, an upstream or their
operators, and whether a new connection comes is open. `Control`: the HTTP thread goes on, since each of its
waits, for a request, for the node's answers and in a replay, has a timeout; nothing is asked of the node, of
the plugin or of the start after a crash, which empties the queue.

Each property has a mutant in `PROJECT.json`: an operator named `Bug...` beside the definition it stands
in for, under which TLC finds the property violated.

## Findings

* `learning_restart`: after a restart every key must wait for a new baseline
  (`services/ir_learning/tests/test_learning.py`, `test_restart_requires_baseline_without_losing_saved_records`).
  A baseline frame of an unknown protocol that was pending when the service stopped can be confirmed after
  the restart, and `_accept` then clears `context_uncertain`: keys are opened although no baseline was
  recorded since the service started.
* `release_overtaken`: a gesture between the release and the page's next poll replaces the release, and
  the recording by the button goes on (`hermes.patch:758`). The sequence number would show the gap.

Observations met while modelling, which no run is spent on:

* `LongMeansHeld` needs its hypothesis that no scan was late: a tap of 50 ms, debounced, then a network
  operation that keeps the loop for 700 ms, is a long press at the next scan, though documents and a test
  say that one was held for 700 ms. The press is timed by the clock of that scan and `active_now` is not
  looked at (`led_companion.h:111`). Without `~delayed` TLC finds this in `button`.
* A comment (`led_companion.h:73`) and `docs/hardware.md:37` say that a strange mask that stays four
  seconds becomes the resting one. Scanned every 12 ms it is a long press after 730 ms, and `long_fired`
  then forbids the adoption for as long as it stays; the unit test scans twice in four seconds. So
  `KeySettles` can only say that such a mask is adopted *or* held.
* An answer without a number does not set the page's starting point: after a restart of Home Assistant the
  first long press is taken for the event that was already there (`hermes.patch:754`).
* An unavailable entity keeps its event's number: an event read that way is never acted on, also when the
  entity is available again. `StopEnds` therefore speaks of releases that are read.
* The page shows a transcript as sent before it hands it to a terminal that drops it when its WebSocket is
  closed (`hermes.patch:607`).
* When the save in `next()` fails (`model.py:179`), the window is already set in memory and the node was never
  asked to open it: nobody ends it, and every send is refused until skip, cancel or a restart. `Control` has
  this window ("stuck"); nothing promises that it ends, so no property says so.

## Proofs

`NodeToGateProofs`, for any counter width, magic number, period and clock (`Clock > Period > 0`, `BootMagic` not
the erased word) and any set of validators; `None` is neither a segment, a session nor a validator.

* The gate: `GateTypeCorrect`, `CoversWhatItAccepted`, `FailsClosedAlways`, `GateImplementation` and `NoReplay` rest
  on `GateInv`. `HighWaterCovers` alone is not inductive: a call replaces the mark several
  system calls after it compared, so the proof needs that the flock holder is the only one in the critical section
  (`FlockHeld`), that what it read is still what is there (`CandidateFresh`, `MarkInPlace`), that a first use is one
  (`FirstUse`, with `LockFilePresent`), that power cannot bring back an older mark than was acknowledged
  (`NoHiddenMark`), and that a process that could create the lock anew has noticed the loss
  (`LossNoticed`). Each step of `Next` preserves each part; the refinement theorem maps
  `SyncAndAccept` to `Accept` and all else to a stutter.
* node01: `NodeTypeCorrect`, `NextBootIsFresh`, `SourceImplementation` rest on `IInv`. That samples increase is not
  inductive: a boot count must be above every sample *before* it is known whether the record that holds it
  will survive. `Safe(eeprom)` says that whatever is in memory now, a start that succeeds yields a fresh
  count; `Writing` describes the record word by word while it is put (`TornIsSafe`: from there any value
  of any one word is safe); `Numbering` ties boot and sequence to what was sampled. A sample is then a
  step of `ReplayGuard`, all else a stutter.
* `OrderedDelivery` and `OnlineSamples` rest on `Delivery`. `RawInOrder` needs `InOrder`: what was read is below
  what is on its way, both increase, and each of them was generated, so that a sample generated later is above
  both (by `SourceImplementation`'s invariant) and a session that is dropped takes its rest along. `Greeted` says
  that ONLINE is ahead of every sample of its session.
* `SampledOnSchedule` rests on `Schedule`: in every state of the run the clock's distance from the last sample
  (modulo `Clock`), taken from the true time, is the number of periods that `sequence` says. That the loop is
  never blocked for a whole turn (`Tick`'s guard) keeps this distance exact.
* Both: `EndToEnd`. A behaviour of `NodeToGate` is one of `Node01` and one of `SequenceGate` (`PathNode`,
  `PathGate`), so all of the above holds of it. `Genuine` adds what neither can say alone: what was accepted, and
  what each call is about, is a sample of node01's. Two increasing histories of which one is drawn from the other
  are in the same order (`AsTaken`); the orders of the two ends, `boot_count` and `sequence` there and Python's
  tuples here, are one.

`RelayProofs`, for any number of samples, any delays and any number of packets under way; `None` is neither a
status nor a pending publish.

* `TypeCorrect`, `OrderedSamples` and `NoSilentLoss` rest on `IInv`. That the validated samples increase needs
  `Order`: what subscribers have seen, what was written and what is queued is one increasing sequence that the
  mark covers. That a queued sample is not pushed out needs the single slot to be free when `_publish` takes it
  (`Slot`, `Front`: nothing is pending before CONNACK) and each PUBACK to be that of the status in the slot:
  `OneAck` follows one status through the wire and its PUBACK back, over packets that a lost link leaves behind.

`RawReplayProofs`, for any number of runs and command ids, reboots, power failures and challenges, any ring and
any clock; the deadline is shorter than the preparation's lifetime, which is below half a turn of the clock.

* `TypeCorrect`, `OwnWaveform`, `OutcomeTrue`, `SendsInTime` and `Implementation` rest on `IInv`. A commit that
  is late or repeated finds a node that may have rebooted, with the same boot id even, or prepared for somebody
  else: `Claims` ties every copy of a challenge, in a reply, a variable or a commit, to one run and one
  preparation, and `Once` says that the preparation an id was sent from is not there any more. `Files` and
  `StageOf` tie a run's stage to both copies of its journal file, and `Owners` says that two runs that are
  alive or have sent something have different ids; `Implementation` follows.
* `SendsInTime` is about modular time. `Timely` says of each deadline that, as seen from the node's clock, it
  leaves no more than real time does *or* the preparation has already run out and will not look alive again
  (`HalfTurn`); `Age` is the age of the preparation by that clock. Real time and the node's clock go on together
  in `Tick`, and a reboot takes the preparation along.

`LearningSessionProofs`, for any number of windows, profiles, records, temperatures and any set of keys that has
the baseline; `None` is neither a number nor a profile's data.

* `TypeCorrect`, `OneRecordPerWindow`, `TrueToTheRemote` and `NothingSavedIsLost` rest on `IInv`. `ClosedForGood`
  needs that the window of the profile in use is `Unused`, also while a frame waits for confirmation (`Held`),
  that nobody holds a number not yet given out (`Numbered`), and that records are of different windows
  (`Ended`). `VerifiedTrue` needs to know what a frame says before it is a record: `Frames` follows the frames of
  the open window through the queue and the threads to the one press they come from, and `Known` says that while
  the service takes the context for certain the remote is where its last frame left it. `Held` carries that
  a cancelled window leaves the context uncertain. `Saved` (profiles are numbered without a gap, the one in
  memory is on disk) makes a start overwrite nothing.

`HoldToTalkProofs`, for any masks, any positive limits and delays of the scan, any number of recordings, spoken
answers and gestures; `None` is none of them, nor a number.

* The tracker: `TrackerTypeCorrect`, `KeepsProtocol` and `LongIsHeld` rest on `Tracked`. The tracker never sees the
  key between two scans, so `LongMeansHeld` needs how far what it believes can be from what was: a key it has
  seen pressed was away before (`SeenAfter`), one that counts as pressed was away for the debouncing as well
  (`PressedAfter`), and one that is at rest again was away until the last scan that saw it so, if scans come in
  time (`LastAway`, three cases: not seen yet, seen, debounced). No relation between the limits is needed.
* The page: `TalkTypeCorrect`, `NobodyUnawares`, `OneAnswerHeard`, `PressesAreNew` and `OnlyCurrentIsSent` rest on
  `TalkOK`. `VoiceOK` says of every recording, the page's or one given up: only the page's is in the phase
  "recording", and a microphone that is on belongs to it or to one that is stopping, so a permission that comes for
  one that was given up turns nothing on for good. `SpeechOK` says that what sounds is the page's audio and that
  the audio is its answer's; `Asked`, that no unasked answer is there while somebody speaks or writes. `Polled` is
  an order through three places: the page's last number follows the answer's and the answer's the sensor's; a number
  from before the page was opened (`Follows`) is followed only by itself, since a newer event hides it for good.
* Both: `TrackerTalks` maps each scan that returns something to `Publish`, by `KeepsProtocol`'s step, and the rest
  to a stutter or to itself; `Agreed` adds to `Tracked` that both sides mean the same by a press that is held. `LongPressHeld` rests on `HeldOK`: every long press the page can still hear of, in
  Home Assistant, on its way or as the recording's own, is in `longs`; with `LongIsHeld` each was held.

`ControlProofs`, for any number of calls, command ids and records; `None` is none of them, nor one of the
strings it is compared with.

* `TypeCorrect`, `SendsAlone`, `AnswersAreHonest` and `Implementation` rest on `IInv`. That a plain error means
  "never sent" needs to know where a request can still be: `Queued` and `Unserved` say that it is in one
  place at a time, the queue or the HTTP thread's hands, and that nothing is reserved for it until it is a
  replay past its selection, whoever has stopped waiting for it. `Commits` ties every commit on its way or
  sent to the journal's entry and its owner, so that two commits of one id would be the same commit; `Runs`
  does so for reservations, so that two replays cannot hold one id. `Finishes` gathers the ways in which the
  HTTP thread can be through with a request; the step lemmas show that each handler's end is one of them.
  The refinement maps `Publish` to `Consume`, `NodeSends` to `Emit` and all else to a stutter.

`EgressProofs`, for any finite set of connections, any number of slots and any limits of time.

* `TypeCorrect` and `SlotsAddUp` rest on `IInv`: `TypeOK`, what holds of one connection by itself (`Good`: a
  chunk in hand is one the peer wrote and nobody has passed on; the sockets that are open are those of the
  stage) and the sum of slots. Each step keeps, takes or gives back one slot (`Keeps`, `Takes`, `Gives`), and
  `Counted` shows once what that does to the sum.
* `Implementation` and `CausedEnd` rest on `Fits`, which adds two things to it for each connection. `Piped`:
  nothing is passed on before the tunnel, and an end that was passed on had all of its stream ahead of it, so that
  what ends next (`Cuts`) or begins anew (`Renews`) leaves a complete pipe complete. `Timed`: `last_activity` is
  no older than the last chunk of a peer unless a chunk waits to be written; a chunk that came in this instant
  is passed on in it or waits. One lemma per operation (`Legal`) shows what it does to both pipes.

`EnvironmentSummaryProofs`, for any boots, sequence numbers, windows and limits, and any number of rows.

* `TypeCorrect`, `CountsOneHistory`, `EstimateRestsOnSegment`, `FreshIsNow` and the two in one,
  `ReportIsSound`, rest on `IInv`: `OneHistory` and
  `EstimateOfSegment` with `Summarises`, which ties the loop's few locals to the whole history of what was
  counted. An estimate that goes on extends the segment, since nothing lies between a reading and the one
  before it; one that starts again is alone in a new segment, since a gap or a boot cannot be bridged.

TLC checked the inductive invariants too, as invariants of the runs' instances or larger ones (`LearningSession`'s
on 3 windows, 4.8 million states; `Egress`'s with one connection and longer limits, 1.9 million; `RawReplay`'s,
2.0 million; `Genuine` with the gate's and node01's, 0.4 million with one instance; `HoldToTalk`'s and its two
properties on one recording, two patterns and an old event with two new ones, 1.2 million), with the
quantifiers over numbers bounded, so that they are known to hold where they speak of something, and not only to
be inductive.

Only model-checked: all liveness (`CallsReturn`, `AttemptsEnd`, `StatusConverges`, `WindowsEnd`,
`DeadGoesOffline`, `KeySettles`, `StopEnds`, `SlotComesBack`, `EveryRequestServed`), which TLAPS does not prove, and
the two expected violations. Every invariant, action property and refinement of a passing run is a theorem. No
module declares a RECURSIVE operator.

## Not modelled

Field-by-field validation of payloads and configurations (each is refused or accepted before any state
changes), TLS and HTTP parsing, the read gateway (stateless: what it makes of a button event is in
`PushToTalk`), LED drawing, the electrical scan of the button, the page's `SpeechRecognition` fallback and the
browser's own speech, text normalisation, branding, the weather plugin, the simulator, Home Assistant's own
behaviour, deployment files, slides. node02 is modelled where it meets the host (its command handler in
`RawReplay`, its receiving window in `LearningSession`); its Wi-Fi loop and the receiver's interrupt are not.
`PROJECT.json` ("components") gives the reason for each part.

## Plan

Modelled so far, in this order: the gate and the relay; replay and learning with node02; node01 and its
button; the voice card; the control path, the proxies and the archive summary; then the two compositions, from
the sensor to the gate and from the key to the recording. What is left, in order of what
could go wrong:

1. `CaptureStream`: the parts of a frame, lost or mixed up, reassembled exactly or not at all.
2. The SHT31 parser: how old a value labelled `ok` can be when the network has blocked the loop.
