# Savantix DALI edge controller: specifications, checks and proofs

The repository is the firmware of an ESP32 controller for one DALI bus of up to
64 lights: it scans the bus, polls the lights, scores their health, raises
events and reports them to a second chip (the C6) over a serial link. Much of it
is library code that host tests exercise and that no task calls yet: the only
loop the firmware runs is that of the demo controller, over scripted lights. This directory holds TLA+ modules
translated from that code (`src/components`), TLC configurations that check them
on small instances, and TLAPS proofs of their central properties for every value
of the constants.

Contents: [1 Inventory](#1-inventory) · [2 Modules](#2-modules-and-their-correspondence-to-the-code) ·
[3 Runs](#3-runs) · [4 Bounds](#4-bounds) · [5 Fairness](#5-fairness) ·
[6 Proofs](#6-proofs) · [7 Disagreements](#7-where-the-code-and-its-documents-disagree) ·
[8 Not modelled](#8-what-is-not-modelled) · [9 Plan](#9-plan) · [10 Use](#10-how-to-run-it)

## 1 Inventory

What a component keeps, does, and has to get right. "Hard" says what makes it
difficult to test; PROJECT.json lists each hazard at its line.

### Bus and protocol

| Component | State | Operations | Used by |
|---|---|---|---|
| PHY interface (`dali_phy`) | none; an interface | init, transmit, receive, reset, health; eight results | transaction service |
| Simulator (`dali_simulator`) | fault switches, ring of 32 scripted responses | the PHY operations, enqueueResponse, the switches | boot, host tests |
| Command queue (`dali_protocol`) | array of 64 requests, size | enqueue in priority order, pop | pipeline |
| Transaction service | quality counters (32 bit, saturating) | execute: attempts, retry delays with jitter, terminal status | pipeline |
| Pipeline | the queue and the service | enqueue, processNext | query client, control |
| Query client, control (`dali_control`) | a sequence number each | query; send and set, all through submit | device manager; nobody yet |
| Frames, commands, response parser | none | the frame of a call, the status of a response | control, query client, boot |

*Hard:* several clients share one queue, each of them enqueues its request and
then processes the head, whichever that is; a transaction meets a bus that
changes between attempts; counters saturate one by one; a full queue refuses
before anything is drained; a scripted response is not tied to a query, and a
late one waits for whoever receives next; seven kinds of frame and two tables of
opcodes share 16 bits.
*Correct when:* every accepted request is executed once and in order; a retry
never exceeds its budget; what a caller is told says how the transaction ended;
the counters add up; every call returns; scripted responses are handed out in
order and once; a frame says one thing only.

### Devices

| Component | State | Operations | Used by |
|---|---|---|---|
| Device manager | registry of 64 records (lifecycle, presence, misses, capabilities), a static array of reported duplicates | scanPresence, detectCoreCapabilities | demo controller |
| Poll scheduler | 64 slots with a context, an observation start and six due times; round-robin cursor | configure, next, complete | nobody yet |

*Hard:* bus power fails and returns between two queries of one scan; a collision
overwrites the lifecycle from which a recovery is told later; a failure of the
controller itself is counted like the silence of a light; the owner of the
scheduler configures a light while its poll is on the bus.
*Correct when:* an undisturbed light never loses its record or a feature; every
loss and discovery reaches the reader of the changes; the registry converges to
the bus; lights are served in turn; the observation of a warned light keeps its
pace; every kind of poll happens.

### Health and events

| Component | State | Operations | Used by |
|---|---|---|---|
| Fault persistence | three saturating 8-bit counters, two latches | observe | nobody yet |
| Light health engine | score 0..100 | evaluate | demo controller |
| Diagnostics | none | evaluate: the first rule that applies | nobody yet |
| Baseline, trend | running means per level band; ring of 1024 samples, all floating point | update; add, evaluate | nobody yet |
| Event manager | 128 alarm slots | raise, clear, acknowledge, reminder | demo controller |
| C6 session | 16-bit sequence counter, one pending number | publish, acknowledge, makeStatusRequest | demo controller |
| C6 frame codec | none | encode, decode, CRC16 | transports |
| Demo controller | four health engines, counters, the clock of the step | step: scan, raise and publish, evaluate, raise and publish | demo task |

*Hard:* slots are reused while acknowledgements of their former alarm are on
their way; severities repeat in any order; frames are refused or lost, and an
acknowledgement can be of an earlier frame; the counter wraps through the number
that means "none"; lengths and markers come from the wire; streaks of samples
alternate; the score remembers; a light that is silent in windows of two seconds
meets steps that come once a second, more or less.
*Correct when:* an alarm has one slot; acknowledgement marks are honest; the peer
knows of every active alarm as long as no frame is lost; reminders keep their
distance; a damaged frame is refused; diagnosis and health agree; a failed light
returns through service; the demonstration has one frame for every alarm.

### Platform

| Component | State | Operations | Used by |
|---|---|---|---|
| Time service | Unix time and uptime of the last synchronisation, a flag, a spin lock | uptimeMs, unixTimeSeconds, unixTimeValid, synchroniseUnixTime | any task of either core |
| System monitor | heartbeats and high-water marks of 16 tasks and queues | heartbeat, healthy, recordQueueHighWater | its task |
| Event history | ring of 128 records with a CRC each | append, recover | nobody yet |
| NVS metadata | in flash | init with erase and retry, save, load | nobody yet |
| Configuration and boot | a struct of constants | fromKconfig, validate; app_main: foundation, self-check, demo task | the system's start |

*Hard:* two 64-bit fields are read by one core while the other writes them, and
the uptime is read after the lock is left; measurements of the time are applied
late and out of order; the ring of events moves its head or its size; power fails
between setting a value and committing it; a boot is a chain of conditions.
*Correct when:* no answer mixes two synchronisations; the history is the log of
the latest events; what was saved with success is there; a valid configuration
boots.

### How they interact

All interaction is by synchronous calls within one task, except the time service
(shared by tasks) and the C6 link (messages). The chains are: device manager →
query client → pipeline → transaction service → PHY; app_main → pipeline →
simulated PHY, once, as a self-check; demo task → demo controller → device manager,
health engines, event manager → C6 session → transport. The host tests replace
query client and PHY by fakes; the demo replaces the query client by a script.
Interleavings therefore arise from the *environment* between two steps of one
call (the bus, the peer, the clock), from *several callers in turn* on shared
state (queue, registry, slots), and from *true concurrency* in the time service.

## 2 Modules and their correspondence to the code

PROJECT.json maps every definition to its source lines. "Mutant of X" operators
next to a definition are deliberate faults; the specification never uses them,
they show that each property depends on the code it is about.

### 2.1 Pipeline: `DaliCommandQueue`, `DaliTransaction`, `DaliProtocolPipeline`, `DaliRequestService`

`DaliCommandQueue` holds the operators of the bounded priority queue (insertion
behind the last request at least as urgent, refusal when full, pop).
`DaliTransaction` holds the pure part of the transaction layer: results, which
are retried, the delays 100, 500 and 2000 ms, terminal statuses, the counters,
and what the two kinds of client make of a transaction.

`DaliProtocolPipeline` is the state machine.

| Variable | Code |
|---|---|
| `queue` | `queue_`; requests carry a *ticket* (the count of accepted requests) instead of `requestSequence`, which no code reads |
| `call` | the synchronous call the owner is in, and its request |
| `exec` | the locals of `execute` |
| `quality` | `counters_` |
| `accepted`, `served`, `returned` | history: what was accepted and recorded, what the last call handed back |

Actions: `DirectEnqueue` (`enqueue`), `BeginQuery`/`BeginControl` (the enqueueing
half of `PipelineQueryClient::query` and `DaliControl::submit`), `Refuse` (each of
the three on a full queue), `BeginProcessNext`; within a call `Pop` or `PopEmpty`,
`Transmit`, `Receive`, `Backoff`, `Complete`. Each use of the PHY and each delay
is a step, because the bus changes between them; the PHY may give any result.
Calls do not overlap: nothing in the code locks the pipeline, it has one owner.

`DaliRequestService` is the abstract specification: requests are pending, one is
served, the most urgent and then oldest first, sent only within its budget, and
settled once. The refinement forgets the queue's order (the set of its elements),
attempts and delays, the counters and the callers.

### 2.2 Devices: `DaliDeviceManager`

| Variable | Code |
|---|---|
| `records`, `capabilities` | `registry_` (a missing slot is a record without lifecycle) |
| `duplicateReported` | the function-local static array of `scanPresence` |
| `op`, `batch` | the call in progress, the address or probe it is at, and its `DiscoveryBatch` |
| `view` | what a reader of the returned batches knows of each light |
| `gear`, `power` | the bus: how many devices answer at an address, whether there is power |
| `disruptions`, `steady`, `episode`, `silences` | bound and histories |
| `absences` | history: the scans a known light missed since its last valid answer, and how many of them in a row, each up to three |

`ScanAddress` is one round of the scan loop with all it does to the record, the
static array and the batch; `EndScan` returns the batch; `Probe` and `SkipProbe`
are rounds of `detectCoreCapabilities`. `ChangeGear` and `SwitchPower` may come
between any two queries. A query finds what is on the bus, or is *disturbed*
(any outcome of the query client), which counts as a disruption. `isBusFailure` is the
outcome `BusFailure` alone: the physical result it also asks for comes with no other
outcome from the pipeline's client.

### 2.3 Scheduler: `DaliScheduler`

The slots with contexts and due times, the cursor, and the owner's loop as the
architecture document describes it: `Grant` and `Wait` are `next()` with and
without a poll, `Complete` is `complete()`, `Configure` is `configure()` at any
moment, `Abandon` is an owner that never completes a poll. Due times are stored
as the time that remains (`remaining`), and the observation start as the time
since (`watched`, up to the end of the second window), so time needs no bound.
A `configure` passes the present as the start of the observation, or the start passed
before; other starts are left out. Utilisation is one of three levels: below the normal limit, below the diagnostic
limit, over it. `Overtakes` is a history: polls granted to another light while
this one could have been served at every call.

### 2.4 Events: `EventManager`, `C6Session`, `EventReporting`

`EventManager` (the slots) and `C6Session` (counter, pending number, and the
link) constrain only their own variables. `EventReporting` composes them the way
`DemoController` does: `Report` is `raise` followed by `publish` whose result is
ignored; `ClearAlarm`, `AcknowledgeAlarm`, `RemindAlarms` and the two halves of a
status request are the other calls. `peer` and `delivered` are what the C6 has
heard; `answered`, `since` and `reminders` are histories. The link delivers in
order, and may refuse or lose frames and acknowledgements, within `MaxFaults`.
The environment may not keep a frame or an acknowledgement on the way for a full
turn of the counter (`Fresh`): with 65536 numbers and one pending frame, no
number is met again while its older use is still on the way.

### 2.5 Health: `FaultPersistence`, `LightHealth`

`Observe` is `FaultPersistence::observe` with its counters that stay at 255.
`Work` is what a sample goes through: persistence, diagnostic rules, health
score and state, in the order the architecture document gives. Weights and
scores are whole points, as all the code's constants are; a temperature is how
it compares with the two thresholds. `recent` and `mended` are histories.

### 2.6 Time: `EspTimeSource`

One action per field access of `unixTimeSeconds`, `unixTimeValid` and
`synchroniseUnixTime`, with the spin lock around them and the uptime read after
it, as in the code; `Measure` is a peer that measures the true time, whose result
is applied at any later moment. Uptime is kept in units of which `Second` make a
second, so that rounding is part of the model.

### 2.7 Simulated bus: `Ring`, `SimulatedDaliPhy`, `DaliFrame`, `DaliClient`, `SimulatedBus`

`Ring` is the index arithmetic that the simulator and the event history share: an
array, the index of the oldest entry and a count; `Contents` is the sequence they
hold. `SimulatedDaliPhy` has the variables of the class (`responses`,
`responseHead`, `responseCount`, `health`, `busBusy`, `collision`,
`lastForwardFrame`) and an operator for each of its operations; `consumed` is what
the last `receive` took. `DaliFrame` is the encodings: `FrameOf` is what a call
puts on the line, `Understood` is what gear reads from it, by the rules of the
address byte, and `ParseBasicStatus` the status a response stands for.

`DaliClient` is a caller over them: `Submit` is a wrapper of `DaliControl` or a
query up to the checks of `execute`, `Attempt` is one round of its loop, transmit
and receive included. The simulator answers at once, so only the pause between two
attempts is a point at which the world changes. The queue is
`DaliProtocolPipeline`'s and empty here, as for a single caller.
`SimulatedBus` adds the test that owns the PHY: `Environment` scripts a response,
throws a switch, initialises or resets, before a call or between two attempts.
`ResponseScript` is the abstract specification: responses wait in order, are
handed out from the front, at most once, and are refused when there are too many.

### 2.8 The program: `AppMain`, `DemoController`

`AppMain` is `app_main` over `DaliClient`'s bus: `CheckConfig`,
`InitialiseFoundation`, `ScriptResponse`, `SubmitSelfCheck`, `ProcessSelfCheck` and
`FinishBoot` in the order of the code, each of which may end the boot; then the
demo task, `FirstStep` and `NextStep`, at uptimes chosen from small sets.
`IsValid` is `SmartLightConfig::validate`. `DemoController` is a step of the
demonstration: `Scan` (an address each), `ReportChange` (a change each),
`WorkUpLight` (a light each). Device manager and health engines are instances of
their own modules, used for what they compute (`Manager!AfterPresence`,
`Engine(l)!Rescored`); event table and session are the variables of `EventManager`
and `C6Session`. Its frames stay in `wire`, which is what `MockC6Transport` counts.

### 2.9 Storage: `EventHistory`, `NvsMetadataStore`, `LocalStorage`

`EventHistory` has `stored`, `head` and `size` of the class; `AppendRecord`
is `append`, `Recovered` what `recover` fills. The CRC of a record is modelled by
what it tells, whether the record was damaged since; `corruptNewestForTest` inverts
all its bits, and twice restores it. `NvsMetadataStore` is `init`, `saveUint32` and
`loadUint32`, one library call a step. The NVS library is external: any call may
fail, the `nvs_flash_init` after an erase too, a value that was set but not committed may or may not survive a restart, and
after one the partition may be in any state. `LocalStorage` composes the two with
restarts; `confirmed` and `tried` remember what the callers of `saveUint32` were
told. `EventLog` is the abstract specification of the history: the latest events in
order, without the damaged ones.

### 2.10 Codec: `C6FrameCodec`

Words are sets of the indices of their one bits, so exclusive or is symmetric
difference and a shift moves every member. `Encode` and `Decode` have the checks in
the code's order. It has no state; `FramesAreValid` of `AppMain` applies it to the
frames of the demonstration (`EventFrame`) and to others under their numbers.

### 2.11 Proof modules

`DaliProtocolPipeline_proofs`, `DaliScheduler_proofs`, `DaliDeviceManager_proofs`,
`EventReporting_proofs`, `LightHealth_proofs`, `EspTimeSource_proofs` and
`AppMain_proofs` extend the module they are named after; the lemmas about the queue
open the first. `Rings_proofs` is about the two modules with a ring: it extends
`SimulatedBus` and `LocalStorage`, so that the lemmas about the ring stand once,
before the theorems about either. For this `LocalStorage` names its specification
`StorageSpec`.

## 3 Runs

Runs marked ✗ check one claim of a document or comment and find it violated by
what the code does (section 7).

| Run | Module, cfg | Checks |
|---|---|---|
| `protocol_pipeline` | MCDaliProtocolPipeline, DaliProtocolPipeline | `TypeOK`, `EachRequestOnce`, `QueueOrdered`, `RetryBudget`, `QualityAccounts`, `OutcomeTruthful`, `MisdeliveredIsOlder`, `ImplementsService` (refinement), `CallReturns` (liveness) |
| `shared_pipeline` ✗ | same, DaliSharedPipeline | `OwnResult` |
| `simulated_bus` | MCSimulatedBus, SimulatedBus | `TypeOK`, `OkMeansSent`, `ImplementsResponseScript` (refinement) |
| `device_manager` | MCDaliDeviceManager, DaliDeviceManager | `TypeOK`, `SteadyLightIsSafe`, `MissingIsEarned`, `NothingUnreported`, `DuplicateReportedOnce`, `RegistryConverges` (liveness) |
| `recovery_change` ✗ | same, DaliRecovery | `RecoveryReported` |
| `poll_scheduler` | MCDaliScheduler, DaliScheduler | `TypeOK`, `OvertakenOnce`, `StatusPace`, `ObservedServed` (liveness) |
| `presence_starvation` ✗ | same, DaliSchedulerStarving | `PresencePolled` (liveness) |
| `event_reporting` | MCEventReporting, EventReporting | `OneSlotPerAlarm`, `AcknowledgementFresh`, `PeerInformed`, `AcknowledgedWasReceived`, `RemindersSpaced` |
| `light_health` | MCLightHealth, LightHealth | `ScoreRemembers`, `DiagnosticsAgree`, `LatchesFollowStreaks`, `RecoveryThroughService` (action properties), `FullHealthRegained` (liveness) |
| `app_main` | MCAppMain, AppMain | `EachAlarmOneFrame`, `FramesAreValid`, `MissingForMilliseconds`, `ValidatedBootDiscovers` (liveness) |
| `local_storage` | LocalStorage | `LoadsWhatWasSaved`, `ImplementsEventLog` (refinement) |
| `unix_time` | EspTimeSource | `AtMostASecondSlow` |

`EventReporting`, `LightHealth` and `EspTimeSource` define a `TypeOK` that their runs
do not list; it is proved.

What the passing runs show, in words. **protocol_pipeline**: nothing accepted is
lost, executed twice or served out of order; a transaction stays in its retry
budget and waits only between attempts; the counters add up until the total
saturates and never overstate failures after; callers are told how the
transaction ended; the result of another request can reach a caller only from an
older, at least as urgent one; the pipeline implements the abstract service.
**simulated_bus**: scripted responses are handed out in order and once through any
wrap of the ring, retry, timeout and reset; a call that reports success has its own
frame on the line, which gear reads as what was asked, and, if a query, a response
that came in time.
**device_manager**: an undisturbed light is never lost nor stripped of a feature,
whatever power and other lights do; a known light is declared missing after three
missed scans since its last valid answer and no earlier, whatever answers, lost power
and collisions come in between (in a row only if no collision does, section 7); losses and
discoveries reach the readers of the batches; a duplicate is reported once per
episode; with power restored for good the registry comes to match the bus.
**poll_scheduler**: a light that could be served is overtaken at most once by
each other light; the status pace holds through configurations and the ends of
windows; a light under observation is served on a loaded bus. **event_reporting**:
one slot per alarm, acknowledgement marks never inherited, a peer that knows
every active alarm at least as severe as it is while nothing is lost, reminders
an interval apart, and acknowledgements that settle the right frame.
**light_health**: latches follow unbroken streaks; the score comes back no faster
than its steps; a failed or missing light is next in need of service; what
diagnosis calls critical the engine calls failed or missing; a light that stays
clean regains full health. **app_main**: a valid configuration boots, passes the
self-check and discovers the four lights; between steps there is one frame for each
alarm, a fault among them for each light that lost health and one discovery, counted
once, for each light in the registry; the peer's decoder returns each frame that was sent and refuses it damaged,
cut or lengthened; the light that comes and goes is missing in the last two
milliseconds of a window at most: with steps of exactly a second, two seconds of
silence do not hold three scans, but the clock is read in milliseconds after a
wake-up that takes more or less time, and 2000, 2999, 3999 are three. TLC shows that
this happens when the bound is tightened. **local_storage**: the history is the
log of the latest events through wrap, damage and restart; what was saved with
success is loaded, through failures and restarts, until the flash is erased.
**unix_time**: an answer is the true second or the one before, never a mixture of
two synchronisations.

## 4 Bounds

| Run | Instance | Why it is enough |
|---|---|---|
| `protocol_pipeline` | queue of 2, at most 3 retries, counters to 2, 4 requests; shapes of three priorities, with and without response, one invalid for its timeout, one for its retries; five PHY results; no jitter or the most | the queue fills, refuses and drains twice over; all three retry outcomes and all three delays (100, 500 and 2000 ms) occur; counters pass their limit; every branch on a result is taken (results handled alike are represented once) |
| `simulated_bus` | ring of 2; a prompt, a late and a colliding response; timeouts 0, 20 and 25 ms around the late one's 22; retries 1 and 9 | the ring wraps, fills and refuses; a response is late for one attempt and in time for another caller; 9 retries and a timeout of 0 are invalid requests |
| `device_manager` | 2 addresses, 2 features (one the gear knows), 3 disruptions | a miss count needs 3 scans, which are unlimited; losing, returning and a collision in between take 3 disruptions; two addresses show that one does not disturb the other. The theorems remove the bound on everything but `RegistryConverges` |
| `poll_scheduler` | 3 lights, kinds Status and Presence, periods 1..3, 3 configurations, abandoned polls | a third light is needed to overtake between two others; two kinds compete at one light; both observation windows begin and end. Theorems cover the rest |
| `presence_starvation` | 3 lights, 2.5 s a unit, the code's intervals, polls of one unit | three status polls fill the 5 s interval; with the code's 100 ms a poll and 64 lights the round takes 6.4 s, over the same 5 s |
| `event_reporting` | 3 alarms (symmetric) on 2 slots, 2 severities, sequence numbers modulo 3, 3 frames, 1 fault, time to 2, reminder interval 1 | the table overflows and slots change alarms; the counter wraps through zero; a status request keeps its number while events are published; two intervals pass |
| `light_health` | thresholds 2, 3, 2 with counters to 3 and a window of 3; real weights; recovery 5 points a sample; 23 samples: every single fault with and without an abnormal current, four pairs, a light that is off | counters pass their limit while the latches stand; the score passes through every multiple of five, so each threshold (20, 50) is met from above and below |
| `app_main` | the code's scoring; 17 configurations, each rule of `validate` met at an edge; 5 addresses, of which 4 have lights; first steps at 400, 1001, 1995 and 2005 ms, later ones 999 to 2000 ms apart, up to 12 s; payloads to 6 bytes | three windows of silence pass; steps begin just before, at and after the edge of a window, and a millisecond early is the least a clock in whole milliseconds can tell of a delay of 1000 ticks; payloads are at the limit and past it, hold both markers, and every byte of a frame is damaged in five ways |
| `local_storage` | ring of 3, 2 events; 1 key with 2 values | the ring wraps more than once, damaged records are in any place; a save can meet the older value, its own or none |
| `unix_time` | 1 reader, 2 setters, 3 units a second, true time starting at 4 units, uptime to 5 | the two setters measure and apply in either order around a reader in any phase; all phases of rounding (4 is not a multiple of 3) occur |

The bounds `MaxAccepted`, `MaxDisruptions`, `MaxConfigures`, `MaxPublished`,
`MaxFaults`, `MaxTime`, `MaxUptime` and `Window` exist for TLC only; the actions
of the environment they guard stop there, those of the code do not. `Tick` goes
on as a stutter at `MaxTime`. The theorems hold for every value of these
constants but one: `MissingIsBrief` needs steps at most 2000 ms apart, a second
late (section 6). Deadlock checking is off in `app_main` alone: a boot that gives up
leaves nothing running, and the demo task stops at `MaxUptime`.

## 5 Fairness

| Specification | Assumed | Because |
|---|---|---|
| `DaliProtocolPipeline` | WF of `Proceed` | a call is straight-line code over PHY operations with a timeout; nobody must ever call |
| `DaliDeviceManager` | WF of `Proceed`, SF of `BeginScan` | a call runs to its end; `DemoController::step` scans in every turn of the demo task. Strong fairness because probes between two scans make `BeginScan` only repeatedly enabled |
| `DaliScheduler` | WF of `OnBus`, `Complete`; SF of a call of `next()` below the diagnostic limit | polls end; the task runs its loop; the bus is not beyond the diagnostic limit for ever |
| `EventReporting` | WF of `Deliver`, `HearAck` | the link works apart from the faults; no fairness of the owner |
| `LightHealth` | WF of `Next` | lights are sampled for ever |
| `AppMain` | WF of `Next` | `app_main` runs to its return and the demo task after it; nothing else changes this state, so the scheduler has one thing to run |
| `SimulatedBus`, `LocalStorage`, `EspTimeSource` | none | only safety is stated |

`RegistryConverges` and `FullHealthRegained` are conditional on the environment
calming down (`<>[]power`, `<>[]clean`); `RegistryConverges` needs no
assumption that disturbances end because they are bounded.

## 6 Proofs

tlapm proves all of the following from the ASSUMEs of the modules alone; these
say what the code's constants and types say (positive capacities, a batch at
least as large as the registry, ordered periods, retries and counters that are
naturals, values that stand for "nothing" different from all others). Four say more.
`SeverityAssumption` has the weights of the four severe faults of a light over 50
points and a step, as the code's 80, 80, 70, 60 and its step of one are; only
`RecoveryCorrect` uses it. Two relate constants of different components:
`DemoAssumption` has room in the alarm table for the nine alarms the script can
bring about (128 in the code) and numbers for their frames (2^16), and
`SelfCheckAssumption` has the transaction layer admit the 8 retries that `validate`
admits (its limit is 8 as well). And one is about the scheduling of the demo task,
which no code watches over: `PunctualAssumption` has a step come at most a second
late; only `MissingIsBrief` uses it. With steps four seconds apart it would be false:
each of them could meet a window of silence.

| Module | Theorem | For every | Statement |
|---|---|---|---|
| pipeline | `TypeCorrect`, `OrderCorrect`, `OnceCorrect`, `BudgetCorrect`, `MisdeliveryBounded` | capacity, retry limit, counter width, request shapes, PHY | `[]TypeOK`, `[]QueueOrdered`, `[]EachRequestOnce`, `[]RetryBudget`, `[]MisdeliveredIsOlder` |
| | `OutcomeCorrect`, `AccountsCorrect` | same | `[]OutcomeTruthful`, `[]QualityAccounts` |
| | `ServiceImplemented` | same | the pipeline refines `DaliRequestService` |
| scheduler | `SchedulerTyped`, `StatusPaced`, `RoundRobinFair` | number of lights, kinds, periods, contexts, owner | `[]TypeOK`, `[]StatusPace`, `[]OvertakenOnce` |
| device manager | `ManagerTyped`, `PresenceCorrect`, `ChangesReported`, `DuplicatesReported`, `SteadySafe` | number of addresses, batch capacity, features, histories of the bus | `[]TypeOK`, `[]MissingIsEarned`, `[]NothingUnreported`, `[]DuplicateReportedOnce`, `[]SteadyLightIsSafe` |
| events | `TypeCorrect`, `OneSlotCorrect`, `AcknowledgementCorrect`, `RemindersCorrect` | alarms, slots, interval, width of the counter, faults of the link | `[]TypeOK`, `[]OneSlotPerAlarm`, `[]AcknowledgementFresh`, `[]RemindersSpaced` |
| | `AcknowledgedCorrect`, `PeerCorrect` | same | `[]AcknowledgedWasReceived`, `[]PeerInformed` |
| light health | `TypeCorrect`, `ScoreCorrect`, `AgreementCorrect` | thresholds, widths of counters, weights, samples | `[]TypeOK`, `[]ScoreRemembers`, `[]DiagnosticsAgree` |
| | `LatchesCorrect`, `RecoveryCorrect` | same | `LatchesFollowStreaks`, `RecoveryThroughService` (action properties) |
| simulated bus | `FramesAreUnambiguous`, `TypeCorrect`, `SuccessIsReal` | ring, responses, calls, timeouts, retries, switches | `FramesUnambiguous`, `[]TypeOK`, `[]OkMeansSent` |
| | `ImplementsScript` | same | the simulator refines `ResponseScript` |
| program | `AlarmsAreFrames`, `MissingIsBrief` | scoring, number of addresses, size of the table, times of the steps | `[]EachAlarmOneFrame`, `[]MissingForMilliseconds` |
| | `ValidBootGoesOn` | configurations | from a valid configuration, `[](boot # "stopped")` |
| storage | `ImplementsLog` | capacity, events | the history refines `EventLog` |
| | `SavedIsNotLost` | keys, values | `[]LoadsWhatWasSaved` |
| time | `TypeCorrect`, `TimeIsClose` | readers, setters, units a second, start of the true time, uptime | `[]TypeOK`, `[]AtMostASecondSlow` |

**Queue.** `EnqueuedKeepsOrder` and `PopTakesTheFirst` say that insertion adds
exactly the request, at the place that keeps the queue ordered by urgency and
ticket, and that pop removes its minimum. They rest on `InsertionStops`: the
insertion point the loop finds has only requests at least as urgent before it
and less urgent ones behind.

**Pipeline.** `EachRequestOnce` and `QueueOrdered` are inductive only together
and with the fact that every ticket is at most `accepted` (`TicketInv`).
`RetryBudget` needs to know, in each phase, how many waits there have been
(`BudgetInv`): the delay is bounded by the waits and these by the attempts.
For the refinement each action maps to one action of the service or to a
stutter; `Pop` is the interesting one, because "first of an ordered queue" must
become "most urgent of a set". `MisdeliveredIsOlder` needs `CallInv`: while a
query or control call runs, its own request is the youngest of all, and is in
the queue until it, or one that goes before it, is taken up.
`OutcomeTruthful` speaks of the last call; its invariant `ConclusionInv` says how
the status of a transaction follows from its last result and its attempts from the
moment it is complete, and keeps saying so for as long as its result is what the
last call returned. `QualityAccounts` has seven counters that each stay at their
limit on their own: `CountInv` has their sum equal to what was recorded for as long as
the total counts, and at least the total after. That no other counter saturates
first follows, because each is at most the sum. Each completion records a request
that was not recorded before, which is `EachRequestOnce` again.

**Scheduler.** `OvertakenOnce` is not inductive: that a light was overtaken once
by another does not say it cannot be again. `Behind` strengthens it with the
position of the cursor: a light that has been overtaken by b lies, in the cyclic
order from the cursor, before b, so the scan meets it first. `StatusPace` uses
that the status interval only grows while an observation goes on.

**Device manager.** The invariant speaks of one address: its record is
`WellFormed` and counts what the history counted (`Counted`: the scans missed since the
last valid answer, in a row unless a collision was seen), from which `MissingIsEarned`
follows; what the reader will know when the scan in progress returns
(`Known`: the view with the batch so far) is `ToldOf` the record; and an
undisturbed light was only ever found or asked without power. It rests on
`Orderly`: a scan adds at most one change for each address it has passed, so
with as many places as addresses `DiscoveryBatch::add`, whose refusal
`scanPresence` ignores, never refuses, and at most one change is about a light.

**Events.** The calls of `EventManager` are first reduced to what they do to one
slot and the history of one alarm (`RaiseEffect`, `ClearEffect`, `AcknowledgeEffect`,
`RemindEffect`, `OneSlotChanges`). `TableInv` then says that each alarm has one slot at
most, whose record is tidy (the mark of acknowledgement is that of the alarm, the
last emission lies in the past, and the reminders fit between it and the
transition), and that an alarm without a slot has no history, since `RemindersSpaced`
speaks of those alarms as well. `AcknowledgedWasReceived` needs `AckInv`: while the peer
lacks the latest frame, no acknowledgement on its way and no earlier frame bears its
number. It rests on `Fresh`, the assumption about the link (2.4), and would be false
without it. `PeerInformed` speaks of an idle link; `PeerInv` of any, by what the last
frame about an alarm on the wire says, or the peer if there is none (`Told`). The
step to see is the milder repeat, which lowers the severity in the table and
publishes nothing: the peer then knows more than it needs (`ToldMilder`).

**Light health.** `LatchesFollowStreaks` relates latches to the samples themselves;
`StreaksCounted` has, for every length up to the window and the limit of the counters,
the counters reach it exactly when the samples end in such a streak (`StreakGrows`).
A counter that stays at its limit keeps this true. `ScoreRemembers` is inductive with
`TypeOK`: the score rises by a step only when `mended` does, or when `mended` already
stands for more than a full score. `RecoveryThroughService` needs to know of the score
of a light while it is failed or missing (`ServiceDue`): one more step leaves it below
50. It follows from a severe deduction, or from a score below 20. `DiagnosticsAgree`
needs only that the two lists of rules look at one sample.

**Rings.** For any capacity, the lemmas on `Contents` show that writing at head plus
count appends to the contents, that moving the head takes the first entry, that both at
once in a full ring are an append to the tail, and that a write to the newest entry
is a write to the last. Both refinements, of `ResponseScript` and of `EventLog`,
follow from these lemmas action by action. `EventLog` has the reader's test of an
entry as the constant operator `Intact`, instantiated with `Fits`: the prover knows
`SelectSeq` only by its arguments, which are then the same on both sides.

**Simulated bus.** `OkMeansSent` needs `RequestSound` (a request in execution has
passed the checks of `execute` and its call can be sent, and its attempts are
within its retries) and
`OkIsUnderstood`; that gear reads the frame of the last attempt as the call is
`FramesAreUnambiguous`, an argument about quotients and remainders by kind of call.

**Program.** The demo loops for ever over the same script, so its invariants say what
can have accumulated. `StepOK` types a step and has the fourth light alone with missed
scans. `EachAlarmOneFrame` speaks of the moments between steps; `AlarmInv` of all:
`TableOK` has each alarm in one slot with the severity its type always has, and only
alarms of the script, `WireOK` has the frames in `wire` tell of exactly the alarms in
the table, `ScoresOK` has a fault of every light below 100 there, and `DiscoveryOK`
follows each discovery from the scan that makes the record, through the batch, to the
table and the count. A repeated alarm finds its slot with its own severity and is no
transition; a new one finds a free slot, because the script has fewer alarms than the
table slots (`DemoAssumption`). `MissingForMilliseconds` needs two forms of what
missed scans say of the clock: after the fourth light was asked, m missed scans mean
that the window of silence is at least 999(m - 1) ms old (`SilentSince`); before it is
asked in the next step, that if this step is still in a window, it is the same one and
at least 999m ms old, and m is below 3 (`SilentUntil`). A step takes the first to the
second (`SilenceGrows`): two times in windows of silence and at most 2000 ms apart lie in
one window, and 2997 ms do not. A scan takes the second back to the first.
`ValidBootGoesOn` is the safety half of `ValidatedBootDiscovers`, for all
configurations: `BootOK` follows the one scripted response from the ring to the
answer.

**Storage.** `LoadsWhatWasSaved` speaks of what the last load returned. Its
invariant `StoreInv` speaks of flash: what a get would return, and what surely
survives, are each the value last confirmed or one tried since; while a save is
between set and close, its value is among the tried ones, and after the commit it
is what survives.

**Time.** `TimeInv` says that at most one task is in the section, that a setter's
measurement is a true time of the past, and that whenever nobody is writing, the
two fields are a measurement and the uptime at or after it. A reader's copies keep
this after it left the lock. The answer is then within a second of the true time
because rounding down twice (the measurement, and the time since) loses less than
two units of the second it is rounded to.

**Only model-checked.** All liveness (`CallReturns`, `RegistryConverges`,
`ObservedServed`, `FullHealthRegained`, `ValidatedBootDiscovers`): fairness and
ENABLED are beyond the prover. Of the safety properties, `FramesAreValid` alone: that
decoding returns what was encoded, and that the checksum tells the damage, says what
folds over the bytes compute for every frame, which is an induction over data; the
prover sees a fold as an unknown function. The theorems about the pipeline take the
backward frames and jitter as arbitrary sets, TLC as the ones listed.

## 7 Where the code and its documents disagree

Each is a run that TLC refutes; PROJECT.json quotes code and document.

1. `shared_pipeline`: a query is documented to process the request it enqueues;
   it processes the head of the shared queue and returns the backward frame of
   another request if one at least as urgent was waiting. Direct use of
   `enqueue`, which the host tests show, is enough.
2. `recovery_change`: "recovery emits a change", but a collision overwrites
   `Missing`, and the valid answer after it emits none; readers keep the light
   as missing.
3. `presence_starvation`: presence is to be polled every 30 s, scaled upward;
   `next()` tries Status first at each light and serves one poll per visit, so
   with many lights on no other poll is ever granted.

Four more claims are stated in the modules and refuted by TLC when they are put
into the configuration of their module; they have no run of their own:

* `MissingAfterThreeInARow` (`DaliDeviceManager`): `dali_device_manager.cpp:76-84` leaves
  the miss count as it is at a collision, so miss, miss, collision, miss is `Missing`.
  The phase 3 plan (line 48) says "Known present devices require three consecutive
  no-response scans before missing", and `docs/verification/phase-3.md:49` "Three
  consecutive non-bus failures are required". `MissingIsEarned` states what the code
  does instead.
* `UnsupportedMeansSilent` (`DaliDeviceManager`): two no-responses are to make a
  feature unsupported; two hardware failures of the controller do as well, for good.
* `PublishedIsDelivered` (`EventReporting`): the session layer is to retry; nothing
  is ever sent again.
* `WarningAfterThreeOfFive` (`LightHealth`, thresholds 3, 5, 10 and a window of 10): the warning is
  documented for 3 of 5 abnormal samples; the code needs 3 in a row.

One disagreement is not stated as a property. The design specification (line 209) promises "80 °C
activation and 75 °C clearing hysteresis"; `diagnostics.cpp:19-23` compares each sample
with the thresholds alone, so a temperature that moves about a threshold switches the
diagnosis at every sample. The samples of `LightHealth` say how a temperature compares
with the two activation thresholds, as the code does; there is no third one to model.

## 8 What is not modelled

* **Baseline and trend statistics**: floating-point means, slopes and an
  exponential mean over 1024 samples, whose accuracy is out of TLC's reach. One
  hazard of the trend engine is listed without a property for this reason: once the
  ring has wrapped, `evaluate` folds the samples by slot, not by age.
* **System monitor**: heartbeats of tasks that do not exist yet; no code calls it.
* **The electrical PHY, GPIO and UART drivers, the transport to the C6**: not in
  the repository, or interfaces. What the code expects of them is the result sets of
  the PHY and the link of `EventReporting`.
* **`fromKconfig`**: one constant per field. `AppMain` starts from any of a set of
  configurations.
* Of modelled components: time stamps and measured values of records, event
  identifiers and snapshots, severity and confidence of a diagnosis, success
  rate, the layout of payloads, and the wording of anything.

Limits of the code that the models contain and no property is about, since no
document promises otherwise: `duplicateReported` is static and outlives its
manager; `reminder` serves the first due slot only, so an owner that asks rarely
reminds of one alarm over and over; `configure` sets all due times of a light anew,
so contexts that change faster than an interval postpone its polls; a score rises
only when nothing at all is deducted.

## 9 Plan

What is left, most useful first.

1. Proofs: action properties that say more of steps the invariants already cover (a
   counter of the pipeline never falls; a request that is refused leaves the queue as
   it was; a scan leaves other addresses alone), and the session's half of
   `EventReporting` as a refinement of a link that numbers its frames.
2. `EventHistory` composed with `EventReporting`, each transition appended, once a
   task does so.
3. `SystemMonitor` with the tasks that beat: an audit compares with a time taken
   before the heartbeats it reads (`nowMs < heartbeats_[task]` is unhealthy).
4. The ring of trend samples over integers, against a reference by age; level bands
   of the baseline.

## 10 How to run it

    tlc -workers 2 -config DaliProtocolPipeline.cfg MCDaliProtocolPipeline.tla
    tlapm DaliDeviceManager_proofs.tla

Section 3 pairs modules and configurations. The longest run is `event_reporting`
(about two minutes, 4.7 million states); the others take seconds to a minute.
