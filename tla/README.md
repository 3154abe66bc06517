# linux-game-haptics-router in TLA+

The daemon turns force-feedback effects that games play on evdev controllers
into vibration of buttplug toys. An eBPF probe watches the games' `EVIOCSFF` and
`EVIOCRMFF` ioctls and tells the daemon which effects exist; one blocking reader
per controller tells it when a game starts or stops one; `App` puts the two
together, `translate` turns an effect into intensities over time, and `Playback`
plays them on the toys. This directory models those parts and the life of the
process around them, checks them with TLC and proves most of what it checks with
TLAPS, for every size of the system.

Paths below are relative to `src/linux-game-haptics-router/src/` unless they name
another crate.

## 1. The system

    game threads --ioctl--> eBPF probe --ring buffer--> forwarding task --effect_rx--\
    games --EV_FF--> evdev nodes --> readers (one thread each) --ff_rx----------------> main's select loop
    rescan interval, SIGTERM, ctrl-c ------------------------------------------------/   (App handlers)
                                                                                              |
    stdin --> set_scale ------------------------------> Playback <--schedule/stop/stop_all----/
                                                       one task per sequence, one child per command --> toys

| component | state | operations | hard behaviour | correct when |
|---|---|---|---|---|
| App (`app.rs`) | `effect_store`, `pending_plays`, throttle | effect uploaded, effect erased, Play, Stop, stop_all | uploads and Plays come on two channels in any order; a Play may be held until its upload; handlers await playback in the middle | one effect per id; a held Play is still wanted; only a wanted Play is started, with the latest effect; handlers return |
| Throttle (`throttle.rs`) | last haptic | ask, record | shared by all devices; asked before an await, recorded after it | asked and recorded in App's steps |
| Playback (`playback.rs`) | slots (`tasks`), generations, scale | schedule_sequence, stop, stop_all, set_scale; a task per sequence | `abort()` does not wait; a task runs before its handle is stored; a task clears its slot while it is being replaced; commands fail; devices share toys | no sequence escapes its slot; a slot holds the newest; toys end at zero; calls and sequences end |
| Probe (`linux-game-haptics-router-ebpf/src/main.rs`), forwarding (`ebpf.rs`) | scratch map, ring buffer, channel | sys_enter_ioctl, sys_exit_ioctl, forward | threads interleave between enter and exit; ids are reused; the kernel refuses; ring and channel overflow | what is published is what the call did; the daemon's table converges to the kernel's |
| Readers (`app.rs`, `device.rs`) | `known_devices`; per reader its path, open file and the event it holds | rescan, spawn, open, read, send, back off | devices leave, return and move; a reader never ends; the channel fills | every plugged device has a reader and is read in the end; what one reader tells main of it comes once and in order |
| main (`main.rs`) | where it is: connecting, starting, in the select loop, returned | start-up, one branch at a time, a signal | a handler blocks the loop; signals come before the handlers of signals; readers and the read of stdin outlive `main` | toys are told to stop before the process ends; a signal ends main |
| translate (`translate.rs`), `interpolate_points` | none | effect -> points -> keyframes | integer and float edges | every schedule is in range, ends with a zero and has the effect's strength |
| connect_with_retry (`playback.rs`) | delay | connect | backoff, a server that comes and goes | connected soon after the server is there |
| wire types, ioctl numbers (`linux-game-haptics-router-common`) | none | constants, layouts | | unit-tested |
| enumeration (`device.rs`) | none | list_ff_devices, stable_id | nodes that cannot be opened, devices with one phys path | ids tell devices apart |
| e2e harness (`linux-game-haptics-router-e2e`) | what its fake server noted | one gesture, timing assertions | the daemon is anywhere in its life | its assertions hold of the daemon |
| build, CI | | | | no behaviour |

`PROJECT.json` lists the same components with their status, and every hazard with
the line where it bites.

## 2. Modules

| module | models | role |
|---|---|---|
| `Throttle` | `throttle.rs`: the time since the last haptic, saturated at the interval | source of `App`'s throttle |
| `App` | `app.rs` 17-190, 240-307 and the select loop's rule that one handler runs at a time | core |
| `PlayRequests` | abstract specification of what App promises about Plays | implemented by `App` |
| `Playback` | `playback.rs` 33-130, 196-241 | core |
| `Probe` | both tracepoints, the ring, the forwarding task; the kernel's effect table as far as the probe relies on it | |
| `Readers` | `spawn_reader`, `rescan_devices`, `spawn_device_reader`, `next_ff_event`, devices that come and go | |
| `Translate` | all of `translate.rs`, the decoding of effects in the common crate, `interpolate_points` | pure operators |
| `Daemon` | `main.rs` 40-128 and `connect_with_retry` | the life of the process |
| `Session` | one gesture from game to toy, with the assertions of `timing.rs` | composes `Daemon` and `Translate` with one path through the handlers and one sequence |
| `MCApp`, `MCPlayback`, `MCProbe`, `MCReaders`, `MCSession` | the instances TLC checks | |
| `AppProofs`, `RefinementProofs`, `PlaybackProofs`, `ReadersProofs`, `ProbeProofs`, `SessionProofs`, `TranslateProofs` | TLAPS proofs about the module they are named after; `RefinementProofs` is that `App` implements `PlayRequests` | |
| `InterpolationProofs` | proofs about `interpolate_points` of `Translate`, on top of `TranslateProofs` | used by `SessionProofs` |

Definitions carry the names of the functions and fields they model. Definitions
headed `Mutant:` are plausible bugs of the code; no specification uses them. Each
property is listed in `PROJECT.json` with one of them that breaks it.

### App

A handler is an action up to its first await; the call it awaits is `call`, and
its return is an action of its own (`ScheduleReturns`, `StopReturns`,
`StopAllReturns`). The loop over the plays an upload has taken is one
`ResolvePending` per iteration, with what is left in `resolving`. A handler starts
only when `call` is empty, nothing is being resolved and main has not returned
(`Selecting`), which is what `select!` with awaited branch bodies gives. Time
passes at any moment (`Tick`). The throttle is asked when a play is processed and
recorded when `schedule_sequence` has returned, as in `process_play`. An effect is
its id and a body; bodies whose translation has no points are `Silent`.
`wanted` (what the event streams last asked of a device) and `latest` (what they last
said of an id) are history and no guard reads them, and so is the `effect` of a stop in
`call`, the id its handler was given. `KnownUntilStopped` pins down what the purge in the
Stop handler (128) does: a step that forgets an effect forgets that one alone and is its
own erase or a Stop that names it, and a Stop leaves nothing of the id it names.

`PlayRequests` knows no processes, handlers, awaits or clock: a device has at most
one open request, settled at most once, by the effect known at that moment, and
while a request's effect is known no event is handled. `App` implements it with
`KnownEffects`, `OpenRequests` and `Starting` as the refinement mapping.

### Playback

Three kinds of actors: main (`main` says which call it is in), one task per
generation (`phase`), and the children of `send_scalar` (`sends`, one element for
each command not handed over yet; generation 0 is `stop`'s own). `schedule_sequence`
is two actions, because the task is spawned and may run before the handle is in the
slot (101, 105). `abort()` marks a task in `aborted` and nothing else: its steps stay
enabled until the runtime drops it (`Reap`), which takes along the children not being
polled. That is tokio's contract and the reason most properties are not obvious.
Commands reach a toy in any order between children; `toy` is the last level it was
told. `late` and `missed` are history: the toys whose last word came from an aborted
or superseded sequence, and those that lost a zero.

### Probe

A thread is in an ioctl from `Enter...` over the kernel's step to an `Exit...`;
other threads run in between. Whether an exit publishes an upload depends on the
scratch entry alone, as in `try_exit`. `Forward` is the forwarding task with its
`try_send`, `Receive` applies an event as App does. `Faults` chooses which of the
rare branches may happen: user memory that cannot be read at enter or at exit, changes
the kernel refuses, uploads and erases of an id that is not the game's own. The
argument of an erase is an `int` of which the probe keeps 16 bits (133) and the kernel
looks at all: `Arguments` has for every id another one with the same low bits. Two pieces of history name what the
properties except: `unseen`, the ids whose last change was not reported, was dropped,
or was reported and then not made; `leftover`, the threads that carry a scratch entry of
an earlier ioctl. `failed` of a call is what the kernel returned and the probe never
looks at.

### Readers

Each plugging of a device is a *visit*; a rescan spawns at most one reader per
visit, which keeps that visit's device id and path. A write of a game reaches every
open file of the node in blocks, of which `next_ff_event` hands on the first event.
A listing may miss nodes that cannot be opened. The sleep of a reader is the phase
"closed", which may end at any moment, so every length of backoff is covered.

### Translate

An intensity is a whole number of `FULL`-ths and times are whole ticks; `i16`
arithmetic wraps as in the release build, the sine is a table of one period, and where
`f32` rounds the model rounds down, which is why properties about levels allow a
difference of one or two. Everything else is as in the code: the two ways of sampling (ramps
sample their length twice), the attack that hides a fade, the fade that is longer than
the effect and therefore begins at full strength, the envelope words of each kind.
Rumble gives two points, so that interpolation makes it a linear decline.

### Daemon and Session

`Daemon` has a stage for each place of `main` where something may fail or a signal may
arrive; before the loop no handler of a signal is installed (`Unguarded`). `Blocked`
are the threads the runtime's shutdown waits for. A connection that is lost is not made
again, as in the code. Time is discrete, and `late` says for how long something has been
due: `Tick` lets what is due be late by at most `JITTER`, which is how the scheduling of
the runtime is bounded without ordering its tasks.

`Session` lets a game upload an effect on a pad and play it once, at any moment.
`capture` takes the words of the union that the probe takes, the handlers are those of
`App` for one effect and one device, and `SendKeyframe` and `Answered` are the sequence
task between its deadlines. `first` and `last` are what the fake server of the
end-to-end tests notes, and `assert_command_within_bound` and
`assert_final_zero_within_bound` are its assertions. Handlers that interleave with other
effects are `App`'s subject, aborted sequences `Playback`'s.

## 3. Runs

| run | expects | what it shows |
|---|---|---|
| `app` | pass | `TypeOK`; `StoreHoldsLatest` (the linear search for an effect has one answer, the last one reported); `PendingIsWanted`, `ResolvingIsWanted`, `OnlyWantedPlays` (no Play comes back after a Stop, an erase or a newer Play); `ImplementsPlayRequests`; `KnownUntilStopped`; `HandlersReturn` |
| `playback` | pass | `TypeOK` (levels in range whatever the scale); `NoOrphanPlayback`; `SlotHoldsNewest`; `OnlyStaleOrLostCommandsStick` (only a straggler or a lost zero leaves a toy on, at rest and after the process has ended); `SupersededLeavesSlotAlone` |
| `playback_ends` | pass | `SequencesEnd`, `CallsReturn`, under fairness |
| `playback_zero` | violation | `ToysEndAtZero`, see section 5 |
| `probe` | pass | with every fault: `TypeOK` (ring and channel stay within their bounds); `MirrorsKernel` (but for changes not reported or not made, the daemon's table converges to the kernel's); `UploadsReportTheirCall` (every upload is that of the call being left, unless scratch was left over) |
| `probe_refused` | violation | `UploadedIdsAreAssigned`, see section 5 |
| `readers` | pass | `TypeOK` (the channel is never overrun); `RescanFindsAll` (a full rescan leaves a reader with its id at the path of every plugged device, be it of an earlier visit); `OneReaderKeepsOrder` (order and no repetition; it does not say that nothing is lost: the rest of a block is, in the code and in the model) |
| `readers_read` | pass | `DevicesAreRead`, under fairness |
| `readers_order` | violation | `StopFollowsItsPlays`, see section 5 |
| `readers_crosstalk` | violation | `NoCrossTalk`, see section 5 |
| `session` | pass | `TypeOK`; `SchedulePlayable` (times never go back, gaps are filled, a zero at the effect's length ends it: what `Playback` takes for granted); `SamplesAreTheKeyframes` (the intervals of two files agree); `ConstantsFollowTheirEnvelope`, `RampsReachTheirEnds` (against definitions of their own); `CommandsReachTheirToy`, `FinalZeroInTime` (the tests' assertions, for every order of upload and Play, late steps and late answers); `ConnectsInTime`; `ToysAreToldBeforeExit`; `SignalEndsMain`, under fairness |
| `session_envelope` | violation | `EnvelopeIsApplied`, see section 5 |

Bounds, and why they are enough for the interesting cases:

- `app`: two processes and two ids (ids collide across processes), two devices (one
  upload makes two Plays due and the throttle decides between them), two ordinary
  bodies and one silent, an interval of two ticks. The model itself is finite.
- `playback`: `MaxGen = 2` sequences on two devices. The devices share a toy, one
  drives it alone and the other broadcasts. Two generations are the least that
  make a replaced and a replacing sequence; three were also explored while the model
  was written. Schedules `<<0>>` (an effect without length) and `<<1, 0>>`. Scales
  -1 and 2, since the knob is not checked on stdin. `FULL = 1`.
- `playback_ends`: one broadcasting device, because liveness is costlier.
- `probe`: two games of one thread each on a device with room for one effect, so ids
  are reused at once; two bodies; ring and channel of one event each, so that both
  overflow while two events are on their way; all four faults. The symmetry trades the
  bodies, and the games together with their threads, in a safety run: 4.8 million states
  are left.
- `probe_refused`: a ring of two and no fault; a refusal for lack of ids suffices.
- `readers`: two controllers and two paths, three visits (a controller may leave,
  move, come back, or take the other's path), three events written, channel of one.
  The blocks written hold a start, or a start and a stop.
- `readers_read`: the same visits, one event.
- `session`: a tick is half a step of 25 ms. Two pads, one mapped to every toy and one to
  a toy the server does not have; effects of every kind, of length zero, of lengths that
  are no multiple of the interval, with envelopes that fit and that do not or begin above the full intensity, with a period
  of zero, and with levels at the ends of the 16-bit range, where `abs()` and the ramp's
  difference wrap. Delays of 1 up to 5 ticks stand for half a second up to five seconds
  (1, 2, 4, 5: doubling and capping both happen), `JITTER` is one tick, and `LATENCY_BOUND` eight, well below the
  250 ms of the tests. A gesture is observed for `AgeLimit` ticks, past the end of the
  longest effect and the bound (an assumption of the module says so). 1.1 million states.

Deadlock is checked in all runs: where the process ends, `Exited` stutters.

## 4. Fairness

- `AppFairSpec`: `WF(Awaiting)`. main's task is polled again once its call has
  returned, and calls do return, which is `CallsReturn` of `Playback`. Nothing is
  assumed of events, ticks or signals.
- `PlaybackFairSpec`: weak fairness of each sequence task, of main's call in
  progress, and of each command. The runtime polls tasks that can go on and drops
  aborted ones; `run_output` answers or fails. A server that keeps a command
  unanswered for ever is outside the claim.
- `SessionFairSpec`: main's task and the sequence's are polled when they can go on, and
  time passes. Signals, the server, stdin and the game are not assumed to do anything.
- `ReadersFairSpec`: the interval ticks and lists what is plugged, main takes from
  the channel, each reader has a thread of its own whose backoff ends.

## 5. Where the code and its documents disagree

- `ToysEndAtZero` (`linux-game-haptics-router-e2e/src/timing.rs:48-52`): a non-zero
  command of an aborted sequence can follow the zero of `stop` or of the sequence
  that replaced it, because `abort()` (106, 113) does not wait for the task or its
  children. Nothing sends another zero. `OnlyStaleOrLostCommandsStick` is the exact
  complement, proved: this and a lost zero are the only ways, after a shutdown, too,
  where `stop_all_devices` may be what is lost.
- `UploadedIdsAreAssigned` (`linux-game-haptics-router-common/src/lib.rs:184`):
  `try_exit` does not look at the ioctl's result, so a refused upload is published
  with the id -1.
- `StopFollowsItsPlays` (race design, 118-121): a controller that comes back to a path
  it had before, by way of another, gets a second reader there, and its events arrive
  twice and in two orders. `OneReaderKeepsOrder` says the claim holds without that.
- `NoCrossTalk` (e2e design, 110-111): a reader reopens its path whoever is there now,
  and sends another controller's events under its own device's id.

- `EnvelopeIsApplied` (`linux-game-haptics-router-common/src/lib.rs:34`): the envelope of
  a periodic effect begins at the sixth word of the union and the probe captures seven,
  so `periodic_points` takes the attack level for the fade length (164), and
  `ramp_points` reads no envelope. A periodic effect that should fade out does not.
  `ConstantsFollowTheirEnvelope` says that constant effects do.

Others were met and are not kept as runs, because the properties name them as their
exceptions or because they are about wording:

- An upload or an erase of an id that is not the game's own (`foreign_id`) is published
  and refused by the kernel, and so is a refused change (`refused_update`). An erase
  whose argument does not fit 16 bits is published as one of the id that is left of it
  (`linux-game-haptics-router-ebpf/src/main.rs:133`), which may be the game's own. The
  daemon's table differs from the kernel's until the next report. `MirrorsKernel` excepts
  all of them through `unseen`.
- The e2e design (`docs/superpowers/specs/2026-07-05-e2e-vm-harness-design.md:10-11, 72-73,
  104-105`) has the final zero expected at "start + duration + envelope fade-out", and a
  constant effect with an envelope among its scenarios. The code ends every effect at its
  replay length, whatever its envelope, and `timing.rs:18-20` and the plan
  (`docs/superpowers/plans/2026-07-06-e2e-vm-harness.md:14`, "envelope fade does not shift
  this") expect it there. `FinalZeroInTime` takes their side; that it passes says that
  the code does not do what the design says of effects with a fade.
- An id that cannot be read at exit (`exit_read`) leaves its scratch entry to the next
  ioctl of the thread, which is then published as an upload: `UploadsReportTheirCall`
  excepts `leftover`.
- Two threads of one game that race an upload and an erase of one id are reported in the
  other order than the kernel acted, because an upload is reported after and an erase
  before. `MirrorsKernel` is for games that do not; the run and the theorem have
  games of one thread.
- Once main has returned, the process goes on while a reader has a device file or a path
  to wait for, or stdin is being read, as `spawn_blocking` threads are waited for.
  `SignalEndsMain` ends with `Blocked` for that reason.
- The comment at `linux-game-haptics-router-e2e/src/bin/e2e-tests.rs:192-200` still says
  that a Play handled before its upload is dropped. It is held: `CommandsReachTheirToy`.

## 6. Proofs

All proofs hold for every value of the constants that satisfies the named assumption of
the module (`ThrottleAssumption`, `AppAssumption`, `PlaybackAssumption`,
`ReadersAssumption`, `ProbeAssumption`, `DaemonAssumption`, `SessionAssumption`,
`GestureAssumption`, `TranslateAssumption`); TLC evaluates the assumptions in every run.
`GestureAssumption` says that effects are `struct ff_effect`s: 16-bit words, as many as
the kind's member of the union has. A few theorems have hypotheses of their own, about
constants only: `OneThreadEach` of `ProbeProofs!Mirrors`, and in `SessionProofs`

- `SAMPLE_INTERVAL_MS <= STEP_MS` (`SamplesAreSent`, `ZeroInTime`): both are 25 in the
  code. `SamplesAreTheKeyframes` is false without it.
- `3 * JITTER <= LATENCY_BOUND` (`CommandsInTime`), `2 * JITTER <= SAMPLE_INTERVAL_MS` and
  `7 * JITTER <= LATENCY_BOUND` (`ZeroInTime`): how late the runtime may be. With the
  code's 25 ms and the tests' 250 ms they ask for steps no later than 12 ms. The instance
  of the run meets all of them, the second with equality.

`AppProofs`: `Safety` is the conjunction of the type invariant and the four safety
invariants, and it is inductive: `PendingIsWanted` needs `StoreHoldsLatest` (an upload
leaves nothing held), `ResolvingIsWanted` needs that no handler runs while plays are
resolved, and `OnlyWantedPlays` needs both. Lemmas say what the helpers on the two maps
return; `NextSafety` has a step per action. Theorems: `SafetyInvariant`, `TypeCorrect`,
`StoreCorrect`, `PendingCorrect`, `ResolvingCorrect`, `PlaysCorrect`, and
`ForgetsOnlyItsOwn` for the action property `KnownUntilStopped`.

`RefinementProofs`: `Refines`, that `App` implements `PlayRequests`. The invariant
`MapInv` adds to `Safety` that the effect whose plays are being resolved is known; with
it the mapping can be written without a choice (`Mapped`): what is found for an id is
`latest`, and what is resolved for a device is what it wants. `NextMaps` then takes each
action to a step of the abstract specification or to a stutter.

`PlaybackProofs`: the invariants are not inductive. `NoOrphanPlayback` needs to know
that generations are born in order and that the one being inserted is neither in a
slot nor aborted (`Births`, `Inserting`). `OnlyStaleOrLostCommandsStick` speaks of the
state at rest and says nothing before it; `IInv` adds, for every toy that is on, who
still owes it a zero (`ZeroOwed`: a stop's zero on its way, the newest sequence of a
device that drives it and has more keyframes, or whose zero is outstanding, or a
shutdown) and that after `stop_all` no sequence is left that nobody aborted
(`AfterStopAll`). For that the prover has to know that what is left of a schedule ends with a
zero (`Todos`) and where each outstanding command comes from (`Origins`). Theorems:
`InductiveInvariant`, `TypeCorrect`, `NothingOrphaned`, `SlotsCorrect`,
`BookkeepingSafe` (an action property), `QuietAtRest`.

`ReadersProofs`: `TypeCorrect`, and `RescanComplete` for `RescanFindsAll`. A rescan
decides by what it remembers, so the invariant says what a remembered path is worth
(`KnownHaveReaders`: a reader was spawned there for that device), that no two nodes are
of one device, and that after a full rescan each device is remembered where it is.
`OrderKept` is for `OneReaderKeepsOrder`. What has been written and not yet received is
in three places, the queue of the channel, the event a reader holds and the blocks of
its open file. The invariant (`OrderInv`) bounds all three: `WrittenBefore`, nothing
in any of them is newer than what has been written; `ReadersStay`, the device of a
visit that is plugged in and has its reader is remembered at that visit's path, so a
rescan spawns no second one; `ClosedAreEmpty`, a reader without an open file has
nothing to read; `OneActive`, of the readers of a device that no rescan doubled, one at
most can still tell main something.

`ProbeProofs`: `TypeCorrect`; `ReportsTheirCall` for `UploadsReportTheirCall`, from
`ScratchIsOfCall` (a scratch entry that was not left over is of the call its thread is
in); `Truncated`, that 16 bits keep the kernel's ids apart; `Mirrors` for `MirrorsKernel`, for games of one thread each. `MirrorsKernel`
says nothing of an id a thread is changing; `Converging` says who will make it right (a
thread whose upload was accepted and is to be reported, or one whose erase is reported and
is to be made), and `ReportsAreTrue` that such an upload is still what the kernel has.
What the receiver will believe is the last event of an id in two queues; the lemmas
before say how it changes when an event is added, taken or dropped.

`TranslateProofs`: `EveryEffectEnds`: whatever the words of an effect, `translate` gives
intensities in range, in order of time, and a zero at the effect's length at the end.
Its lemmas on rounding and levels say when two quotients are one apart, that `clamp` and
`Level` keep order, and what `abs()` makes of a level of 16 bits; others say what each
sample of a constant and of a ramp is.

`InterpolationProofs`: `interpolate_points` flattens a sequence of sequences, and the
library defines that by recursion. An induction theorem with an operator for its
parameter cannot be used, so `UpTo` states induction for a *set* of numbers, and
`Flattened` applies it to the set of lengths up to which a table of partial results
exists. From there on interpolation is a chain of concatenations (`Interpolated`), with
what is put between two points known point by point (`BetweenPoints`). Theorems:
`EveryEffectPlays` (the keyframes of every effect begin at zero, never go back, leave no
gap above `STEP_MS` and end with a zero at the length), `SchedulesAsAssumed` (they are
what `PlaybackAssumption` takes for granted), `SamplesKept`. `KeyframesSpaced` says that
only the last two keyframes may come closer together than the interval, which the
timing below needs.

`SessionProofs`, about the daemon: `LifeInvariant`, `ConnectsSoon` for `ConnectsInTime`
(the time waited and the time left to sleep together stay within the capped delay),
`ToldBeforeExit` for `ToysAreToldBeforeExit`.

About the gesture: `SessionInv` adds to the daemon's invariant and `TypeOK` where the two
events can be (`OnItsWay`) and that the keyframes are the gesture's and the commands from
them (`Sequenced`); it is inductive (`GestureInvariant`), and what the properties say of
a sequence that has begun then follows from lemmas about `translate` and
`interpolate_points` alone: `SessionTyped`, `SchedulesPlay`, `SamplesAreSent`,
`ConstantsFollow`, `RampsReach`. For `ConstantsFollow`, the scale of the code, reckoned
from where attack and fade begin, and the envelope of the property, reckoned from the
ends of the effect, round to numbers one apart (`ScaleIsEnvelope`); clamping and a base
level in range do not bring them further apart (`CloseScaled`).

About time: the two assertions of the tests say nothing of the moments between a Play and
the first command, or between two commands, and are far from inductive. `FirstTimed`
gives each event of the gesture its own late step after the one before. `SequenceTimed`
follows the sequence: how late a keyframe may be sent (`Allowed`) is one step for all but
the last two, because the one before has been sent and answered by the time a keyframe is
due, and three and five for the last two, which may come at once. `UndisturbedBefore`
says that a gesture nothing has come between was so in the state before. Theorems:
`FirstEventsTimed`, `GestureTimed`, and from them `CommandsInTime` and `ZeroInTime`.

TLC was run on `OrderInv`, `SessionInv`, `FirstTimed` and `SequenceTimed` as invariants of
the `readers` and `session` instances before they were proved.

Checked by TLC only: liveness (`HandlersReturn`, `SequencesEnd`, `CallsReturn`,
`DevicesAreRead`, `SignalEndsMain`), since fairness and `ENABLED` are beyond the prover.
Every other property of a passing run is a theorem.

## 7. Not modelled

- Device enumeration (`list_ff_devices`, `stable_id`): I/O. `Readers` takes its result as
  an input.
- Two plugged devices with one physical path, hence one id: each rescan takes both for
  moved and spawns readers again. `Readers` numbers its readers by visits and cannot
  express it.
- Which of two controllers an effect is on: `ProbeEvent` names no device, so that effects of two
  controllers with one number replace each other in the store. `App` is right about
  events as they come; that they carry too little is listed as a hazard.
- Gain and autocenter writes, which `next_ff_event` takes for Plays and Stops.
- Scales that are not finite: an infinite scale makes NaN of a zero keyframe. Rounding of
  `f32`.
- `EFFECT_STORE` of the probe: written and never read. Thread death between enter and
  exit, and LRU eviction from the scratch map.
- A connection attempt that neither fails nor succeeds, and reconnecting: the code has no
  operation for either. A ctrl-c while a handler runs has no listener and changes
  nothing.
- Argument parsing, `--list-devices`, `format_schedule_log`, loading and attaching the
  programs, the ioctl number arithmetic: set-up, output and compile-time constants.
- The virtual gamepad, pipes and processes of the end-to-end harness; build and CI.

## 8. Plan

1. `Router`: a game, the two queues and all of `App` and `Playback` together, with more
   than one gesture. Questions: what becomes of a Stop that forgets an effect the game
   still owns and replays; of gain and autocenter writes; of a Stop lost in a block.
2. `Readers` with readers numbered by spawn, for devices that share an id.
3. A proof that one sequence of `Playback`, undisturbed, is the sequence of `Session`, so
   that what is proved of times holds of the detailed model.
4. Out of reach of the prover, and left to TLC: liveness.
