# TLA+ models of the gripper controller

This directory models the control logic of the gripper program: the top-level
state machine, the operations of the gripper controller, the self-check that runs
in a background thread while the web server accepts other requests, the feedback
loops that drive every motion with their safety limiter and contact detector, the
phases of the self-check from a single probe to the learned profile, the motor
driver with its threads and mutexes, and the way from the motor's single-turn
reading to the stroke of the nut.  The modules are translated from the C++ sources
under `src/`; TLC checks them on small instances and TLAPS proves the main safety
properties for every value of the constants.

## The system

The program drives an electric gripper: a Damiao motor turns a lead screw, the
screw moves a nut, the nut opens and closes the jaws.  The motor is reached over
a USB-CANFD adapter.  Only motor-side position, velocity and torque are
measured; travel limits, the open zero and the friction of the mechanism are
learned by the program at run time.

| Component | State it keeps | Operations | Talks to |
|---|---|---|---|
| `controller/state_machine/gripper_state_machine` | the state, the previous state, the last event, two flags | `dispatch`, `forceFault`, `forceActiveStop`, `resetToDisconnected` | called by the controller only |
| `controller/gripper_controller` | configuration and link flags, cancel flag (atomic), bring-up mode, four workflow flags, stroke reference, learned profile, cached feedback | 23 public calls: configuration and link, enable/disable, self-check, homing, learning, health check, clamp (by force, by speed), release, manual move, stop, clearFault, update, seven bring-up calls | `MotorInterface`, state machine, safety and self-check helpers, seed file |
| `hardware_interface/damiao/damiao_motor` | connected/enabled flags (atomic), last feedback, virtual encoder, feedback thread | `connect`, `disconnect`, `enable`, `disable`, `sendCommand`, `readFeedback`, probe | transport; three mutexes (command, transport, feedback) |
| `hardware_interface/damiao/dm_usb2fdcan_transport` | receive queue (at most 256 frames), open flag | `open`, `close`, `writeFrame`, `readFrameFor`, SDK receive callback | vendor SDK |
| `controller/safety/*` | limiter configuration; nothing else is kept | `applyLimits`, `update` | called before each command and after each feedback |
| `controller/self_check/*`, `self_check_state` | phase of the self-check; friction anomaly bins; none in the identifiers | identification of noise, friction, travel, health | called by the controller |
| `controller/nut_position_encoder`, `hardware_interface/virtual_encoder` | unwrap count; reference | position updates | feedback path |
| `ui/ui_controller`, `ui/web_server` | log; `g_self_check_running` behind a mutex | one action per button; `selfcheck` starts a detached thread | controller |
| `config`, `app`, `commander`, `utils`, `common` | parsed configuration | start-up, parsing, arithmetic | everything |

The web server has one thread that serves one request after the other.  The only
action it does not run to completion is `selfcheck`: `runPreSelfCheck` runs in a
detached thread, and until it ends every other request reaches the controller
concurrently.  The controller guards its *snapshot* with a mutex; the state
machine, the flags, the profile and the cached feedback have no lock.  The driver
has a feedback thread that polls the motor and caches the last frame.

What is hard in this program:

* **many exits** - each operation can be refused, fail, be stopped by the
  limiter, by jam feedback, by a fault frame or by a cancel request, at any of
  its commands, and each exit must leave the state machine and the motor output
  consistent;
* **timers that race** - a motion has a deadline and up to three confirmation
  timers, a probe four; contact, brief current peaks, progress and missing frames
  start, restart and overtake them;
* **decisions from one bit of evidence** - the self-check tells a stop of the
  mechanism from friction, a soft jam or a drift by what one probe reports, and
  each later phase relies on that decision;
* **long sequences** - flags that open the gates of later operations survive
  stops, faults, repeated runs and reconfigurations;
* **interleavings** - stop, disable, enable and disconnect against the self-check
  thread, with an unlocked state machine and a check-then-act on the motor flag;
* **stale data** - limits recorded before the zero was moved, a seed file from an
  older reference, feedback from before a stop.

What makes each part correct: the state machine starts motion only from prepared
states and recovers from a latched stop into Disabled only; the controller gates
each motion by the steps before it, ends every motion with the output off and
never rests inside a motion state; a stop reaches the self-check thread, no
command is sent after it and the output ends off; a motion ends for the reason it
reports and no command leaves its limits; the self-check never drives the nut
against a stop it has met, and learns from enough regions or from none; a driver
flag says what the device does; fresh feedback is newer than the request that
waits for it; limiters and encoders keep values in range at their boundaries.

## Modules

| Module | Models |
|---|---|
| `SafetyPosture` | abstract specification: six postures, and which may follow which |
| `GripperTopState` | the transition table, the acceptance rule and `dispatch`, as operators |
| `GripperStateMachine` | the class: its snapshot and four mutators (`SnapshotInit`, `SnapshotNext`, `SnapshotSpec`); refines `SafetyPosture` |
| `GripperController` | every public operation of the controller, called by one thread |
| `MotionSafety` | the limits of each operation, `SafetyLimiter::applyLimits`, `ContactJamDetector::detect` and the tests on one frame, as operators |
| `MotionLoops` | the loops that drive a motion, iteration by iteration; ends as `GripperController` says |
| `MCMotionLoops` | values for the constants of `MotionLoops` |
| `SelfCheckCancellation` | the self-check thread and the server thread |
| `ProbeOutcome` | what the self-check decides from the report of one probe, and which reports are possible, as operators |
| `SelfCheckProbe` | one probe, frame by frame; its reports are those `ProbeOutcome` calls possible |
| `Breakaway`, `LimitSearch`, `PreSelfCheck` | the self-check: PreA, PreB, and everything from the safe zone to the new profile; each extends the one before |
| `DamiaoMotor` | the motor driver: its calls, the feedback thread, the receive queue and the drive |
| `PositionTracking` | virtual encoder, stroke reference and nut encoder |
| `GripperStateMachine_proof`, `GripperController_proof`, `MotionLoops_proof`, `SelfCheckCancellation_proof`, `SelfCheckProbe_proof`, `PreSelfCheck_proof`, `DamiaoMotor_proof`, `PositionTracking_proof` | theorems and proofs |

`GripperTopState` is shared: the state machine, the controller and the
cancellation module all call its `Accepts` and `Dispatch` where the code calls
`state_machine_.dispatch`.

### GripperController

The state is the controller's own (`topState`, the flags, `cancel`, `bringup`,
where the travel limits come from, what is in the seed file) and what it can see
of the motor (`connected`, `enabled`, `motorFault`).  `reply` and `ran` record
what the last call returned and which motion it drove; they are there for the
properties.

An operation is one action: called by one thread, nothing else runs between its
start and its return.  Inside it, a *body* is the record of top state, output,
fault and answer, and each helper of the controller is an operator from a body to
the set of bodies it can leave: `EnsureEnabled`, `Enabling`, `Motion`
(`runMotionUntil`), `Positioning` (`runManualPositioningUntil`), `Settled`
(`disableAfterMotion`) and so on.  An operation composes them in the order of the
code and has one disjunct per way to return.  What decides between the outcomes
in the code - currents, positions, timeouts - is a choice in the model: `Motion`
includes every interruption after which the output may be on or off, a fault may
have been seen or a stop forced over it.

Where limits come from is abstracted to `conservative`, `lowConfidence`,
`learned` and `stale` (recorded before the stroke reference last moved), which is
what the properties tell apart.

Constants: `Reconfigurable` says whether `configure()` may be called again (the
application calls it once, the interface permits more); `HomingBackoff` is the
sign of `homing.backoff_distance`.

### MotionSafety and MotionLoops

A state of `MotionLoops` is one motion under way: its options (`op`, the
`MotionWaitOptions` that the operation builds), the controller's body (top state,
output, fault: the record of `GripperController`), the last frame (`seen`, how long
ago: `silence`) and the timers.  `pc` follows the code: `command` and `send` are
`sendLimitedCommand`, `wait` is one iteration of `runMotionUntil`, `manual` and
`observe` one of `runManualPositioningUntil`, `endpoint` is
`completeEndpointMotion`, `stop` and `settle` are `stopAndWaitForSettledFeedback`.
`drive`, `aim`, `jog`, `unload` and `turns` are the two bring-up motions
(`jogMotorBringup`, `moveMotorBringupRelativeTurns`), which bypass the limiter and
look for no cancel request; for them a stroke stands for a motor position.

`Options` lists what each operation asks for: homing and its backoff, the learning
search and the way back, a leg of the health check, the three clamps, the release,
manual moves and bring-up.  Each iteration may find a new frame with any stroke
within `Slide`, moving or not, with any current, with a fault or not; or the old
frame, which in time becomes stale.  A frame that arrived between the loop's last
read and the disable is possible too (`Peek`).  Time is counted in iterations.

`lull` and `powered` are history: how many frames in a row showed contact or stall
without an advance, and whether the shown frame was sampled with the output on.

The endings are compared with `GripperController`, instantiated as `GC`: whatever a
loop leaves behind has to be among the bodies that `GC!Motion`, `GC!Positioning` or
`GC!Settled` give the operations to go on with (`EndingsHold`).  The choices of the
controller's model are thereby shown to include what the loops can do.

### SelfCheckCancellation

Each thread has a program counter.  A step is what the thread does between two
accesses to state the other one uses.  A `dispatch` is two steps: reading the
state and computing the next one, then writing it (`due`), as nothing in
`GripperStateMachine` makes it atomic; the two reads inside `dispatch` are taken
as one.  A fault frame arrives together with the read that sees it.  The
self-check's many probes are one loop: check for a cancel request, switch the
output on if it is off, limit, check, send, wait; a phase may be degraded and the
next one started, as `runPreSelfCheck` does after errors it tolerates.

`WebActions` bounds the requests the server receives: stop, disable, clearFault,
enable, disconnect, connect.  The other operations (home, learn, clamp, ...) and
bring-up are not interleaved with a self-check.  The server thread serves one request
after the other: the next one, the start of a self-check included, is received when
the earlier call has returned with its dispatch written.  `interfered` is history: an
`enable` or `connect` was asked for during this self-check, after which the output
may be on because the user wanted it.

### ProbeOutcome and SelfCheckProbe

`Outcomes` is the report of a probe (`SelfCheckMotionProbeResult`) reduced to what
is decided from it: the error, whether it has a sample and came to rest, how far it
went and a few flags.  The operators are the predicates of the code, with their
thresholds: `Boundary`, `EffectiveProgress`, `LooksLikeDrift`, `CanDegrade` and so
on.  The code "hardware" stands for every communication, feedback and motor error; the
lists of errors in PreA leave a few of them out (`ControlNotReady`, `ProtocolError`,
`HardwareUnavailable`), so that there `listed` is a choice.

`SelfCheckProbe` is `runSelfCheckMotionProbe` under each of the five option sets
its callers use (`Probes`): start, watch frame by frame with four timers for
missing progress, settle while held, or unload when the probe ended at a stop,
report.  A probe whose wait for rest fails reports where the nut was seen last and
that it is not settled.  `Stop` stands for `stop()` in another thread and a fault frame does the
same to the output.  `recent` is history, the last frames.

`Possible` says which reports there are, and the searches choose among those.  It is
the link between the two levels: `OutcomeIsPossible` checks on `SelfCheckProbe` what
`Breakaway`, `LimitSearch` and `PreSelfCheck` assume.  One consequence is that a
scan never ends for a soft jam that is no boundary, so that the retry after one
(`confirmPreBSoftJamPassThrough`) cannot be reached from there and is left out.

### Breakaway, LimitSearch and PreSelfCheck

A step is one probe, or one decision between two probes.  Before each, the cancel
flag is read as in the code, and a stop may arrive at any step and inside every
probe; a stopped probe reports that.

`Breakaway` is PreA: the paired scan over speed and current levels
(`pair`, `Closing`, `Opening`, `judge`), with its three exits - both directions moved,
a drift the other way, one direction missing at the highest level - and the
stable short strokes (`stroke`).  Levels are numbers; which current a level stands
for is left out.

`LimitSearch` is PreB: `scan` is one iteration of `searchPreliminaryLimit`, `release`
one of `releasePreBStoppedDirection`, entered after a card point or after the whole
search of a direction, `turn` goes to the other direction.  Here positions are
followed.  `against` is history: the stop the nut ran into and has not been released
from.  A release that runs into a boundary is degraded, or tried again, whatever
error its probe ended with, short of a stop or contradictory feedback; a stop that
comes when the segments are used up is left to the next check.

`PreSelfCheck` adds what follows: the bounds or the fallback window about the current
position, the last release, the learning at its anchors (position is not followed any
more, what room is left at an anchor is a choice), the check of the number of
regions, the new profile and the last settle wait.  Which anchors are left out for a
friction anomaly is a choice as well.

### DamiaoMotor

The callers are the web server thread and the self-check thread; each makes calls
one after the other, and `pc[c]` says what it does next.  Labels in `Critical`
are those at which it holds `command_mutex_`.  `poll` is the program counter of
the feedback thread, `cache` the feedback `readFeedback()` shows, `newest` the
local variable of `refreshFeedback`, `heard` whether a frame newer than the start
of `waitForFreshFeedback` has been parsed and stored.  `queue` is the receive
queue of the transport.  `drive` is outside `src/`, modelled from what the driver
sends it and reads from it; `power` is the last power frame it got, kept for the
properties.

A frame may fail to be written, reach the drive and be answered, or reach it and
have its answer lost.  The copies of a power frame, with the mode and stop frames
around them, are one step that may fail before or after the first copy has had its
effect.  Only the feedback thread holds `transport_mutex_` for long; for callers
it is a guard (`BusFree`).  A timeout may happen at any point at which the code
waits.  The register reads of `connect()` and the frames of the communication
probe are one step each.  `"old"` marks frames and feedback of an earlier link.

A link call (connect, disconnect, probe) does not overlap with another call in the
model: in the code an overlap of `disconnect()` with `enable()` may assign to a
`std::thread` that is still joinable, which ends the program (listed as a
hazard).

### PositionTracking

The unit of length is a count of the motor, `Half` counts are half of the wrap
range, and a count moves the nut by one unit.  `Turn` moves the motor by one
count, under power or by hand; `Sample` and `Store` are the two parts of
`refreshFeedback` that touch the virtual encoder and the cached feedback;
`UpdateFeedback` is `readAndUpdateFeedback` with the stroke reference it may make;
`SetOpenZeroReference` is what homing does at the open stop.  The variables
`angle`, `moved` and `angles` are history: where the motor really is, and where it
was when each cached value was taken.

Assumed: less than half a wrap range between two samples, as
`virtual_encoder.hpp` asks; one `configure()`, with the encoder enabled; calls
from one thread; `connect()` on a closed link only, as the user interface offers
it (`can_connect`).

## Runs

| Run | Checks | Bounds |
|---|---|---|
| `state_machine` | typing, flags, refinement of `SafetyPosture` | none: all states and events |
| `controller` | all call sequences: what holds between two calls, what a motion needs and leaves behind, manual moves and bring-up | one `configure()`, backoff configured; the state space is finite without further bounds |
| `claim_manual_move_unpowers` | one claim; a counterexample is expected | as `controller` |
| `motion_loop` | how each motion ends, what it may command, when a contact counts, that it ends and within how many steps | four strokes, four currents, timers of 1 to 3 iterations |
| `self_check_thread` | what is left when both threads are idle, no command after a stop, output off at the end, a stop ends the thread | all six requests |
| `claim_cancelled_is_unpowered` | one claim; a counterexample is expected | the only request is stop |
| `self_check_probe` | which reports there are, when the nut counts as stuck, unloading at stops, nothing learnt after a stop, the probe ends and within how many steps | a goal of three units, positions to four, timers of 2 to 5 iterations |
| `pre_self_check` | what each phase may assume of the one before, what is learnt, that the check ends | see below |
| `claim_contradiction_fails` | one claim; a counterexample is expected | as `pre_self_check` |
| `motor` | flag, frames, shown fault, thread and feedback agree; a lasting fault is heeded, every call returns | two callers, all seven calls, `QueueSize` 1 |
| `claim_disconnect_disables` | one claim; a counterexample is expected | one caller |
| `position_tracking` | no wrap is lost, the stroke follows the motor, commands and feedback use one zero | `Half` 2, `Span` 4, motor mounted reversed |

Several properties are conjunctions of named parts that belong together: `SnapshotOK`
of the state machine, `PositionIsTrue` of the encoders, `Coherent`
and `MotionContract` of the controller, `CoherentAtRest` of the two threads,
`EnabledIsHonest` and `LinksAreSeparate` of the driver, `EndingsHold` of the loops.

**Bounds.**  `QueueSize` is 256 in the code; with one frame overflow and replacement
of the only fault frame occur, and the proofs hold for every size.  `Span` bounds how
far the motor turns from where it started; with a wrap range of four counts (`Half`
2), four counts either way are a full wrap in both directions from every starting
position.  `Callers` has two members in the program: the web server thread and the
self-check thread.

`MCMotionLoops` has a travel of two units, a safe zone that leaves out one of them
and one stroke below the travel; currents below contact, at contact, at jam and above
the hard limit; a confirmation time of two iterations, so that an interruption fits
inside it, and a deadline of three, so that both orders of deadline and confirmation
occur.  Bring-up is asked with nothing given and with too much of everything, so that
every default and every bound applies.

`MCSelfCheckProbe` takes half of the normal motion distance for the micro motion, so
that a position is below both, between them or above; every confirmation time is
shorter than the deadline, and the nut may go further than asked and back behind the
start.

`MCPreSelfCheck` takes the distance that counts as motion as the unit: a probe goes
0, 1 or 2 units forth or 1 back.  The nut can get 4 units either way while the search
may expand by 5, so that mechanism, expansion distance and motor window each end a
search; that is also just enough for the three regions a learning needs, so that the
learning is entered from some searches and not from others.  Four anchors put two in
one region.  Two speeds and three currents are the least with which a direction can
break away below, at and above the level of the other and a level be repeated at the
next speed.  `MoveSteps` is the only artificial bound: one probe per move to an
anchor in place of a number that follows from the distances.

**Fairness.** `SelfCheckCancellation!Spec` assumes weak fairness of the
self-check thread and of the server thread once a request is being served: both
are ordinary threads, no step of theirs waits for the other, and every wait in
the code has a deadline.  No request is assumed to arrive.  `CancelEndsSelfCheck`
says that a cancel request ends the thread *or is withdrawn*: `enable()` clears the
flag (line 804), so that a cancelled self-check may go on.

`MotionLoops`, `SelfCheckProbe` and `PreSelfCheck` assume weak fairness of their own
steps: each is a loop in one thread that sleeps a bounded time per iteration.  No
frame is assumed to arrive and no stop to be requested.  `SelfCheckEnds` has one
exception that the code does not exclude: `releasePreBStoppedDirection` goes on as
long as its probes neither fail nor gain the distance, and nothing bounds the number
of its attempts (8487); the exception ends as soon as the user stops it.

`DamiaoMotor!Spec` assumes weak fairness of the feedback thread, which never waits
for a caller, and strong fairness of each caller inside a call: a mutex that comes
free again and again is obtained in the end.  `std::mutex` does not promise that,
and while the drive is silent the feedback thread releases the transport mutex
only to take it again, so `CallsReturn` says that no lock order and no join
deadlocks, not that starvation is impossible.  No call is assumed to be made and
no frame to be answered.

### What the violated claims show

* **`ManualMoveUnpowers`** - the header promises the output off after success,
  failure or timeout; error returns of `runManualPositioningUntil` and the
  failure branch of `moveToNutStroke` return with it on.
* **`CancelledIsUnpowered`** - stop sees the output off while the self-check
  thread is inside `enable()`, which has no cancel check after its gate; the
  output comes on afterwards and stays on.
* **`DisconnectLeavesDisabled`** - `motor_interface.hpp` asks for a disabled motor
  after a successful `disconnect()`; when an `enable()` has failed although its first
  frame reached the drive - a later copy of it could not be written, or the feedback
  timed out - no disable frame is written, and when one cannot be written the error is
  discarded.
* **`ContradictionFails`** - the archive of the self-check lists contradictory
  feedback among the errors that cannot be degraded; the short strokes and the
  learning report it and the self-check goes on to success.  In the paired scan a
  drift the other way ends the scan before the error of its probe is looked at, also
  when that is contradictory feedback.

Four more statements are kept beside the modules with a configuration each, for
whoever wants to see TLC refute them; no run states them:

* `ClaimStopIsKept` - the unlocked `dispatch` of the self-check thread overwrites the
  ActiveStop of a concurrent stop;
* `ClaimEnableFailsWhenFaulted` - `motor_interface.hpp` says that `enable()` fails
  when the motor is faulted; it takes any feedback newer than its frames, also one
  with the fault bit, and returns Ok with `isEnabled()` false;
* `ClaimSettledAfterStop` (module `MCMotionLoops`) - a frame from before the disable
  that the loop had not read counts as settled feedback;
* `ClaimLastReleaseAimsInside` (module `PreSelfCheck`) - the last release clamps its
  target into the safe zone and gives the probe only direction and distance, so that
  from beyond the zone it aims further out.

Behaviours that the models contain and no document of the repository excludes, so
that no run states them: a repeated self-check or homing keeps the health flag of
the earlier limits; after a stop and `clearFault` a clamp request alone reaches
Ready (`requireReadyForWork` replays the events, as the flags are still set);
`configure()` on an open link leaves the top state Disconnected and the link open;
the learning begins after a last release that failed with an error of its own; a scan
that ended stuck and did not come to rest is reversed without a release; a learning
that an error of a probe cuts short keeps the samples it had, of however few regions;
a fault that a bring-up pulse or the last settle frame of the turns meets is still
reported as done.

## Proofs

`GripperStateMachine_proof` proves first what the other proofs need of the transition
table of `GripperTopState`: it is deterministic, typed, and `Dispatch` follows its
edges; one lemma per state says what a dispatch from it can give.  Then it proves
`SnapshotTypeOK` and `FlagsAgree` (each inductive by itself; `SnapshotOK`) and that every step maps
to a step of `SafetyPosture` or a stutter.  The proofs of the controller and of the
two threads extend it for the first part.

`GripperController_proof` proves the safety properties of the controller for both
values of each constant.  The conjunction of the invariants is inductive once
`LinkInv` is added: the output is on only with an open link, a motion state never
shows between calls, and (with one `configure()`) the top state agrees with the
link.  The argument follows the code: lemmas say which bodies each helper can
leave (`MotionBody`, `EnablingBody`, ...), one lemma per operation (`...Keeps`)
that it keeps the invariant, and `StepKeeps` combines them.  The action
properties `MotionGates` and `MotionEndsUnpowered` follow from the same lemmas.
`BringupIsolates` needs that the bring-up mode is only entered off `Disconnected`,
which an open link keeps it off; every operation but its own is then refused.
`OnlyMoveStrands` calls a body `Owned` when an output that is on is owned by the
bring-up mode or by `Enabled` or `Ready`, or was stranded before: each refusal leaves
an owned body, and a motion ends with the output off unless it is the manual move.
`StaysCoherent` and `ContractHolds` collect them into the properties the run checks.

`MotionLoops_proof` proves `CommandsStayInside` for any limits, any mechanism and any
order of frames.  The limiter clamps a speed against the one sent before and to the
limits of the motion, so the property is inductive only with: the last speed within
the global maximum, which covers the zero it is reset to; the options of every
operation being numbers and those of bring-up within the bounds of the motor
(`BringupBounded`, proved from `BringupLimited`); and the bring-up loops and the
others never leading into each other (`Separate`), since they send by different
limits.  Only `Send`, `Jog`, `Drive` and `Aim` reach the motor or choose a target; the
lemma `SilentKeeps` covers every other step.

`EndingsHold` is proved for the same generality, and with it that the choices the
controller's model offers for a motion include every way the loops can end.  A loop
under way holds one of three bodies (`Live`): that of its start with the output off,
with it on, or with the fault latched; one that waits for its end began without a
fault, and one that settles has the output off (`Carried`).  At each label the reasons
for which it can have been reached are few (`Caused`).
`StopsOnStandstill` needs that no confirmation timer is ahead of the number of frames
without an advance (`Lulled`): a timer that a frame with progress does not restart
breaks it.

`StepsAreBounded` is the part of `MotionEnds` that needs no fairness: `Left` counts
the steps that deadline and settle wait still allow, from the label and the clock, and
every step of a loop lowers it (`Ways`, `StepCounts`).  The manual loop takes four steps
to a period and looks at its deadline in one of them only; that the clock has not passed
it in the other three is an invariant of its own (`Running`).  That some step is always
possible until the end is ENABLED, and stays with TLC.

`SelfCheckProbe_proof` proves every safety property of the probe for any thresholds,
times and range of the nut.  `StuckStoodStill` speaks of the frames as far back as the
confirmation time, so the invariant follows them: while a timer runs, the frames since
it began form its trail (`HardTrail`, `ScanTrail`), none of which lies below the
reference by which progress restarts the timer, nor further below the newest one than
the threshold.  The furthest position only grows, which is why a frame extends the
trail or ends it (`HardGoesOn`, `ScanGoesOn`) and why the two ends of the trail bound
the gain (`HardStood`, `ScanStood`).  `Gathered` says what the flags are worth before
the report, `Rest` included: from it every report is `Possible`, so that
`PreSelfCheck_proof`, which assumes `Possible` of a probe, rests on a theorem.  `Power` and `Timed`
give `UnloadsAtStops` and the types.  `NothingLearntAfterStop`, an action property,
follows from the same invariant: nothing is reported before the end and nothing counts
as settled before the report.  `StepsAreBounded` is proved as for the loops, from the
clock keeping within the deadline of the loop it runs in (`Timed`).

`PreSelfCheck_proof` proves four properties of the self-check for any levels, regions
and anchors and whatever the probes report, as far as `ProbeOutcome` calls it
possible.  `Owed` says that a stop at which the nut stands is one of the direction
searched and asks for a release, and that no scan begins while one is owed: from it
`ReleasedBeforeReversing` follows.  `Learning` says that each region counted has a
sample, so that enough regions are enough samples (a bound on cardinalities of
finite sets); `Kept` carries what the learning left to the profile, for
`LearntOrRolledBack`.  `DirectionsAccounted` and `FailedReleaseStops` are conjuncts of
the invariant.  `BoundaryResults` is the lemma that connects the two levels: what a
probe ending at a boundary at rest can report is what makes the scan ask for a release.
Typing needs an argument of its own: the anchor visited next is the least of a
nonempty set in the order of the code, by distance and then by stroke, and exists because
that order is well-founded (`FirstOfPairs`, `AtIsAnchor`); and an anchor is only visited
while one is left.

`SelfCheckCancellation_proof` proves all safety properties of the two threads for any
set of requests.  The worker's steps and the server's are described once each, by what
a step from one label to the next may change (`Turn` with `Lawful`, `Served` with
`Rightful`); every action is shown to be such a step, and the invariant is shown to
survive any.  It says that an output that is on has an open link (`Powered`); that a
server about to switch on has withdrawn the cancel request (`Withdrawn`); that a
command past its checks meets a cancel request with the output on only while the call
that raised it has yet to switch off (`Stopping`, from which `NoMotionAfterStop`
follows: the motor refuses the command); that past the disable of a way out the output
is off unless an `enable()` came in (`Unpowered`, `Interfering`); that a motion state is
the worker's, who has yet to leave it or is about to write another state (`Moving`); and
that `Disconnected` over an open link is about to be overwritten (`Announced`).  The
last two give `CoherentAtRest` although neither thread's dispatch is atomic.

`DamiaoMotor_proof` proves typing, `EnabledIsBacked`, `FaultShownIsDisabled`, their
combination `EnabledIsHonest`, `NoMotionPastDisable` and `LinksAreSeparate` for any set
of callers, any of the calls and any queue size.  None of the safety properties is
inductive by itself.  The strengthening for the flag has three parts: a caller is at a
label in `Critical` exactly when it owns the command mutex; by the label of the owner,
what the last power frame was (`PowerInv`); and that a shown fault has cleared
`enabled_` or is about to be overwritten by fresher feedback (`FaultInv`).
`LinksAreSeparate` has an invariant of its own, `ThreadInv`: link calls overlap with
nothing (`Solo`), so that a call past `requireConnected` keeps its link (`Entered`);
inside a link call the thread's flag is clear (`Between`); elsewhere the thread runs
exactly while the link is open (`Settled`); and what an earlier link has left is gone
before the thread starts (`Current`).  There is one lemma per operation and invariant.

`PositionTracking_proof` proves all four properties for every wrap range, stroke
limit, direction and span.  `LinkInv`, the inductive invariant, adds to the first
three that what is cached belongs to the open link: valid feedback is off the
origin of this link's count by the angle at which it was taken, so is the
controller's feedback once a reference holds, and reference and zero of the nut
encoder are the same, from which `CommandsMeetFeedback` follows.

Assumptions: on the controller, that the two constants are Boolean
(`SwitchesAssumption`), and for `DisconnectedClosed`, `StaysCoherent`, `BringupIsolates`
and `OnlyMoveStrands` that `configure()` is called once; on the driver, that callers
differ from the mark of a free mutex, that calls are among the seven and the queue has a place (`CallersAssumption`,
`CallsAssumption`, `QueueAssumption`) and, in its actions, that link calls of two
threads do not overlap; on the encoders, that the wrap range is
positive and the limits are numbers (`HalfAssumption`, `LimitsAssumption`,
`SpanAssumption`, `SignAssumption`); on the loops, that limits, times and strokes are
numbers and the motions asked for are ones the program has (`LimitsAssumption` of
`MotionSafety`, `LoopAssumption`, `PurposesAssumption`); on the self-check, that
distances, levels and counts are numbers, there is a speed to probe with (an empty
range fails before anything moves) and a release is longer than the accepted
error (`DistancesAssumption`, `LevelsAssumption`, `SearchAssumption`,
`LearningAssumption`); on the probe, that distances and times are numbers and its
options are those of the five callers (`ProbeAssumption`, `ProbesAssumption`).
TLC evaluates each of them in the run of its module.

Every invariant and every action property that a passing run checks is a theorem.  Only
model-checked is liveness, since fairness and ENABLED are out of the prover's reach:
`CancelEndsSelfCheck`, `FaultFrameIsHeeded`, `CallsReturn`, `MotionEnds`, `ProbeEnds` and
`SelfCheckEnds`.  Of `MotionEnds` and `ProbeEnds` the prover has the bound on the
steps.  The violated claims are counterexamples of TLC.

## Not modelled

* Floating-point identification: friction fits, noise, quality scores, the
  friction anomaly map and the kinematics.  What a phase reads of them is a choice.
* The seed file: saving, merging and parsing; the controller's model has what an
  operation may find in it.
* The phase table `self_check_state`, which is written for the user interface and
  never read by the controller.
* CAN frame packing, configuration parsing, the HTML front end: data without control.
* The simulated motor is a test double; the debug constraint policy and the commander
  are not called by the program.
* The home, learn, clamp, release and bring-up requests of the server during a
  self-check, and overlapping link calls of two threads.

## Plan

1. The remaining server operations and bring-up against the self-check thread, and
   `disconnect()` against the stroke reference it is about to make.
2. The seed file: which limits survive a restart, and what a merge may keep.
3. A bound on the steps of `PreSelfCheck` outside a release, as `Left` is for the loops;
   it has to follow the levels, the segments and the anchors through the phases.
