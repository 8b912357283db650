# TLA+ verification of trackpad-scale, Phase 1

This directory models the Phase 1 trackpad diagnostic: the native bridge
between Apple's private MultitouchSupport framework and Python, the diagnostic
that drives it, and the analysis it reports. The modules are translated from
the code in `src/`; TLC checks them on small instances, and TLAPS proves the
main results for all values of the constants.

Contents: [the system](#the-system) ·
[hard behaviours](#hard-behaviours) · [modules](#modules-and-the-code) ·
[runs](#runs-and-bounds) · [fairness](#fairness) ·
[disagreements with the source](#disagreements-with-the-source) ·
[proofs](#proofs) · [limits](#assumptions-and-what-is-not-modelled) ·
[plan](#plan)

## The system

| Component | State | Operations | Interacts by |
|---|---|---|---|
| MultitouchSupport (external) | registrations, running device | register, unregister, start and stop a device; calls the callback | calls `mt_phase1_raw_callback` on threads of its own |
| Native bridge, `native/src/mt_phase1.c` | process-wide: `g_active_capture` and its mutex, the admission gate (mutex, capture, context), the pool of refcon tokens, the count of rejected callbacks; per capture: `running`, `registered`, `accepting_callbacks`, `in_flight_callback_count`, counters, queue | create, start, stop, destroy, poll, get_stats; the callback | trylocks and atomics between callback and lifecycle calls |
| Frame queue (in the bridge) | array of 4096 slots (`mt_phase1.c:22`), head, tail, depth | enqueue (callback), poll, reset (start) | `queue_mutex` |
| Binding, `native_bridge.py` | handle, an RLock | create, start, stop, poll, is_running, stats, close, drain | ctypes calls under the RLock |
| Sensor, `sensor.py` | the binding | start, stop, `read_frame(timeout)`, stats, close | delegates, and polls in a loop |
| Diagnostic, `phase1_probe.py` | stage, samples, report | guided and unguided run, shutdown, report | one thread; KeyboardInterrupt |
| Analysis, `reliability.py` | local counters | `analyze_stage` | pure function of the recorded frames |
| Target gate, `target_profile.py` | none | compares the host with the supported target | called by the diagnostic and by the binding's constructor |

What makes each of them correct:

* **Bridge.** No callback, however late, touches freed memory or a capture
  that has moved on to another session; the callback never waits; stop and
  destroy wait with a bound, release a capture only when nothing can reach it
  and say so truthfully; one capture at a time is active, and the cleanup of
  one leaves the other alone.
* **Queue.** First in, first out; only the oldest frame is given up, only when
  the ring is full; no slot of an earlier lap or session is read.
* **Accounting.** Every callback that is counted is queued, dropped for a
  counted reason, or still in flight; one that was refused is reported as late,
  and nothing older than the session is.
* **Acquisition.** Nothing unverified is loaded or started without the
  override; a create that fails gives back what it had, once.
* **Sensor.** Several threads can share one: native calls of a capture never
  overlap, a reader gets frames in order and learns of a stop or close by
  another thread, and the handle outlives the capture for nobody.
* **Diagnostic.** Frames are credited to the stage they belong to; the report's
  numbers add up to the native ones; evidence is written only of a capture
  that was cleaned up, and not lost when it was not; the file says what the
  exit status says; the shutdown ends.
* **Analysis.** The counters mean what their names say for every list of
  frames.

## Hard behaviours

`PROJECT.json` lists them one by one at their lines. They fall in five groups.

1. *Callback against lifecycle.* The callback runs at any moment of any call,
   possibly late, with the refcon of a session long over, while `calloc` may
   have given the same address to another capture.
2. *Failing cleanup.* Each framework call may fail, the wait for callbacks may
   time out, and a later stop or destroy takes up what is left, possibly beside
   another capture's calls.
3. *Reading while callbacks run.* The queue is emptied and the counters are
   loaded one by one while callbacks come in or end.
4. *Interrupted shutdown.* Control-C at any point of the diagnostic, including
   its `finally`, and a file that cannot be written.
5. *Threads of Python.* `read_frame` and `drain` give the lock up between two
   native calls, and others stop, restart or close the capture meanwhile.

## Modules and the code

`PROJECT.json` ("map") gives the source lines of each definition. Definitions
whose comment starts with "A fault" take no part in any specification: each is
a plausible mistake in the operation that follows it, kept to confirm that the
properties notice it.

### The frame queue

* `FrameQueue` – `IsFull` and `Push`: the queue as a sequence.
* `FrameStream` – abstract specification: bounded FIFO that gives up its
  oldest frame.
* `RingQueue` – array, head, tail and depth as the C code moves them
  (callback: `Enqueue`; poll: `Poll`, `PollEmpty`; start: `Reset`, which leaves
  the slots). `ImplementsStream` refines `FrameStream`, with `pending` mapped to
  the slots between tail and head. `CaptureBridge` can therefore keep the queue
  as a sequence.

### The native bridge

* `SessionRundown` – abstract specification without locks or counters: a
  session is claimed, opened, shut, and released when the last callback has
  left; a capture is freed only without a session.
* `CaptureBridge` – the code. A *capture* is an address: after `Free` the next
  `Create` may reuse it. Each capture has one control thread, because its
  caller serializes its calls (`mt_phase1.h:21`; the binding holds its RLock),
  and calls of different captures interleave. `ctl` and `cb` are program
  counters.

  | Code | Actions |
  |---|---|
  | `mt_phase1_raw_callback` | `TryGate`, `GateBusy`, `Admit`, `Refuse`, `Reject`, `FindAccepting`, `FindClosed`, `Number`, `TryQueue`, `QueueBusy`, `DropFrame`, `Enqueue`, `Finish` |
  | `mt_phase1_capture_create` | `Create` |
  | `mt_phase1_capture_start` | `StartRefused`, `StartCalled`, `StartBlocked`, `StartLock`, `StartReset`, `PoolExhausted`, `StartToken`, `RegisterFails`, `Register`, `AttachLock`, `Attach`, `DeviceStart`, `DeviceStartFails`, then the cleanup |
  | cleanup of start, `mt_phase1_capture_stop` | `StopCalled`, `StopLock`, `DetachLock`, `Detach`, `DeviceStop`, `DeviceStopFails`, `Unregister`, `UnregisterFails`, `FindQuiesced`, `FindBusy`, `Settle` |
  | `mt_phase1_capture_destroy` | `StopCalled(c, "destroy")`, the cleanup, then `DestroyRefused` or `Free` |
  | `mt_phase1_capture_poll` | `PollCalled`, `PollLock`, `Poll` |
  | the framework | `Deliver`; the pairs `X`, `XFails` |

  Every atomic or mutex operation that another thread can notice is a step.
  Steps inside one critical section are joined where nobody without the mutex
  reads or writes what they change.
* `BridgeProperties` – the properties, the refinement mapping and the fair
  specifications.
* `CaptureStatistics` – `mt_phase1_capture_get_stats` beside all of that, one
  load per step, with the lock it takes for the queue's depth. A reader's own
  calls wait for it, as the binding has them; callbacks and the calls of other
  captures do not. `own`, `all` and `taken` remember, for the properties only, which
  callbacks have returned and how many frames were polled since when.
* `MCBridge`, `MCStatistics` – instances for TLC; `QueueLemmas`, `BridgeSafety`,
  `OwnerProofs` – proofs.

### One capture, as its owner sees it

* `CaptureView` – abstract specification of one capture without mutexes, tokens
  or other captures: what of it is up, how many callbacks are where in it
  (`inside`, by number), its counters, its queue. Steps of callbacks, and steps
  of the owner's calls with the condition under which a session takes them.
* `BridgeView` – the mapping of each capture of `CaptureBridge` to a
  `CaptureView`, and `ImplementsView`, checked in `lifetime` and `recording` and
  proved in `OwnerProofs`. The models of the Python code extend `CaptureView` and
  thereby rest on the C code.

### The sensor

* `Sensor` – `sensor.py` and the binding under it, called by several Python
  threads. `lock` is the RLock, `handle` whether `_capture` is set; `thread` is
  where each thread is. A call of the binding takes the lock, a read or drain
  makes several such calls. Native steps are joined where only the owner, which
  holds the lock, could tell them apart: `StartAttaches` is `Register` and
  `Open`, `Settle` what follows the detach. KeyboardInterrupt comes to the main
  thread, between native calls, also between the native destroy and the
  clearing of the handle (`torn`): from there on the handle dangles, and the
  model, which says nothing of a freed pointer, makes no further call. A close
  lets go of the lock and keeps the handle when it is interrupted between its
  stop and its destroy (`CloseDestroys`); it can then be closed again.
* `SensorProofs` – proofs.

### The diagnostic

* `Acquisition` – from the arguments to the started device and back: the
  validation in `run`, the gate in `run` and the one in the binding, the
  loading of the library, the steps of `mt_phase1_capture_create` with what
  each failure gives back, the start with its options, the close, `main`'s
  handler. `entry` is `"main"` for the diagnostic and `"sensor"` for an
  application that makes a `TrackpadSensor` of its own. Arguments are
  represented by the values the code tells apart; `"NaN"` and `"infinity"` are
  among the numbers of seconds, since `float()` reads them. `Interrupt` is
  KeyboardInterrupt, outside native calls; the confirmation may meet the end of
  its input. Nobody closes the capture when an interrupt comes between the
  constructor's return and the `try` (`phase1_probe.py:286`), or in the `finally`
  before the close: the binding has no finalizer, and the capture goes with the
  process. `NothingLeaks` is therefore about steps that fail and excepts
  interrupted runs.
* `Probe` – `main` and `run` of `phase1_probe.py` from the creation of the
  sensor on, with what `TrackpadSensor` and the binding do for it: start, the
  confirmation, the countdown and the observation of each stage (an unguided run
  has one stage and neither), the `finally` (stop, drain, statistics, close),
  the file. Callbacks go on between any two steps. `get_stats` loads its counters
  one by one (`ReadStats`). `Announce` is the print between the countdown's last
  poll and the stage's first, `CallDestroy` a close between its stop and its
  destroy. `Interrupt` is KeyboardInterrupt, between any two
  bytecodes but not inside a native call; `IOError` is a print or a write that
  fails, and may leave the file torn.

  A frame in `queue` has its number and what the diagnostic was doing, in which
  stage, when it was queued; in `overall` also what it was recorded for. That is
  all the properties tell apart.
* `AcquisitionProofs`, `ProbeProofs` – proofs.

### The analysis

* `StageAnalysis` – the loop of `analyze_stage`, one frame per step: frame-id
  steps (`FrameStep`), callback numbers (`NumberStep`), timestamps (`TimeStep`)
  with NaN, which compares with nothing, and the infinities, which compare.
* `MCAnalysis` – value sets for TLC; `AnalysisProofs` – proofs.

## Runs and bounds

| Run | Question | Result |
|---|---|---|
| `ring` | Do array and indices implement the bounded FIFO? | holds |
| `lifetime` | Two captures, two callback threads, restart, free and reuse of addresses: does a callback ever touch what it must not, is the bookkeeping exact, do statuses tell the truth, does what a session recorded belong to it, is each callback accounted for, are `SessionRundown` and `CaptureView` implemented? | holds |
| `recording` | One polled capture, callbacks one at a time: are frames polled in callback order across overwrites and restarts, is `CaptureView` implemented with polls, does a callback return though no control thread runs again, and every call though a callback never leaves? | holds |
| `statistics` | What do the numbers of `get_stats` leave out, what are they charged with, and when do they fit each other? | holds |
| `shared` | Several threads on one sensor, with control-C: are native calls kept apart, do handle and capture agree, are frames read in order while others stop and restart, does a None leave nothing behind that was known of? | holds |
| `returns` | Does every call on a shared sensor return? | holds |
| `gates` | Is anything unverified loaded or started, and anything left behind or given back twice? | holds |
| `evidence` | What does the file hold, with framework failures, callbacks in flight, failing writes, control-C? | holds |
| `ends` | Does the shutdown end? | holds |
| `preserved` | Is evidence preserved when the stop fails (comment in the source)? | violated, see below |
| `recorded` | Does every failure leave a failure record (README)? | violated, see below |
| `analysis` | Do the counters mean what they are read as? | holds |

What the less obvious properties say:

* `RefconsAreNotShared` (`lifetime`): the refcon of a session is one that the
  framework was never given before, by whichever capture and however long ago.
* `StatusIsTruthful` (`lifetime`): each status is held against everything that
  could reach the capture, after partial failures and timed-out waits too.
* `ImplementsView` (`lifetime`, `recording`): a capture opens once per session,
  is emptied and counted from zero only with no callback in it, and is freed only
  when it is down and left, whatever other captures do.
* `NoCallbackUnreported`, `NothingOlderIsCharged` (`statistics`): a callback
  that meets the gate's mutex held by another capture's call is rejected, and
  counted process-wide. It is reported as late, not among the native drops; and
  rejections of other sessions are charged to this one, but none that is older
  than it. A capture that was never started has no baseline yet and is charged
  with all rejections of the process, which is why the property speaks of those
  that have had a session.
* `SettledStatisticsAddUp` (`statistics`): read from a capture that is not the
  active one, the numbers are one account of its last session, with the frames
  polled before or since.
* `NoneLeavesNothingSeen` (`shared`): `read_frame` may return None with a frame
  in the queue, one queued after its last look; never one that was there
  before. That the poll precedes the question `is_running` is what makes it so.
* `FramesAreOfTheirStage` (`evidence`): the countdown of a guided stage ends
  with a poll that finds the queue empty, and its frames count as transitions.
  From then on frames are the stage's, also those that come while "Recording"
  is printed.
* `EvidenceAddsUp` (`evidence`): what the report computes from
  the frames and what it takes from the native counters agree when the stop
  succeeded. After a failed stop callbacks may still be in flight, and only
  a lower bound is claimed.
* `ReportMatchesExit` (`evidence`): a failure after the evidence was written
  replaces it by a failure report. A process that dies in `main`'s own handler
  may leave either, or a torn file.

Bounds, and why the cases of interest happen within them:

* **Captures** 2 in `lifetime`: one active and one bystander, or one freed and
  its successor. The code never relates more than two captures at once.
* **Threads** 2: one callback inside while another is refused, or two that
  compete for a mutex. `recording` has 1, because the order of frames rests on
  the framework running callbacks one at a time
  (`docs/ABI_VERIFICATION.md:40`); `statistics` has 1, which meets the mutex held
  by the detach of another capture.
* **ContextCapacity** 2 (4096 in the code): the pool runs out, and a
  session is followed by another with a new token.
* **QuiescencePolls** 1 or 2 (5000): the wait succeeds, fails at once, or
  fails after another attempt.
* **QueueCapacity** 1 to 3 (4096): overwrites happen; `ring` with 3 makes several
  laps.
* **MaxCallbacks** 2 to 4: a late callback of one session beside one of the
  next; in `recording` an overwrite, a poll, a restart and again. The cap is in
  the guard of `Deliver` (of `Admit` in `Probe`); nothing in the code depends on
  the number.
* `statistics` has 2 captures, of which one is read; it is also started,
  stopped, polled, destroyed and created again. The other one is created, started
  and stopped, so that there are a rejection by its detach, a baseline taken
  before it or after, and a second session. `MCBystander` keeps the other one's
  cleanup from failing, and keeps it away while the reader polls or frees its
  capture: what a rejection and a failed cleanup of one capture do beside a poll
  or a destroy of another is left to the proofs, which have no such bound.
* **Sensor**: 2 threads, the main thread and another; the code has no step in
  which a third would see something new. `shared` has 2 starts, a callback in
  each session and a control-C, so that `ReadsAreInOrder` is about frames of
  different sessions there; the order within one session is that of the capture's
  queue, for which `recording` has `PollsAreInOrder`. `returns` has one start and
  one callback, and leaves `drain` out, which a fast device keeps busy.
* **RegisterMax** 2 (`0xFFFFFFFF`): -1, 0, 1, the largest and one more.
* **Stages** 2 in `evidence`: a countdown that follows a stage.
  **MaxInterrupts** 2: control-C in the `try` and again in the `finally` or in
  `main`'s handler.
* **MaxSamples** 3 in `analysis`: a pair of pairs; the frame ids go up to 3, so
  that steps back, repeats, steps forward and gaps all occur.

Symmetry of captures and of threads is used in `lifetime`, whose properties
name none of them; in no other run. `Probe`, `Acquisition` and `StageAnalysis`
end by design (the process exits, the list is finite), and `shared` ends with a
torn close, so their configurations turn the deadlock check off. All others
check for deadlock.

## Fairness

The safety specifications assume none. For liveness only what the code can
count on is assumed. The two claims about the bridge need different fairness and
carry it as a premise, so that `recording` checks both under `Spec`:

* `CallbacksRun`, the premise of `CallbackReturns`: the operating system goes on
  running a callback's thread (weak fairness per thread). Control threads get
  *no* fairness and may halt inside a critical section: `CallbackReturns` says
  the callback never waits for them.
* `ControlRuns`, the premise of the bridge's `CallsReturn`: weak fairness per
  control thread; of callbacks only that they leave a critical section they are
  in (`Admit`, `Refuse`, `Enqueue`, each a few instructions under a mutex). A callback may stay in its capture for good, and
  `CallsReturn` holds all the same, because the wait is bounded. Weak fairness
  is enough, although mutexes are contended, because the number of callbacks
  and of other captures' calls in that run is small: it has one capture and
  finitely many callbacks, so a mutex is not taken from the caller for ever.
  For several captures the same claim would need fair mutexes.
* `FairSpec` of `Probe`: weak fairness of the diagnostic's main thread alone.
  Nothing is assumed of callbacks or of the framework's answers.
* `FairSpec` of `Sensor`: a thread that is not blocked runs on (weak fairness),
  a thread that asks for the lock gets it at some time though others take it
  in between (strong fairness: Python promises no order, but a call holds the
  lock for a bounded time, and a reader sleeps a millisecond between two
  polls), and a deadline that keeps coming up passes (strong fairness of
  `Timeout`). Callbacks need no fairness.

Owners never have to make a call, and the framework never has to deliver.

## Disagreements with the source

**Evidence lost by a close.** `run` catches a failure of `sensor.stop()` under the comment "preserve evidence
even if private stop fails" (`src/trackpad_scale/phase1_probe.py:330`), drains,
reads the statistics and assembles the report. It then calls `sensor.close()`
(`:348`), which repeats the stop. If the framework still refuses, `close`
raises, `run` returns nothing, and `main` writes the bare failure report: no
stages, no statistics. Run `preserved` is that behaviour: start, a stop that
fails, drain and statistics, a close that fails, a failure report. Nobody
presses control-C in it. The evidence survives only if the second attempt
succeeds.

**Failures without a record.** `README.md:87` of the repository says that
`--json-out` receives a failure record if a framework, device, registration,
start, cleanup or confirmation step fails. `main` makes one of
`Phase1BridgeError`, `RuntimeError`, `ValueError`, `OSError`, `EOFError` and
`KeyboardInterrupt`. The fingerprint of the framework may raise others: KeyError
when its property list has no version, CalledProcessError when `dyld_info`
fails; and so may a library that lacks a function (AttributeError) and a
countdown with an infinite lead-in (OverflowError). Run `recorded` finds the
shortest: the fingerprint fails, and the file is never written.

## Proofs

All theorems hold for every value of the constants that satisfies the named
assumptions. Each says no more than the code does:

* `QueueCapacityAssumption`: the capacity is positive; `NoFrameAssumption`: no
  frame is what an empty slot holds.
* `BridgeAssumption`: captures and threads are disjoint, `None` is neither, there
  are finitely many threads, bounds are natural. `ReadersAssumption`: readers are
  owners of captures.
* `SensorAssumption`: the main thread is a thread, calls are those of the class,
  bounds are natural. `ModesAssumption`, `ProbeAssumption`: the modes of the
  parser, at least one stage, natural bounds.
* `AnalysisAssumption`: ids and numbers are naturals, timestamps
  integers, NaN or an infinity, which are not integers.
  `RegisterAssumption`: a positive register.

Every safety invariant, every action property and every refinement that a run
checks is stated by a theorem, liveness by none. The bounds on callbacks, starts
and interrupts are constants of the modules, so that a theorem holds however
large they are.

`QueueLemmas` has what all of the users of `FrameQueue` need: a push or a poll
keeps the order of a queue and the set its frames are from.

### Ring (`RingProofs`)

`TypeCorrect`, `IndicesAgreeHolds` and `RingImplementsStream`. The prover knows
little about `%`, so the proof first replaces the remainder by at most one
subtraction of the capacity (`OneLap`). With that, `IndicesAgree` and the types
are inductive, and each operation maps to one of the stream's.

### Bridge (`BridgeSafety`)

No property of the bridge is inductive alone: that a callback is admitted to a
live capture depends on the gate, the gate on the mutex, the mutex on how far a
call has come. The inductive invariant is

    IInv == TypeInv /\ Locks /\ Gate /\ Active /\ Callbacks /\ Quiet
            /\ InFlightIsExact /\ Tokens /\ Returns /\ Promised

* `Locks`: the two process-wide mutexes are held exactly at the places of the code
  where they are. (Each change of a queue is one step, so its
  mutex is not needed here.)
* `Gate`: an open gate leads to the active capture and carries its token.
* `Active`: what is registered, running or in the middle of a start is active;
  a freed capture is not.
* `Callbacks`: a callback inside is inside the active capture, by its token.
* `InFlightIsExact`: the counter is the number of callbacks inside, so the
  load in the wait means what the code takes it to mean.
* `Quiet`: after a wait that saw zero nobody enters, since the gate is shut.
* `Tokens`: handed out in order, each once; those the framework was ever given
  are among the ones already handed out, and the one a start is about to
  register is not among them.
* `Returns`: what a status says already at each place of a call.
* `Promised`: what of it holds after the return, until the next call.

Each part is proved preserved by each action; the theorems `NoStaleAccessHolds`,
`InFlightIsExactHolds`, `GateIsVacantHolds`, `OnlyActiveIsReachableHolds`,
`RefconsAreNotSharedHolds`, `StatusIsTruthfulHolds` and the action property
`InactiveIsUntouchedHolds` follow.

`StatusIsTruthful` says that a capture stopped or freed is out of reach of the
framework, the gate and every callback. `Promised` keeps only that such a capture
is not the active one; the rest follows from `Gate`, `Active` and `Callbacks`, which
lead from everything that could reach a capture to the active one
(`InactiveIsOutOfReach`).

`GateIsVacantHolds` has a consequence for the code: the branch of
`mt_phase1_capture_start` for an unexpectedly occupied gate (`mt_phase1.c:592`)
is unreachable, whichever way framework calls fail.

What the bridge records rests on three additions:

* `QueueIsOfSessionHolds`, by `SessionInv == IInv /\ EmptyAtStart /\ OfSession`:
  a queue is empty when the next session takes its token, and each frame in it
  has the refcon of its session. That nobody is inside a capture at these
  places (`NobodyInside`) is what `IInv` gives.
* `CallbacksAddUpHolds`: the counted callbacks that have no frame stored yet are
  a set of threads; the proof follows that set, and its cardinality, through each
  step (`AddUpStep`).
* `PollsAreInOrderHolds`, by `OrderInv == SessionInv /\ Fresh /\ Ordered /\
  Newest`: a token is new to whoever polled before; the frame polled last, those
  in the queue, the number of a callback with a frame to store and the count are
  in that order. This theorem has the premise `OneAtATime`, as the framework runs
  its callbacks (`docs/ABI_VERIFICATION.md:40`); with two at a time the later
  number can be stored first, and the property is false.

`BridgeImplementsRundown` shows that every step is a step of `SessionRundown` or
a stutter: `Register` claims, `Attach` opens, `Admit` enters, `Finish` leaves,
`Detach` shuts, `Settle` releases.

### What an owner sees (`OwnerProofs`)

`BridgeImplementsView`: each step of the bridge is, for each capture, a step of
`CaptureView` or none. It needs two invariants more: `InSession` (a session goes
up and down in order, and nobody is inside before it is attached) and
`Delivered` (no capture has numbered more callbacks than were delivered). The
view counts callbacks by place, so the proof is about cardinalities: one callback
moves at most (`AtMoves`), and each way of moving is one more here and one less
there (`Entered`, `Moved`, `Gone`, `Stayed`).

`NoCallbackUnreportedHolds`, `NothingOlderIsChargedHolds` and
`SettledStatisticsAddUpHolds` are about all readers at once, while `get_stats`
loads one counter after the other. Their invariant is

    StatsInv == SessionInv /\ CallbacksAddUp /\ StatsTypes /\ FromZero
                /\ Balanced /\ Seen

* `FromZero`: a baseline was taken in the past, and a session begins with all
  counts zero.
* `Balanced`: each callback of the session that has returned is in the total of
  its capture, nothing older than the session is, and the queue holds what
  was queued and neither overwritten nor polled.
* `Seen`: what a `get_stats` under way has stored, with what it has still to
  load, covers what was due when it began and claims no more than the counters
  do now; and as long as the capture is not active, what was stored is still true.

The attempt to prove these found the memory of the model wrong as it
was, not the code: `create` clears the counters as a start does, which `own` did
not know, so that after a destroy and a create callbacks of the freed capture
were still due; and a capture that was never started has baseline 0, so it is
charged with rejections older than itself. TLC confirmed both once the run
destroys captures. `Clears` and `NothingOlderIsCharged` are stated accordingly.

### Sensor (`SensorProofs`)

`TypeCorrect`, `CallsAreSerializedHolds`, `HandleIsOfACaptureHolds`,
`ReadsAreInOrderHolds` and `NoneLeavesNothingSeenHolds`, for any number of
threads. The invariant is `Types /\ QueueOfSession /\ Remembered`:

* in `Types`, `LockIsHeld`: a thread holds the lock exactly from where it takes
  it to where it leaves it, from which the serialization follows; `Allocated`:
  who holds the lock has a capture behind the handle until it has freed it;
  `Alone`, `Counted`, `InASession`: the callback that is inside, if any, is one
  of a session, with a number within the bound.
* `QueueOfSession`: the queue holds frames of this session, oldest first, with
  numbers already given.
* `Remembered`: they are later than what a thread was given before, and than
  what was there when it last looked and found nothing.

### Diagnostic (`ProbeProofs`)

`TypeCorrect`, `FramesAreOfTheirStageHolds`, `EvidenceAddsUpHolds`,
`EvidenceIsOfAClosedCaptureHolds` and `ReportMatchesExitHolds`, for every mode,
any number of stages, callbacks and interrupts. The invariant is

    IInv == Types /\ Numbered /\ GateIsShut /\ DeviceRuns /\ Stops /\ Ends
            /\ Observed

* in `Types`, `Accounted`: each counted callback is about to store its frame, or
  its frame is queued, recorded, overwritten or dropped (`SumIsRight`), and no
  number is given twice or too early (`NoneIsExtra`).
* `Numbered`: no frame has a number that was not given.
* `GateIsShut`, `DeviceRuns`: when the capture is not reachable, and when its
  device is on, by the place of the code.
* `Stops`: after a stop that did not fail the capture stays quiet, its queue is
  empty once drained, and each counter that was read is final. After a failed
  one only lower bounds remain.
* `Ends`: evidence exists only of a closed capture, and adds up.
* `Observed`: while a guided stage is announced or observed the queue holds only
  its frames.

`EvidenceAddsUp` compares the sum of the gaps between the recorded numbers,
a fold over the list, with the native counters. The induction theorems of the
library cannot be instantiated here, but well-founded minimality can: if the sum
were wrong for some prefix there would be a shortest one, and it is not
(`Smallest` and what follows it).

### Analysis (`AnalysisProofs`)

`TypeCorrect`, `SkippedAreLostHolds`, `FrameIdsAddUpHolds` and
`TimesAreOrderedHolds`, for lists of any length. The sums telescope, with
`Untouched` (nothing is counted before the first frame) as the strengthening.
`TimesAreOrdered` relates all pairs of frames and the loop only neighbours: each
step extends the order of what came before to the new frame through its
predecessor, because without NaN "not earlier than" is transitive, among the
infinities too (`NotEarlierTransitive`).

### Acquisition (`AcquisitionProofs`)

`TypeCorrect`, `NothingUnverifiedRunsHolds` and `NothingLeaksHolds`. The
invariant is `TypeOK /\ HeldInOrder /\ Gated`: what the create holds is a
function of the step it is at (so that a failure gives back exactly that), and
whoever is past the binding's gate, holds anything or has started the device,
passed it. At the end either nothing is held or everything, and everything only
after a device was started or an interrupt came when nobody would close.
`Gated` does not mention the gate of `run`: the binding's suffices.

### Only model-checked

Liveness: `CallbackReturns`, the two `CallsReturn` and `ShutdownEnds`. Fairness is
stated with ENABLED, which is beyond the prover. Beside them only the two
violated claims, which TLC refutes, have no theorem.

## Assumptions, and what is not modelled

* The framework is external. It accepts or refuses any request, and it may call
  back with any refcon it was ever given, also after an unregistration: more
  than it is known to do, because `mt_phase1.h` allows for it.
* Memory is sequentially consistent. The atomics in the code that order one
  thread after another are acquire and release pairs or stronger; the relaxed
  counters are only counted.
* One mutex-protected region is atomic for everybody who respects the mutex.
* In `CaptureBridge` and `Probe` a create succeeds or leaves nothing behind;
  `Acquisition` shows that it does.
* `CallsReturn` of the bridge is checked for one capture. How calls of other
  captures queue behind its wait (`mt_phase1.c:623`) is checked in `lifetime` as
  the absence of deadlock, not as each getting its turn.
* The device-mismatch counter, error texts and NULL-argument checks are left
  out.
* `Sensor` has callbacks one at a time, as the framework runs them; that
  `PollsAreInOrder` and `ReadsAreInOrder` need. KeyboardInterrupt inside the
  binding's constructor is not modelled: a capture created but not yet bound to
  a handle is then lost with the process. Nor are calls after a torn close.
* Of the diagnostic: printing, help texts and the contents of the report beyond
  its accounting are left out. No rate of delivery is modelled, so how long
  `_drain_available` lasts while a device delivers is not addressed
  (`phase1_probe.py:134`): it is false for a device that outruns Python and
  true for one that does not.
* Of the target gate: how the output of `dyld_info`, `sw_vers` and `sysctl` is
  parsed.
* Of the analysis: the histogram, the fraction of labelled counts and the
  callback rate. Each is one expression over the list, of which a property
  could only repeat what it says.
* The tests and the build are not modelled.

## Plan

Done: the queue and its refinement; the bridge with its safety, refinement,
liveness and statistics; the view of one capture, implemented by the bridge;
the sensor under several threads; the acquisition; the diagnostic; the
analysis; and a theorem for each safety property, action property and refinement
that a run checks.

Left:

1. The step from `CaptureView` to its users as a refinement of its own: that
   `Sensor` and `Probe`, with their extra fields of a frame forgotten, take only
   steps of `CaptureView`. Today that holds by construction, because they use
   its actions, and is not stated.
2. The part of liveness that needs no fairness: a variant that each step of a
   callback, and each step of a cleanup, decreases, so that only "it goes on
   running" is left to the assumption.
3. Shorter proofs where cardinalities are followed through a step.
