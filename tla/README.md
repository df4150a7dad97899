# Verification of venus-evcharger-service

TLA+ models of the parts of the service whose correctness depends on the order
in which processes, callbacks and failures happen, the TLC runs that check them
on small instances, and TLAPS proofs for every instance. Paths below are
relative to `src/venus_evcharger/`, those that begin with `rust/` or `deploy/` to
`src/`, and the upper-case documents (`DBUS_GATEWAY.md`, ...) are in `src/`.

Contents: 1 the system, 2 how the project is built, 3 modules, 4 runs,
5 proofs, 6 what the models show about the code, 7 not modelled.

## 1. The system

The service controls an EV charger on a Victron GX device. It consists of
several processes:

- the **core** (`venus_evcharger_service.py`): one executor thread
  (`runtime/async_mainloop_executor.py`) runs user commands and update cycles
  one after the other; backends talk to relays, meters and chargers, an I/O
  worker polls in a thread of its own, and an HTTP server runs commands in the
  threads of its requests;
- the **DBus gateway** (`dbus_adapter/`): the only process that talks to DBus,
  a single GLib thread that serves a Unix socket, ticks, and keeps at most one
  asynchronous DBus call in flight; the **native adapter**
  (`rust/dbus-adapter`) is a second implementation of it;
- the **auto-input helper** (`inputs/helper/`, `energy/`; natively
  `rust/auto-input-helper`), a subprocess that delivers measurements;
- the **forensic observer** (`rust/forensic-observer`), the **boot updater**
  (`deploy/venus/bootstrap_updater.d`) and one-shot tools.

Core and gateway talk over two directories of JSON command files on tmpfs
(`dbus-commands/` core to gateway, `core-commands/` gateway to core) and over
the gateway's socket; helper and core over a snapshot file. Every process may
crash and be restarted at any time; the files outlive it.

### Inventory

The hard parts of each component and what makes it correct; `PROJECT.json`
lists the same components with their status and, under `hazards`, the lines
where something can go wrong that a test would hardly reach.

| component | state and operations | hard parts | correct when | modules |
|---|---|---|---|---|
| command mailbox (`ipc/command_mailbox.py`) | a file per coalesce key, the directory lock; enqueue, load, remove, replace | read-modify-write across processes, lock timeout, crash, clock | operations are atomic; only who loaded a generation retires it; urgency is kept | CommandMailbox, AtomicMailbox, FileMailbox |
| core command lane (`runtime/async_mainloop_executor.py`, `ipc/core_commands.py`) | loaded batch, retries; poll, dispatch, defer, retire | overwritten while handled, failed retirement, restart | handled once and in order, none lost, no starvation | CommandDelivery, CoreCommandLane |
| GX relay operation, broker (`dbus_adapter/write/semantic.py`, `async_broker.py`) | phase, target, retries in the file; the call in flight | timeouts, late effects, failing callbacks, restart | confirmed means effective; not retired unserved; off is done | GxRelayLane |
| publication lanes (`ipc/fast_publication*.py`, `ipc/publication_order*.py`) | queued fields, order marks, journal, fallback file | two lanes, deadlines, restart | newest kept; nothing revived | PublicationLanes |
| gateway scheduler (`dbus_adapter/write/core.py`, `process/loop.py`) | budgets, due times; one operation per tick | commands against reads | reads are served | GatewayTick |
| PV reads and discovery (`dbus_adapter/read/`) | dormancy, held estimate, generation | sources that sleep and move | a generation names one topology; held values end | PvSources |
| gateway health (`dbus_adapter/rate.py`, `health/`, `resource_pressure.py`) | breaker, latch, aggregate with recovery hold | hysteresis, evidence that outlives its episode | cause belongs to the state; recovery is calm | GatewayHealth |
| generic Shelly configuration (`dbus_adapter/write/generic_shelly.py`) | request and its search | several producers of one file format | a request is tried | GenericShelly |
| phase switching (`update/relay_phase_*`) | pending selection, stage, mismatches, lockout | restart in the middle, mode change, contradicting readings | never under load; ends; lockout respected | PhaseSwitch |
| relay decision, charger health (`update/relay*.py`) | retry window, contactor faults, lockout | read-back against command | a lockout holds | CycleHealth |
| automatic decision (`auto/`) | sample window, delays, cutover | condition against the age of its delay | switches are earned | AutoDecision |
| scheduled mode (`core/common_schedule.py`) | - | months, midnight | the boost is the interval it should be | ScheduledMode |
| control writes (`controllers/write*.py`) | in-process queue, roll-back, overrides | HTTP thread against the cycle | an acknowledged setting reaches the disk; an undone off is restored | ControlWrite |
| persistent state (`controllers/state_*`) | state file | crash in between, other topology, clock | what was saved comes back where it belongs | RuntimeState |
| I/O worker, switch group, chargers (`backend/`) | pending command, snapshot, device | failing halfway, replaced worker | a command lands | ChargerIo |
| input supervisor (`inputs/`) | helper process, snapshot | out-of-order snapshots, hung helper | a hung helper is replaced; a fresh snapshot vouches for a helper | AutoInput |
| energy sources (`inputs/helper/`, `energy/`) | polling, fusion, fail-over | sources that fail and recover | no source starves; the grid value returns when earned | EnergySources |
| learning, forecast (`energy/`, `update/learning*.py`) | profiles, estimate | sessions, signature | learned within observed; stable is backed | EnergyLearning, LearnedPower |
| ESS balance (`update/victron_ess_*`) | setpoint, tuning, trial | failed writes, suspension, restart | the setpoint is remembered until undone | EssBalance |
| software update (`update/software_update_*`) | due times, installer | late exit, restart | one installer, its result reported | SoftwareUpdate |
| control API (`control/`) | idempotency store and mirror, limits, events | concurrent requests, eviction, restart | an answered request is not run again | ControlApi |
| boot updater (`deploy/venus/bootstrap_updater.d`) | lock, releases, links | killed at any step | current and previous are intact | BootUpdater |
| native adapter (`rust/dbus-adapter`) | command queue, socket, reader, cache, health | operations over many ticks | waiting is under way; fresh is answered; a trip is earned | NativeAdapter, NativeReader, NativeHealth |
| native helper (`rust/auto-input-helper`) | snapshot, sources, learning, capacity | as the Python helper | alive is recent; agrees with Python; written is earned | NativeHelper, NativeSources, NativeLearning, CapacityEstimate |
| forensic observer (`rust/forensic-observer`) | episode, bundles | storage that comes and goes, death | an unfinished bundle belongs to the episode | ForensicObserver |
| setup wizard, inventory, diagnostics; architecture and release scripts | - | - | - | not modelled |

## 2. How the project is built

Each component has a module with its state, one action per operation and its
properties. The next-state relation is the same for TLC and for TLAPS; bounds
are conjuncts of guards that name a constant (`MaxRequests`, `MaxCrashes`, ...)
or the set a quantified input ranges over. Proofs are in modules of their own:

| proof module | about |
|---|---|
| `FileMailbox_proofs` | FileMailbox, with CommandMailbox and AtomicMailbox |
| `CoreCommandLane_proofs` | CoreCommandLane, with CommandDelivery |
| `MCProgress_proofs` | PublicationLanes, GatewayTick, AutoInput, ControlWrite |
| `PhaseSwitch_proofs` | PhaseSwitch |
| `Gateway_proofs` | GxRelayLane, GatewayHealth, BootUpdater, NativeHealth, PvSources, CapacityEstimate, ForensicObserver, SoftwareUpdate |
| `Service_proofs` | AutoDecision, EssBalance, EnergySources, ControlApi, ChargerIo, CycleHealth, LearnedPower, RuntimeState, ScheduledMode, EnergyLearning |
| `MCGateway_proofs` | the gateway's components together (MCGateway) |
| `MCAdapters_proofs` | NativeAdapter, NativeReader, NativeHelper, NativeSources, ChargerIo, each and together (MCAdapters) |

Most components share no variable with each other: what crosses between their
processes is a file or a message, and enters the receiving model as a choice
among what the sender can produce. Four MC modules therefore run several
components in one TLC process: a variable `part` says which component a
behaviour belongs to, the others stand still. A bundle's invariant is the
conjunction, over its parts, of the type invariant and the properties that only
it checks.

| bundle | parts |
|---|---|
| `MCGateway` | relay (GxRelayLane), health, pv, native_health, observer, updater, update_client, capacity |
| `MCAdapters` | adapter, reader, helper, sources (the native processes), io (ChargerIo) |
| `MCService` | auto, ess, power, cycle, schedule, write, state, energy, learning, api |
| `MCProgress` | publication, tick, helper (AutoInput), write: what must eventually happen |

Where components do interact through shared state the models are composed:
`CoreCommandLane` and `GxRelayLane` use the mailbox as the atomic object that
`FileMailbox` is proved to implement, through the operators of `CommandMailbox`;
`PhaseSwitch` has the control writes, the I/O worker and the update cycle in one
module; `MCService` runs `NativeLearning` and `EnergyLearning` side by side on the
same measurements.

Abstract specifications: `AtomicMailbox` (implemented by `FileMailbox`) and
`CommandDelivery` (implemented by `CoreCommandLane`), both with a refinement
mapping, checked by TLC and proved.

### Plan

Done: the transport, the relay operation, the publication arbitration, phase
switching, the decisions of the service, both gateways and helpers, updater and
observer; the safety properties of the gateway, of the native programs and of the
service as theorems, and three bundle invariants (`GatewayInv`, `AdaptersInv`,
`ProgressInv`) whole.
Left: the four conjuncts of `ServiceInv` that are not theorems (section 5).

## 3. Modules

Each module's header names the code it models; here is what a reader needs to
relate its state to that code, and what was abstracted.

### Transport

**CommandMailbox, AtomicMailbox, FileMailbox.** A command is reduced to what the
transport reads: revision, opaque value, priority rank, creation time.
`CommandMailbox` defines what each locked operation does to one file
(`AfterEnqueue` with `should_replace_command` and the inherited creation time,
`AfterRemoveIfCurrent`, `AfterReplaceIfCurrent`). `FileMailbox` runs these
operations step by step in several processes: build the payload, wait for the
flock or give up, read the files one at a time, write or unlink one, unlock;
`Crash` at any point. `AtomicMailbox` is the abstract specification.
`Observers` are the processes that may not open the lock file: `load_pending`
catches the `PermissionError` (`command_mailbox.py:185-188`) and reads without
the lock (`BeginUnlockedLoad`). Such a load sees every file whole, but may put
files of two moments side by side, so that `LoadIsSnapshot` speaks of the loads of
the other processes only. Left out:
the quarantine of undecodable files, `remove` without revision (used only by
tools), and the field-merging policy, which `PublicationLanes` models.

**CommandDelivery, CoreCommandLane.** `file` is the `core-commands` directory,
`batch` what `_load_core_pending` returned, `retry` is `_core_command_retries`,
`retiring` the command between handler and retirement. Actions: `GuiWrite`,
`Poll`, then per command `SkipWaiting`, `RetireOnly`, `Dispatch`,
`DispatchFails`, `Retire`, `RetireFails`, and `RetryDelayElapses`, `SetClock`,
`Crash`. History variables number the writes (`accepted`, `delivered`,
`handled`). An invalid envelope, which the handler drops with a warning, counts
as handled. `CommandDelivery` is what the lane promises.

**PublicationLanes.** One coalesce key with several fields. The value of a field
is the order of its publication. The client sends over the socket (`Publish`,
`Resend` for live publications), and falls back to the mailbox (`Fallback`); the
gateway accepts (`Accept`), expires (`ExpireFast`) and applies (`ApplyFast`)
queued fields, and applies or drops the fallback (`ApplyDurable`,
`DropSuperseded`, `DropExpired`). `marks` is the order history, `journal` its
durable part on disk, appended by `Checkpoint`, rewritten by `Compact` (also when
another key is checkpointed, `CheckpointElsewhere`) and read back by `Crash`.
Durations are not modelled as numbers; what they guarantee is:
`Outlived(n)` says that when the lifetime of publication n is over, older ones
have left the client (0.5 s) and the socket, and a file they created is past its
30 s; `PastRetry` that 60 s of retention exceed these 30 s. `owed` and
`guarded` are history variables: the newest accepted value of a field that is not
shown yet, and the last value of a field that was checkpointed and that the
compactions since have kept, 0 for none. Publications with a priority other than
live or diagnostic take only the mailbox lane and are not part of this module.
Publications of a key are issued one after the other, which the core's single
executor thread ensures.

### Gateway

**GxRelayLane.** `file` is the command file of one relay, its value the progress
that `replace_if_current` keeps in it; `tick` the snapshot of the current tick;
`flight` the operation in flight. `wire`, `replies`, `relay`, `manual` are the
external services: they serve calls of one destination in order, refuse any of
them, answer late, and the contact may not follow. Phase handlers are
`OnSuccess`, `OnError`, `VerifyOutcome`, `ManualFallback`; the broker is `Take`,
`Succeed`, `Fail`, `CallbackFails`, `IgnoreLate`, `Timeout`. Times are reduced
to "deadline passed" and "not_before passed". Refusals by rate limiter, circuit
breaker and budget are `EndTick`. Operation ids are reused only when no call
with that id is outstanding, which stands for the unbounded counter.

**GatewayTick.** One action per work tick and per operation it may start:
commands by priority and budget, a due read, discovery. A read goes first when a
core value is older than the service level or an aggregate is under way. Due
reads are taken by due time and then by configuration order (`overdue`); what
`force_due` and `expedite_healthy` give the due time 0 comes before them, in
configuration order (`front`). `expedite_healthy` runs with the regulation, takes the
core reads that are old or estimated, and passes over those in backoff
(`Expedited`); a control snapshot is regulated once and lives at most a second, so
any tick may regulate (`regulated`). An aggregate takes one operation per member
and stays due until the last one (`unread`, `MemberAnswers`); a member that fails
ends it unless the read is optional. The refresh command forces what its scope
and age limit select (`Refreshable`) without an operation of its own. An estimate
is held for at most one read in a row (`held`), for the seconds of its hold
window. The budget window is counted in ticks.

**PvSources.** `obs` is what the dormancy tracker remembers per source, `round`
the aggregate read in progress, `samples` the last-good window, `topology` what
discovery published, with its generation. Powers are reduced to the list of
sources in the sum.

**GatewayHealth**, **NativeHealth.** One step is a tick with a chosen sample
(operation results, load, queue age). All windows and holds are counters.
`healthEvidence` and `trigger` are what is shown with a protective state; the
history variables `healthEpisode`, `calm` and `spent` record what was measured,
independently of the code's own windows.

**GenericShelly.** The boot helper's request, the wire parser with the fields it
accepts, and the phased search of the executor; the fleet and the bus are
external.

**NativeAdapter.** One tick in the order of `runtime.rs`: fast socket, broker
result, mailbox scan, one operation. `box` is the command directory, `job` the semantic
command in progress with its stage, `naWire` the operation under way and who owns
it, `survey` the introspection, whose request stays on disk when the answer cannot
be parsed. Timers are flags. Of the relay commands the inputs have only "off".

**NativeReader.** `due`, `failures` and `reading` as in `reader.rs`; `seen` is the
availability of the PV sources; `measured` and `cached` are the measurements with
their ages. A missing deadline sorts first. The adapter's health enters as a free
choice of the read mode.

### Decisions

**PhaseSwitch.** The device is `relay` and `phases`; everything else is the
service's memory. Control writes are whole commands (`StagePhaseWrite`,
`DirectPhaseWrite`, `StartWrite`, `StopWrite`, `AutoWrite`, `ManualWrite`,
`ResetWrite`). The I/O worker takes the queued command, executes it, reads and
publishes, each a step that can fail (`WorkerTake` to `WorkerReadFails`); a
failing call may have been executed. The update cycle runs in three steps: it
resolves the status and the startup target (`CycleBegin`, or `CycleOffline`
without a status), advances the staged switch (`NoSwitch`, `WaitForRelay`,
`ApplyPending`, `ApplyFails`, `Stabilizing`, `MismatchReported`, `Complete`), and
decides on relay and phases (`Decide`); `view` holds its local variables between
the steps. `Restart` keeps what `state_restore.py` restores and loses commands
and readings.
`Serialized` tells the two command sources apart: the commands of the gateway
run in the executor, between cycles; those of the HTTP API run in the thread of
the request, at any step of a cycle. The model has the contactors that need a
pause (`phase_selection_requires_pause`); others are switched directly and have
no stages. Times are kept as what they are compared with: the pause is running
or elapsed, the settling time running, elapsed or past the verification
deadline, a reading usable or dropped. The freshness that a write asks for is
shorter than the budget of the cycle, so a write may or may not take a reading
the cycle still uses (`ConfirmedOutputs`). Auto's surplus is a free wish for a
neighbouring selection, its decision to charge a free choice while enabled.
Saving the state never fails here (`ControlWrite` and `RuntimeState` have that),
and a control write that raises is rolled back at once. `manualCut` (a phase
write cut the relay and nothing started it since), `stopped` and `locked` are
history variables of the properties.

**AutoDecision.** One action per cycle with chosen readings; the gates in their
order, then average, smoothing and thresholds. Delays are ages, with none for
"not running"; `held` (history) ages the causes of a decision themselves. The
learned thresholds are one factor.

**CycleHealth.** One cycle: which meter sample counts, the contactor heuristics
with their lockout, the charger transport and its retry window, current target,
relay command, and the status that is shown.

**EssBalance**, **LearnedPower**, **EnergyLearning**. The PID term is one
proportional step per tuning level; powers, scores and shares are small integers
with the rounding of the code. `NativeLearning` is the Rust port over the same
samples.

**ScheduledMode.** A function of the clock, compared with a reference that speaks
of intervals, over weeks, months and all windows of the configuration.

**ControlWrite.** `cell` is the set of service attributes that a command and the
cycle share; a command is snapshot, handler, saving, override write, publication,
and a failure restores the cell it found, unless something outside was done
already: `set_current` with a charger goes to the charger first and is then kept,
saved or not (`CurrentWrite`, `CwInFlight`). The cycle switches the charger, which
may refuse or raise before or after it has acted, or queues for the relay worker
(`Switched`); with either it does nothing while the order it queued before is still
expected (`Decided`), until that is read or its deadline has passed
(`Unexpected`). `unsaved` (history) says that a setting is in memory only, see
section 6. `MCProgress` gives the module fairness.

**RuntimeState.** `mem` and `doc`: what is in memory and in the file. A save
writes only when the serialized state changed; a restart takes back what the
topology and the clock allow.

**ChargerIo.** Each backend is the list of requests a write makes, any of which
may fail before or after the device acted. `crew` are the worker threads, the
last one current, earlier ones abandoned while a request of theirs is under way.

**ControlApi.** The steps of a request thread (guard, lookup, admit, execute,
answer) interleave; the store, its mirror file, rate windows, the event ring with
one following client, and the audit trail.

### Inputs

**AutoInput.** The snapshot file, the helper's polling and heartbeat threads, the
supervisor's cycle, stopping and replacement; an orphan of an earlier instance may
still write.

**EnergySources**, **NativeSources**. Polling one source per cycle with backoff,
the combination with the gateway's values, and the fail-over of the grid value.
Connectors are reduced to the number of attempts a read takes.

**NativeHelper.** Launch, lifecycle, loop, heartbeat, refresh requests; the values
come in as the views `NativeSources` can produce.

**CapacityEstimate.** Reading the configuration and writing it back are two steps,
between which the owner may edit it.

### Operations

**SoftwareUpdate.** The housekeeping turn: poll a running installer, then weekly
check, boot update, requested update.

**BootUpdater.** A run is a program counter over the file operations of the shell
functions; `Kill` at any of them. `releases`, `current`, `previous`, `lockDir`,
`installed` and `receipt` are the directories, links and files of those names;
`stolen` (history) says that a run removed the lock of one that was alive.

**ForensicObserver.** One iteration of the observer with mounts, leases, failing
writes and its death between two files of a bundle.

## 4. Runs

| run | module, configuration | checks | expected |
|---|---|---|---|
| `file_mailbox` | FileMailbox | `IInv`, `LoadIsSnapshot`, `OnlyOwnersRetire`, `UrgencyKept`, `AtomicSpec` | hold |
| `core_command_lane` | CoreCommandLane, MCCoreCommandLane.cfg | `IInv`, `NoRepeatedDispatch`, `LatestWriteKept`, `DeliverySpec`, `EventuallyHandled` | hold |
| `gateway` | MCGateway | `GatewayInv`, `ConfirmedHolds`, `ProtectiveCauseHolds`, `ReleasesIntact`, `RetiredOnlyWhenServed`, `GatewaySteps` | hold |
| `gx_relay_off_liveness` | GxRelayLane, MCGxRelayLane.cfg | `OffResolved` | holds |
| `publication_lanes` | PublicationLanes, MCPublicationLanes.cfg | `IInv`, `NewestKept`, `NeverRevived`, `RestartNeverRevives` | hold |
| `progress` | MCProgress | `ProgressInv`, `FallbackResolved`, `ReadsServed`, `HungReplaced`, `OffRestored` | hold |
| `phase_switch` | PhaseSwitch, MCPhaseSwitch.cfg | `TypeOK`, `StagedMovesOpen` | hold |
| `phase_switch_liveness` | PhaseSwitch, MCPhaseLive.cfg | `SwitchEnds`, `ChargingResumes` | hold |
| `adapters` | MCAdapters | `AdaptersInv`, `WaitingIsUnderWay`, `FreshIsAnswered`, `CommandLands` | hold |
| `service` | MCService | `ServiceInv`, `SetpointRemembered`, `AnsweredNotRunAgain`, `SwitchesEarned`, `GridReturnEarned` | hold |
| `generic_shelly_request` | GenericShelly, MCGenericShelly.cfg | `RequestTried` | violated |
| `phase_switch_load` | PhaseSwitch, MCPhaseLoad.cfg | `NeverUnderLoad` | violated |

The conjuncts of the bundle invariants, besides the type invariants:

- `GatewayInv`: `RelayInv`, the inductive invariant of the relay lane;
  `HealthFollows`, that of the gateway's health; `HoldEnds`, an estimated PV value
  is published only within the hold window after the first unanswered read;
  `UnfinishedIsActive`, a bundle without recovery record that the running observer
  wrote is that of its open episode; `RunningIsTrue`, the shown result reads
  "running" exactly while an installer runs or has not been polled.
  `GatewaySteps`: `RecoveryNeedsCalm`, `TripEarned`, `GenerationTellsTopology`,
  `PersistEarned`.
- `AdaptersInv`: `AliveIsRecent` (a value the snapshot shows was recent enough when
  its heartbeat was stamped: within what its source allows and the time to the
  source's next refresh), `OnePass` (an accepted snapshot holds parts of one uninterrupted read),
  `SocDated` (a SOC is not dated newer than a source it was averaged from, or than an
  observer of that source's battery that ranks equally).
- `ServiceInv`: `DelaysHeld`, `StableIsBacked`, `LockoutHolds`,
  `BoostIsTheNight`, `SettingReachesDisk`, `NothingLost`, `LearnedAmongThese`,
  `NoSourceStarves`, `LearnedWithinObserved`, `NativeHeadroomAgrees`,
  `AnswersKept`.
- `ProgressInv`: `HelperVouches` (the heartbeat that keeps a helper alive in the
  supervisor's eyes is its own).

### Bounds

- Two mailbox processes that lock are enough for every pairwise interference, and
  two files for a torn load; another one adds only a waiter. The third process of
  `file_mailbox` is an observer. The run has one payload: the urgency and the
  revisions tell commands apart, and that a rewrite in place may change the payload is
  left to the theorems, which have any set of values. Symmetry is used only here,
  where no liveness is checked.
- Three writes or commands allow "one handled, one replaced, one replacing";
  three publications allow one shown, one in a lane and one overtaking it; one
  crash separates two lives.
- `gx_relay_off_liveness` has two commands, one outstanding call and only the
  alternate target; `gateway` runs the same module with three commands and two
  outstanding calls.
- In `phase_switch` the write and Auto's change are enough for a phase write against
  a command of Auto that is being executed; combinations of several writes and
  restarts are left to the theorem.
- In `progress` the tick has two core reads, one of them an optional aggregate of two
  members, so that a forced key, an aggregate under way and a key in its turn meet;
  commands are an urgent one, a refresh, a deferred one and the registration. In
  `adapters` the gateway and the first source observe one battery with equal priority,
  the second source another one; unequal priorities are left to the theorem.
- Windows, holds and delays in the bundles are one to three ticks, the smallest at
  which "not yet", "just now" and "after" differ; sources, members, keys, request
  threads and batteries are two, so that one can fail, lag or be evicted while
  the other does not; updaters are two runs over two bundles, the fewest that
  allow a stale lock; a configured count (recovery samples, equal estimates) is
  three where "one too early" must differ from "at once".
- `MCGateway` stops following an updater whose lock was taken over while it was
  alive (`LockKept`), `MCAdapters` a backend whose command was crossed by a direct
  setting (`NotCrossed`): section 6 says what happens there.

Deadlock checking is off where the bounded number of requests can be used up; in
`file_mailbox` and the phase switch runs it is on.

### Fairness

- `CoreCommandLane`: the executor polls at least every 0.5 s and finishes its
  batch (weak fairness); retry delays elapse; the lock is not busy each time a
  retirement is tried (strong); reliable handlers do not fail each time
  (strong). Nothing is assumed of the other handlers.
- `GxRelayLane` (`SettledSpec`): the loop ticks, time passes, the services answer
  (weak); a call repeated without end is dispatched, answered in time and
  completed now and then, and a callback does not find the lock busy each time
  (strong). Nothing is assumed of targets that do not exist.
- `PublicationLanes`: the client's socket timeout bounds its wait, the gateway
  ticks (weak); the budget does not deny the same publication for ever (strong).
- `PhaseSwitch`: both loops run, the pause and the readings' age pass (weak).
  The worker takes a queued command, the device executes a switching call and
  answers a read again and again, a cycle finds a status, and the verification
  deadline is reached (strong): calls may fail, but not each time, as the
  backends retry without limit.
- `GatewayTick`: the timer fires and every operation ends (weak); the registration
  of the EVCS service is enqueued and accepted at some time (strong). `ReadsServed`
  is about a gateway at work (`AtWork`): urgent commands, which go before all reads,
  do not come without end, nor do refreshes, between which the helper leaves 30 s
  (`energy_gateway.py:78`). Of reads outside the core it says nothing.
- `AutoInput`: time passes, signals are delivered, an orphan's watchdog runs (weak);
  the cycle supervises, and a spawn tried again and again succeeds (strong).
  Nothing is assumed of the helper.
- `ControlWrite`: worker and executor keep running, a command once begun ends
  (weak); a cycle decides before it flushes, so that failing flushes cannot keep
  the decision from being taken (strong for the cycle, `CycleAdvances`): what it
  expects comes or is given up at its deadline, and a charger asked over and over
  obeys.
- `MCProgress` (`ProgressFairness`) assumes of a behaviour the fairness of the part
  it belongs to.

## 5. Proofs

All theorems are of the form `Spec => []P` or `Spec => [][A]_vars` (or a
refinement), for every value of the constants that satisfies the ASSUMEs of their
modules (types and ranges, evaluated by the runs that extend them) and what the
last column says, and are checked by `tlapm`. TLC checks most of the inductive
invariants as well.

| module | theorem | states | assuming |
|---|---|---|---|
| `FileMailbox_proofs` | `Invariance`, `SnapshotTheorem`, `OwnershipTheorem`, `UrgencyTheorem`, `Refinement` | `IInv`, `LoadIsSnapshot`, `OnlyOwnersRetire`, `UrgencyKept`, `AtomicSpec` | ranks and times are integers; the snapshot is that of a load under the lock |
| `CoreCommandLane_proofs` | `LaneInvariance`, `NoRepeatTheorem`, `LatestWriteTheorem`, `DeliveryTheorem` | `IInv`, `NoRepeatedDispatch`, `LatestWriteKept`, `DeliverySpec` | the clock is not set back (without this `LatestWriteKept` is false) |
| `MCProgress_proofs` | `LanesInvariance`, `NewestKeptTheorem`, `NeverRevivedTheorem` | `IInv`, `NewestKept`, `NeverRevived` | - |
| | `RestartTheorem` | `RestartNeverRevives` | - |
| | `NoReadForgotten` | `TickTypeOK` of GatewayTick | the reads are a finite set |
| | `OnlyItselfVouches` | `AiTypeOK`, `HelperVouches` of AutoInput | - |
| | `SettingsReachDisk`, `WritesAreTyped` | `SettingReachesDisk`, `CwTypeOK` of ControlWrite | accepted values are of their setting's kind |
| | `ProgressKeeps` | `ProgressInv` | as its parts |
| `PhaseSwitch_proofs` | `TypeCorrect` | `TypeOK` | the selections are a finite set |
| | `StagedMovesOpenHolds` | `StagedMovesOpen` | writes are serialised, or Auto is not used (otherwise the property is false) |
| `Gateway_proofs` | `RelayInvariant`, `RelayTypes`, `ConfirmedTakesEffect`, `RetiredWhenServed` | `RelayInv`, `TypeOK`, `ConfirmedHolds`, `RetiredOnlyWhenServed` of GxRelayLane | - |
| | `CausesAreTrue`, `RecoveryIsCalm` | `ProtectiveCauseHolds`, `RecoveryNeedsCalm` of GatewayHealth | - |
| | `ReleasesStayIntact` | `ReleasesIntact` of BootUpdater | as long as no run removed the lock of a living one (part of the property) |
| | `TripWasEarned` | `TripEarned` of NativeHealth | windows and limits are natural numbers |
| | `GenerationsTellTopology` | `GenerationTellsTopology` of PvSources | - |
| | `WrittenWasEarned` | `PersistEarned` of CapacityEstimate | - |
| | `OneBundlePerEpisode` | `UnfinishedIsActive` of ForensicObserver | - |
| | `UpdateTellsTheTruth` | `SwTypeOK`, `RunningIsTrue` of SoftwareUpdate | - |
| `Service_proofs` | `SwitchesAreEarned`, `DelaysAreHeld` | `SwitchesEarned`, `DelaysHeld` of AutoDecision | - |
| | `SetpointIsRemembered`, `BiasKeepsRanges` | `SetpointRemembered`, `EssTypeOK` of EssBalance | errors and setpoints are numbers, there is a tuning level |
| | `GridReturnIsEarned`, `SourcesTakeTurns`, `CountsStayInRange` | `GridReturnEarned`, `NoSourceStarves`, `EsTypeOK` of EnergySources | a read takes at least one attempt |
| | `AnswersAreKept`, `AnswersAreReplayed` | `AnswersKept`, `AnsweredNotRunAgain` of ControlApi | - |
| | `CommandsLand` | `CommandLands` of ChargerIo | configured currents are positive (`relay_charger_current_targets.py:60-66`) |
| | `LockoutsHold`, `FaultsAreCounted` | `LockoutHolds`, `ChTypeOK` of CycleHealth | - |
| | `StableWasTested`, `ProfileStaysWhole` | `StableIsBacked`, `LpTypeOK` of LearnedPower | measured powers are numbers |
| | `SavedStateComesBack` | `NothingLost`, `LearnedAmongThese` of RuntimeState | - |
| | `BoostIsNight` | `SmTypeOK`, `BoostIsTheNight` of ScheduledMode | windows lie within a day, days of the week are 0..6 |
| | `LearnedStaysWithin` | `LearnedWithinObserved` of EnergyLearning | measured powers are numbers |
| `MCGateway_proofs` | `StepsAreEarned` | `GatewaySteps` | - |
| | `GatewayKeeps` | `GatewayInv` | numbers and bounds are natural, storages positive, the PV sources a finite set |
| | `HoldIsBounded` | `PvTypeOK`, `HoldEnds` of PvSources | the PV sources are a finite set of numbers |
| | `HealthTypes` | `HealthTypeOK`, `HealthFollows` of GatewayHealth | - |
| `MCAdapters_proofs` | `WaitingIsAnswered` | `WaitingIsUnderWay` of NativeAdapter | - |
| | `FreshWasAnswered` | `FreshIsAnswered` of NativeReader | the cache limit is not 0, which switches the check off |
| | `AliveMeansRecent` | `HpTypeOK`, `AliveIsRecent` of NativeHelper | what the energy sources hand over is within its limit (`HpInputs`) |
| | `SourcesKeep` | `NsTypeOK`, `OnePass`, `SocDated` of NativeSources | sources have different ids, as `config.rs:182-190` requires |
| | `IoIsTyped` | `IoTypeOK` of ChargerIo | configured currents are positive |
| | `AdaptersKeep` | `AdaptersInv` | as its parts |

The arguments, and why each property needs more than itself:

- *FileMailbox.* Mutual exclusion alone does not give atomicity: `LockedInv` adds
  that what the lock holder has read is still in the directory
  (`ReadsAreCurrent`), that operations are well formed, and that a drawn
  revision is nowhere else (`RevisionsFresh`), which makes `OnlyOwnersRetire`
  follow. `UrgencyKept` also concerns a process that rewrites in place a
  generation it loaded long ago: `RanksFixed` says that all copies of a generation
  carry one priority and that its revision was drawn, so the rewrite keeps the
  rank. An observer writes nothing and never holds the lock, so that nothing the
  invariant says of a holder is about it. For the refinement every step but `WriteFile` leaves the files alone, and
  `WriteFile` is the abstract operation on the file as it is.
- *CoreCommandLane.* `LatestWriteKept` needs to know that what was loaded is the
  file or an older generation (`Inherited`); `NoRepeatedDispatch` that a handled
  generation still stored or loaded is being retired or marked retire-only
  (`Once`); `Latest` uses that creation times do not decrease.
- *GxRelayLane.* "Confirmed" is a claim about a contact that late calls can still
  move. `RelayInv` says that the call in flight is the last one written to the
  wire, that generations are ordered there, that file, tick snapshot and flight
  agree on the progress of a generation, that a verified command was written, and
  that nothing older than a confirmed command is under way; timeouts, refusals,
  lost callbacks and a restart all keep this.
- *PublicationLanes.* The invariant speaks of one field at a time: a queued
  value and a fast mark are one reservation newer than anything shown
  (`Reserved`); whatever can still arrive over socket, client or file is newer
  than what is shown, or blocked by a mark, or expired (`Covered`); what is owed is
  queued or stored (`Kept`). The journal gives the same protection after a restart
  (`JournalOK`), field by field and through every compaction, for what it still
  guards: its mark is that of the last value checkpointed, or there is none and
  the field is unguarded.
- *PhaseSwitch.* That the queue is empty and a reading says "off" does not by
  itself mean that the relay is open. `CutOpen` says what is true after a phase
  write that cut the relay: the order waits; or the relay is open and nothing
  that closes it is queued or being executed; or a restart lost the order, and
  then no reading left anywhere says "off". `CutHeld` keeps Auto's decision from
  replacing the order, and `ManualOnly` covers writes in the middle of a cycle.
- *GatewayHealth.* The evidence that is shown outlives the measurement. The
  invariant ties it to the episode: causes recorded since the latch became
  constrained, and an age of recovery that is never larger than the time that has
  really been calm.
- *BootUpdater.* Under a lock that was not taken over only one run works; the
  name it chose is free until a whole tree is moved there in one step, and names
  it made belong to it alone, so neither a kill between two links nor a second run
  can leave a link at a partial or mixed tree.
- *NativeHealth.* The breaker prunes its list while it records into it; the
  invariant equates its counters with the independent history inside the window,
  and keeps the trigger's deadline and count with the state they explain.
- *PvSources.* A generation is compared instead of the content. The invariant says
  that a topology whose generation is current, and cached evidence whose key still
  matches, were computed from what the tracker still knows; an observation that is
  recorded again without change is alike for every later decision, and a new one
  always counts as a change.
- *CapacityEstimate.* As many of the last estimates as the counter says equal the
  candidate; a restart and a failed write reset or keep both together.
- *NativeReader.* The age since every member of an aggregate answered is at most
  the age shown and the age confirmed, also for values that are held.
  Its types need the size of the PV tables (`SeenTyped`) and of a delay
  (`LongestDelay`): five intervals or the failure cap.
- *NativeAdapter.* "Waiting" holds exactly while the wire is owned by that
  operation, and a job is at a stage its kind knows.
- *NativeHelper.* `AliveIsRecent` speaks of the file, which is written from a payload
  and by a loop that refreshes one source at a time. `KeptUntilDue` says of the
  payload that an age and the ticks left until that source's next refresh (`Left`,
  which counts the poll it must wait for) stay below what the source may last; a
  heartbeat then puts into the file what is `Young`, and from there the values age
  with the heartbeat. That a source is due before its value is too old depends on
  every deadline being at most its interval ahead (`SomeTimers`), also after the
  first refresh and a death.
- *NativeSources.* `ReadOk`: the parts a connector holds are of one pass and fewer
  than it needs, so the part that completes a reading was read in the same pass.
  `SocDated` compares two choices that are made by different rules: of two observers
  of one battery the average takes the best before it looks whether it has a SOC, the
  date the best of those that have one. Both go by priority and then by confidence,
  and differ only between equals, where the average takes the last id and the date
  the first of the list; so an averaged source, or one that ties with it, is among
  the dating ones (`AveragedAreDated`), whatever the priorities.
- *ForensicObserver.* An unfinished bundle is the open episode's only while bundles
  and process agree on the incarnation: the invariant adds that no bundle is of a
  later incarnation, that a process that ended has no episode, and that every
  recovery record carries its date.
- *SoftwareUpdate.* A finished installer is polled before the triggers are looked
  at, so "running" is written and cleared in the call that starts or polls it; the
  theorem carries the shape of the whole picture along, since every later step of a
  call edits it.
- *AutoDecision.* The age of a running delay is never older than its cause, the
  cause being aged by the history independently of the code's resets.
- *EssBalance.* `SetpointRemembered` is inductive as it stands: every path that
  writes, fails to write, suspends or restores moves the remembered and the
  written setpoint together.
- *EnergySources.* `RecoveryCounted`: the count of good readings towards the return
  is never larger than the run of sound readings. For `NoSourceStarves` the number
  of times a source was passed over is bounded by its distance behind the cursor
  (`TurnsKept`): the attempted source is the closest due one, the cursor moves up to
  it, and every source it passed comes closer by at least one.
- *ControlApi.* An answered key is in the store and in the mirror until evicted or
  lost by a fault; a call that arrived later is still before its lookup; sorting
  the mirror by rank on reload keeps the set of keys.
- *ChargerIo.* While no two commands crossed, the abandoned worker does not write,
  the pending command is the one asked for last, and the relays the worker has
  already passed stand where the command wants them. The types need no such
  condition; they add what a worker about to store has read (`WorkerOk`).

- *CycleHealth.* Inductive as it stands: a cycle that finds or sets the lockout has a
  health to report, and with a health nothing is wanted on, so nothing is sent on.
  The types (`HealthInv`) add that the active fault has been counted, from which a
  fault that locks out has; the proof showed that an episode must be counted even when
  no count locks out (`LatchCount` 0), as the code does.
- *LearnedPower.* `LearningInv` adds that an unknown profile has no value: a profile
  then becomes stable only from a stable one or by passing the test. `WellFormed` adds
  that whatever is known has its time and phase; an estimate with a value is
  never without one, because both are stored in every update of the value.
- *ScheduledMode.* A function of the clock, so the proof is about the algorithm: days
  counted on from the first of a range, modulo the week, are the days between its
  ends (`RangeIsBetween`, `SelectedDays`), and of the two nights a moment could
  belong to, the window's end rules out the one that is not the target day's.
- *EnergyLearning.* `Within` adds that what has an average has an extreme. A mean of
  `count` values up to the extreme and one more candidate stays below the extreme
  that takes in the same candidate (`MeanBounded`, `AverageBelow`), for any counts.
- *ControlWrite.* Between a command and its answer the setting may be in the cell
  only. `SettingFollows` says at each step of a transaction whether the cell or what
  the transaction found before is what staging and disk hold, and that an unfinished
  flush carries what is still staged, unless `unsaved`; the next saved command
  re-establishes all of it.
- *GatewayTick.* Every read key waits or is due, in its turn or ahead of it
  (`DueOk`). The queue names a key at most once, only keys whose wait is over, and
  none of those in front; what becomes due is appended in the order of the
  configuration, which exists because the reads are a finite set of numbers, and
  taking the forced keys out of the queue keeps the order of the others. A key stays
  due while it is read, so it may be forced meanwhile and its answer then ends both.
- *AutoInput.* `HelperVouches` needs only the shape of the supervisor's record: a
  sign of life is taken from a heartbeat of the helper started last, and a start
  takes every mark back.
- *RuntimeState.* The saved record is compared through what it would bring back: the
  record on disk was built from some earlier state at some place and time, a restored
  state does not depend on the clock in what must last, and building and restoring
  under one configuration is the identity on it.
- *MCGateway.* In the bundle one component moves and the others stand still, so each
  sees a behaviour of its own specification and what is proved of it holds there.
  `GatewayKeeps` adds what the components had left to TLC. For `HoldEnds` that is
  `RoundHeld`: the history of the first unanswered read and the start of a hold agree
  for every source that has a sample; the sources of the round under way were all
  asked in it, once each, and none of them has a running hold, so that adding the
  estimates repeats no source. The tracker stays within its capacity because the
  source to be given up exists: the order by activity, age and name has a least
  element, which is obtained from the well-foundedness of the natural numbers.
- *MCAdapters.* All five programs start in a first state and a step of the bundle is a
  step of one and a stutter of the others, so all five invariants hold together
  (`AdaptersKept`), whichever program the behaviour is about.

Only model-checked:

- liveness (`EventuallyHandled`, `OffResolved`, `FallbackResolved`, `ReadsServed`,
  `HungReplaced`, `OffRestored`, `SwitchEnds`, `ChargingResumes`), which needs
  fairness and ENABLED, both outside the prover's reach;
- `NativeHeadroomAgrees`, which needs induction over the sums it compares, and the
  types of AutoDecision and ControlApi (bounds on the lengths of filtered
  sequences) and of RuntimeState: the conjuncts of `ServiceInv` that no theorem
  above names;
- what recursive computations return for every input (sorting, smoothing,
  averages): induction over data is out of reach; the proofs use only what their
  definitions say of membership, and bounds on lengths that rest on `SelectSeq`
  are left to TLC.

## 6. What the models show about the code

### The two runs that expect a violation

- *Load* (`phase_switch_load`). A start during a staged switch is executed and
  leaves the queue empty; until the next reading the cycle trusts the confirmed
  "off" from before, and with the pause over it moves the contactors under load
  (`update/pm_snapshot.py:93`, `update/relay_phase_switch_runtime.py:139`), against
  `relay_phase_switch_policy.py:21` "Phase changes never bypass an active
  pause/staging requirement."
- *Generic Shelly* (`generic_shelly_request`). The parser of the configuration
  command accepts only the fields of `ipc/generic_shelly_configuration.py:35-38`,
  which lack the `mailbox_revision` that `ipc/command_mailbox.py:156` always adds,
  and requires the queue class "remote-write" where `dbus_gateway_policy.py:23`
  assigns "configuration": the gateway drops every such request, which
  `deploy/venus/config.venus_evcharger.default.ini:853` says the helper will carry
  out. Were it accepted, an identity that cannot be read would be retried at the
  same place for ever, and an address may move between identification and
  disabling.

### Further disagreements, each with its definition in a module

These are stated in the modules and fail when checked with TLC; they are not
among the runs.

| property | code | what a document or comment says |
|---|---|---|
| `OffResolved` with `Existing = {0}` | `dbus_adapter/write/semantic.py:198`: the fallback never returns to target 0, so after one transient error a relay that serves only the primary path waits for ever | - |
| `StopHolds` | `update/relay_phase_switch_runtime_recovery.py:146`: whether to close the relay afterwards is remembered at staging; a later stop does not change it | `controllers/write.py:160` |
| `LearnedForThisSource` | `controllers/state_restore_victron_ess.py:22-42` | `STATE_API.md:396-398` |
| `NewerWorkKept` | `rust/dbus-adapter/src/runtime/storage.rs:234`, `mailbox.rs:64` | `DBUS_GATEWAY.md:281-283` |
| `PressureKeepsCurrent`, `OneUpdater` | `bootstrap_updater.d/20_layout.sh:33`, `00_core.sh:177-191`: items skipped under storage pressure; the stale-lock check and the pid file leave a window for two runs | `UPDATE_FLOW.md:180-184` |
| `KeyRunsOnce` | `control/http_api_commands.py:114`: overlapping requests with one key both run | `CONTROL_API.md:375` |
| `StableTuningLearned` | `update/victron_ess_balance_apply.py:167` | `config.venus_evcharger.default.ini:838` |
| `NativeForecastAgrees` | `rust/auto-input-helper/src/learning.rs:275`, `115` (UTC hours), `forecast.rs:32` against `energy/learning_update.py:459`, `learning.py:38` (local hours) | - |

### Limits of the properties that hold

Outside these conditions TLC finds counterexamples when the constants of a run
are changed; they are limits of the code, not of the models.

- *Clock* (`LatestWriteKept`, `ClockMaySet = TRUE`). `should_replace_command`
  trusts wall-clock time: after the clock was set back a newer write to a still
  pending target is discarded although the gateway accepted it.
- *Marks across restarts* (`RestartNeverRevives`). `_state_payload`
  (`ipc/publication_order_state.py:144`) compacts the durable marks only. A field
  that a queued newer value has reserved carries a fast mark at that time, so the
  durable mark it had is gone from the disk; after a crash an older fallback of the
  field, up to 30 s old, is applied. `DBUS_GATEWAY.md:113-118` says that the "protective
  high-water mark always outlives the fallback it guards", `publication_order.py:90`
  "across gateway process restarts". The property therefore compares with what is still
  guarded; compared with everything that was ever checkpointed it fails.
- *Observers* (`LoadIsSnapshot`). "They may still inspect atomically written command
  files safely" (`command_mailbox.py:186`) holds of each file; the list an observer gets
  may contain a command together with one that was enqueued after the first was
  removed or replaced.
- *Settings in memory* (`SettingReachesDisk`). Two commands leave a setting in memory
  with nothing staged until the next saved command: one whose overrides another
  thread saved while a flush was under way
  (`controllers/state_runtime_overrides.py:194-216`), and a `set_current` that the
  charger had taken when saving the state raised
  (`controllers/write.py:339-371`): it is kept, reported as accepted in flight, and
  the overrides are not saved.
- *Equal priorities* (`SocDated`). Between observers of one battery with equal priority
  and confidence the average takes the last id (`energy.rs:631-657`), the date the first
  of the list (`external.rs:704-739`), so a SOC can be dated newer than the reading it
  was averaged from. `deploy/venus/config.venus_evcharger.default.ini:652-654` says that
  "equal values use confidence and then a stable source ID".
- *Lockout scope* (`LockoutScoped`, which no run checks; `Selections = {1, 2, 3}` and three changes, or
  two selections and four phase writes). The lockout and the last mismatch are
  single slots: a failed step to another selection overwrites both while the first
  lockout still runs, and the success of that other step then clears the slot, so
  that Auto raises to the first one again. The policy says "Lockout state is scoped
  to the normalized phase target that caused it" (`relay_phase_switch_policy.py:23`).
- *HTTP and Auto* (`StagedMovesOpen`, `Serialized = FALSE`, `AutoFirst = TRUE`).
  The HTTP thread stages a switch after the cycle's orchestration; the cycle's
  decision then replaces the queued "off" by "on", and the reading from before
  lets the contactors move under load. `async_mainloop_executor.py:42` says
  "Serialize gateway commands, control commands, and update cycles."
- *Mark release.* The reservation of the fast publication lane overwrites the
  durable mark in memory and its expiry deletes it, although
  `fast_publication.py:10` says that it cannot. By then the fallback it guarded
  is past its own deadline, so nothing is revived (`NeverRevived` holds).

### Observations

Behaviours that the models contain and that contradict no document, for whoever
changes this code:

- *Scheduler.* Urgent commands that use every free tick starve reads; discovery is
  put off 60 s at each regulated tick under pressure.
- *Gateway health.* The resource latch stays busy while any metric is unknown; the
  recovery hold restarts whenever the wanted state flaps.
- *Auto decision.* Alternating stop reasons restart the stop delay; a missing
  battery SOC keeps the relay on indefinitely; with the night lock a missing PV
  value stops in daytime as "night-lock" (`auto/logic_gates_runtime.py:385` tests
  OR, `logic_decisions.py:104` AND); a lost start consumes the cutover's exemption
  from the minimum off time.
- *ESS balance.* A restart while biased forgets the last setpoint, so the base is
  not restored; a lowered maximum takes effect only at the ramp rate.
- *Learned charge power.* A signature mismatch counted by the refresh is reset by
  the reconciliation of the same cycle; learning can span two sessions.
- *Charger health.* `_record_relay_sync_timeout` sets `failure_reported`, which is
  reset at once (`update/relay_phase_publish.py:225-243`); an off command is refused
  while a transport retry is active (`relay_charger_current.py:135-146`); a manual
  start is sent although locked out, until the next cycle.
- *Scheduled mode.* Month windows whose start is not before their end never open;
  the boost then runs from midnight only.
- *State file.* After the clock stepped back over a restart, time stamps of the
  future are dropped in memory but stay in the file, and with them the minimum off
  time.
- *Software update.* A request, or a due boot update, that arrives while an
  installer runs is dropped.
- *Inputs.* The heartbeat thread keeps a blocked helper looking alive; an orphan's
  snapshot is accepted; a failed start has no cooldown. Reads of several attempts
  carry the time of the last; recovery samples count calls, not readings.
- *Chargers.* A replaced worker may still write; a current set directly is
  overtaken by an older queued command; a group write that fails halfway leaves a
  partial set closed.
- *Control API.* The replay check comes after the If-Match guard; guard and
  execution are not atomic; a critical cooldown starts also when the command fails;
  event numbers start again after a restart.
- *Control writes.* A charger write that raises after the device acted is rolled
  back; a direct phase write leaves a staged selection; a full queue drops a target
  and reports success; the flush is skipped when a cycle raises.
- *Boot updater.* A kill during a direct promotion leaves a mixed target with the
  old hash, which the next run takes for current; `ln -sfn` is not atomic.
- *Forensic observer.* An episode whose storage was replaced stays open; a death
  while a recovery record is written protects the bundle from pruning; any write
  error ends the process.
- *Native adapter.* A publication for an unregistered companion blocks those behind
  it; a failing command that is restarted first every 2 s starves others; a read
  error at verification counts as applied. A PV cycle under way when the mode
  becomes protective blocks the core reads (`reader.rs:130`).
- *Native helper.* The retry gap starts although the request was not enqueued; an
  error of the first write ends the process.
- *Capacity estimate.* Reading and writing back loses an edit made in between; it
  gives up after three failed writes.

## 7. Not modelled

The setup wizard, inventory and diagnostics (one interactive process, no state
that outlives a run besides the file it writes), and the architecture and
release scripts. Within modelled components: device protocols and HTTP parsing,
the wire format of DBus values, the quarantine of undecodable command files, the
end of the native broker's worker thread (`rust/dbus-adapter/src/broker.rs:92`), and
all texts and counters that only diagnostics show. Component by component this is
in the notes of `PROJECT.json`.
