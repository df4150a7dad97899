----------------------------- MODULE PhaseSwitch ----------------------------
(***************************************************************************)
(* Changing the number of phases a car is charged on.                      *)
(*                                                                         *)
(* Contactors that need a pause may only move while the charging relay is  *)
(* open.  A change is therefore staged: wait for the relay to open and for *)
(* the pause, move the contactors, let them settle, compare with what the  *)
(* backend reports, and close the relay again.  Three threads take part:   *)
(*                                                                         *)
(*   - control writes (phase selection, start, stop, mode) change the      *)
(*     service's state and queue relay commands;                           *)
(*   - the I/O worker executes the one queued relay command, reads the     *)
(*     device and publishes what it read as a confirmed snapshot;          *)
(*   - the update cycle takes the snapshot, or a recent confirmed reading  *)
(*     when there is none, advances the staged switch, decides on the      *)
(*     relay and, in Auto, on the next phase selection.                    *)
(*                                                                         *)
(* The device is external: a call may fail, a contactor may not follow.    *)
(* Times are kept as what the code compares them with: a pause or a        *)
(* settling time is running or elapsed, a reading is usable or dropped.    *)
(***************************************************************************)
EXTENDS Integers, FiniteSets

CONSTANTS
    Selections,      \* the supported selections, by their number of phases
    Writes,          \* the control writes of this instance
    Serialized,      \* whether every write comes through the runtime executor
    AutoFirst,       \* whether the service starts in Auto
    LockoutCount,    \* mismatch_lockout_count
    MaxWrites,       \* bound: control writes
    MaxSwitches,     \* bound: changes that Auto begins
    MaxCrashes       \* bound: restarts of the service

AllWrites == {"phase", "start", "stop", "auto", "manual", "reset"}

ASSUME PhaseAssumption ==
    /\ Selections \subseteq Nat \ {0} /\ Selections # {} /\ IsFiniteSet(Selections)
    /\ Writes \subseteq AllWrites /\ Serialized \in BOOLEAN /\ AutoFirst \in BOOLEAN
    /\ LockoutCount \in Nat \ {0}
    /\ MaxWrites \in Nat /\ MaxSwitches \in Nat /\ MaxCrashes \in Nat

Outputs == {"on", "off"}
Commands == Outputs \cup {"none"}
NoSelection == 0
Optional == Selections \cup {NoSelection}
Reading == [relay : Outputs, phases : Selections]
NoReading == [relay |-> "none", phases |-> NoSelection]

(* What the update cycle goes by: "confirmed" is pm_confirmed, "read" whether *)
(* the status it started from was a reading, "hold" the override that keeps   *)
(* the relay off.                                                             *)
Views == [relay : Outputs, phases : Selections, confirmed : BOOLEAN,
          read : BOOLEAN, auto : BOOLEAN, hold : BOOLEAN]
NoView == [relay |-> "none", phases |-> NoSelection, confirmed |-> FALSE,
           read |-> FALSE, auto |-> FALSE, hold |-> FALSE]

VARIABLES
    relay, phases,       \* the device: the charging relay, the phase contactors
    pending, expected,   \* _pending_relay_state, _relay_sync_expected_state
    worker, command,     \* the worker's step, the command it is executing
    sample, snapshot,    \* its reading, the snapshot it published
    cached,              \* _last_confirmed_pm_status
    cycle, view,         \* the update cycle's step, what it goes by
    startup,             \* _startup_manual_target
    auto, enable, startstop,      \* virtual_mode, virtual_enable, virtual_startstop
    requested, active,   \* requested_phase_selection, active_phase_selection
    state, target,       \* _phase_switch_state, _phase_switch_pending_selection
    timer, resume,       \* its pause or settling time, _phase_switch_resume_relay
    counts, last, lockout,        \* mismatches, the one to retry, the one locked out
    candidate, ripe,     \* _auto_phase_target_candidate, its delay is over
    writes, switches, crashes,
    manualCut, stopped, locked     \* history, see the properties

device == <<relay, phases>>
commands == <<pending, expected>>
io == <<worker, command, sample>>
mode == <<auto, enable, startstop>>
selection == <<requested, active>>
staged == <<state, target, timer, resume>>
mismatch == <<counts, last, lockout>>
wish == <<candidate, ripe>>
bounds == <<writes, switches, crashes>>
history == <<manualCut, stopped, locked>>
vars == <<device, commands, io, snapshot, cached, cycle, view, startup, mode,
          selection, staged, mismatch, wish, bounds, history>>

TypeIO ==
    /\ relay \in Outputs /\ phases \in Selections
    /\ pending \in Commands /\ expected \in Commands /\ startup \in Commands
    /\ worker \in {"idle", "switching", "reading", "read"} /\ command \in Commands
    /\ (worker = "switching" <=> command # "none")
    /\ sample \in Reading \cup {NoReading} /\ snapshot \in Reading \cup {NoReading}
    /\ cached \in Reading \cup {NoReading}

TypeCycle ==
    /\ cycle \in {"idle", "orchestrate", "decide"} /\ view \in Views \cup {NoView}
    /\ (cycle = "idle" <=> view = NoView)

TypeSwitch ==
    /\ requested \in Selections /\ active \in Selections
    /\ state \in {"idle", "waiting", "stabilizing"} /\ target \in Optional
    /\ (state = "idle" <=> target = NoSelection)
    /\ timer \in {"running", "elapsed", "expired"}
    /\ counts \in [Selections -> Nat] /\ last \in Optional /\ lockout \in Optional
    /\ candidate \in Optional /\ locked \subseteq Selections

TypeBounds ==
    /\ writes \in 0 .. MaxWrites /\ switches \in 0 .. MaxSwitches
    /\ crashes \in 0 .. MaxCrashes

TypeFlags ==
    /\ auto \in BOOLEAN /\ enable \in BOOLEAN /\ startstop \in BOOLEAN
    /\ resume \in BOOLEAN /\ ripe \in BOOLEAN
    /\ manualCut \in BOOLEAN /\ stopped \in BOOLEAN

(* Every variable has its type, the worker holds a command exactly while it *)
(* is switching, the cycle a view exactly while it runs, and a switch is    *)
(* staged exactly while it has a target.                                    *)
TypeOK == TypeIO /\ TypeCycle /\ TypeSwitch /\ TypeBounds /\ TypeFlags

Init ==
    /\ relay = "on" /\ phases \in Selections
    /\ pending = "none" /\ expected = "none"
    /\ worker = "idle" /\ command = "none"
    /\ sample = NoReading /\ snapshot = NoReading /\ cached = NoReading
    /\ cycle = "idle" /\ view = NoView /\ startup = "none"
    /\ auto = AutoFirst /\ enable = TRUE /\ startstop = TRUE
    /\ requested = phases /\ active = phases
    /\ state = "idle" /\ target = NoSelection /\ timer = "running" /\ resume = FALSE
    /\ counts = [s \in Selections |-> 0] /\ last = NoSelection /\ lockout = NoSelection
    /\ candidate = NoSelection /\ ripe = FALSE
    /\ writes = 0 /\ switches = 0 /\ crashes = 0
    /\ manualCut = FALSE /\ stopped = FALSE /\ locked = {}

-----------------------------------------------------------------------------
(* queue_relay_command: one slot, the newest command replaces the waiting one. *)
Queue(c) == pending' = c /\ expected' = c

(* publish_local_pm_status: a placeholder that no reader takes for a reading. *)
Placeholder == snapshot' = NoReading

(* _stage_phase_switch, _queue_phase_switch_state *)
Stage(s, again) ==
    /\ requested' = s /\ target' = s /\ state' = "waiting" /\ timer' = "running"
    /\ resume' = again

(* handle_control_command: one whole command.  The runtime executor runs the *)
(* commands of the gateway between update cycles; a request of the HTTP API  *)
(* is handled in a thread of its own, at any step of a cycle.                *)
Write(w) ==
    /\ w \in Writes /\ (Serialized => cycle = "idle")
    /\ writes < MaxWrites /\ writes' = writes + 1

(* What a fresh confirmed sample says, or that there is none: the snapshot's *)
(* or the last confirmed reading, whichever is still young enough.           *)
ConfirmedOutputs ==
    {"none", cached.relay, IF snapshot = NoReading THEN cached.relay ELSE snapshot.relay}

(* relay_may_be_on_for_cutover *)
MayBeOn(known) == pending = "on" \/ known # "off"

(* set_phase_selection: the contactors follow the command, or do not. *)
Move(s) == phases' \in {s, phases}
-----------------------------------------------------------------------------
(* _handle_phase_selection_write: staged while the relay may be on ... *)
StagePhaseWrite(s) ==
    /\ Write("phase") /\ \E known \in ConfirmedOutputs : MayBeOn(known)
    /\ Stage(s, TRUE) /\ Queue("off") /\ Placeholder
    /\ manualCut' = TRUE
    /\ UNCHANGED <<device, io, cached, cycle, view, startup, mode, active, mismatch,
                   wish, switches, crashes, stopped, locked>>

(* ... and applied at once when the relay is confirmed off; a call that   *)
(* raises is rolled back, though the contactors may have moved.           *)
DirectPhaseWrite(s) ==
    /\ Write("phase") /\ \E known \in ConfirmedOutputs : ~MayBeOn(known)
    /\ Move(s)
    /\ \/ requested' = s /\ active' = s
       \/ UNCHANGED selection
    /\ UNCHANGED <<relay, commands, io, snapshot, cached, cycle, view, startup, mode,
                   staged, mismatch, wish, switches, crashes, history>>

(* _apply_manual_enable_like_request, and in Auto _apply_auto_disable. *)
StopWrite ==
    /\ Write("stop")
    /\ Queue("off") /\ Placeholder
    /\ enable' = FALSE /\ startstop' = FALSE
    /\ stopped' = TRUE
    /\ UNCHANGED <<device, io, cached, cycle, view, startup, auto, selection, staged,
                   mismatch, wish, switches, crashes, manualCut, locked>>

(* In Manual a start is a relay command, in Auto a permission. *)
StartWrite ==
    /\ Write("start")
    /\ enable' = TRUE
    /\ IF auto
         THEN UNCHANGED <<commands, snapshot, startstop, manualCut>>
         ELSE Queue("on") /\ Placeholder /\ startstop' = TRUE /\ manualCut' = FALSE
    /\ stopped' = FALSE
    /\ UNCHANGED <<device, io, cached, cycle, view, startup, auto, selection, staged,
                   mismatch, wish, switches, crashes, locked>>

(* _handle_mode_transition_to_auto: a relay that may be on is opened first. *)
AutoWrite ==
    /\ Write("auto") /\ ~auto /\ auto' = TRUE
    /\ \E known \in ConfirmedOutputs :
          IF MayBeOn(known)
            THEN Queue("off") /\ Placeholder /\ enable' = TRUE /\ startstop' = FALSE
            ELSE UNCHANGED <<commands, snapshot, enable, startstop>>
    /\ stopped' = FALSE
    /\ UNCHANGED <<device, io, cached, cycle, view, startup, selection, staged,
                   mismatch, wish, switches, crashes, manualCut, locked>>

(* _handle_mode_transition_to_manual: the permission becomes the relay target. *)
ManualWrite ==
    /\ Write("manual") /\ auto /\ auto' = FALSE
    /\ IF startstop = enable
         THEN UNCHANGED <<commands, snapshot, startstop, manualCut>>
         ELSE /\ Queue(IF enable THEN "on" ELSE "off") /\ Placeholder
              /\ startstop' = enable /\ manualCut' = (manualCut /\ ~enable)
    /\ stopped' = (stopped /\ ~enable)
    /\ UNCHANGED <<device, io, cached, cycle, view, startup, enable, selection, staged,
                   mismatch, wish, switches, crashes, locked>>

(* _clear_phase_lockout_state *)
ResetWrite ==
    /\ Write("reset")
    /\ counts' = [s \in Selections |-> 0] /\ last' = NoSelection /\ lockout' = NoSelection
    /\ locked' = {}
    /\ UNCHANGED <<device, commands, io, snapshot, cached, cycle, view, startup, mode,
                   selection, staged, wish, switches, crashes, manualCut, stopped>>

ControlWrite ==
    \/ \E s \in Selections : StagePhaseWrite(s) \/ DirectPhaseWrite(s)
    \/ StopWrite \/ StartWrite \/ AutoWrite \/ ManualWrite \/ ResetWrite
-----------------------------------------------------------------------------
(* io_worker_once: the queued command first, then a reading. *)
WorkerTake ==
    /\ worker = "idle" /\ pending # "none"
    /\ worker' = "switching" /\ command' = pending
    /\ UNCHANGED <<device, commands, sample, snapshot, cached, cycle, view, startup,
                   mode, selection, staged, mismatch, wish, bounds, history>>

(* Mutated ClearPending: whatever waits is taken for the executed command. *)
Mutant_ClearPendingAlways == pending' = "none"

(* clear_pending_relay_command keeps a command that was queued meanwhile. *)
ClearPending == pending' = IF pending = command THEN "none" ELSE pending

WorkerSwitch ==
    /\ worker = "switching" /\ worker' = "reading" /\ command' = "none"
    /\ relay' = command /\ ClearPending /\ Placeholder
    /\ UNCHANGED <<phases, expected, sample, cached, cycle, view, startup, mode,
                   selection, staged, mismatch, wish, bounds, history>>

(* The switching call raised: it was refused, or executed and the answer lost. *)
WorkerSwitchFails ==
    /\ worker = "switching" /\ worker' = "reading" /\ command' = "none"
    /\ relay' \in {relay, command}
    /\ UNCHANGED <<phases, commands, sample, snapshot, cached, cycle, view, startup,
                   mode, selection, staged, mismatch, wish, bounds, history>>

(* No command, or one that waits for its retry time. *)
WorkerSkip ==
    /\ worker = "idle" /\ worker' = "reading"
    /\ UNCHANGED <<device, commands, command, sample, snapshot, cached, cycle, view, startup,
                   mode, selection, staged, mismatch, wish, bounds, history>>

(* read_pm_status; the reading also becomes the active selection. *)
WorkerRead ==
    /\ worker = "reading" /\ worker' = "read"
    /\ sample' = [relay |-> relay, phases |-> phases] /\ active' = phases
    /\ UNCHANGED <<device, commands, command, snapshot, cached, cycle, view, startup,
                   mode, requested, staged, mismatch, wish, bounds, history>>

WorkerPublish ==
    /\ worker = "read" /\ worker' = "idle" /\ snapshot' = sample /\ sample' = NoReading
    /\ UNCHANGED <<device, commands, command, cached, cycle, view, startup, mode,
                   selection, staged, mismatch, wish, bounds, history>>

WorkerReadFails ==
    /\ worker = "reading" /\ worker' = "idle" /\ Placeholder
    /\ UNCHANGED <<device, commands, command, sample, cached, cycle, view, startup, mode,
                   selection, staged, mismatch, wish, bounds, history>>

Worker ==
    \/ WorkerTake \/ WorkerSwitch \/ WorkerSwitchFails \/ WorkerSkip
    \/ WorkerRead \/ WorkerPublish \/ WorkerReadFails
-----------------------------------------------------------------------------
(* resolve_pm_status_for_update: the confirmed snapshot, else the last *)
(* confirmed reading while it is inside the soft-fail budget.          *)
Status == IF snapshot = NoReading THEN cached ELSE snapshot

Seen(r, confirmed) ==
    [relay |-> r, phases |-> Status.phases, confirmed |-> confirmed, read |-> confirmed,
     auto |-> auto, hold |-> FALSE]

(* publish_offline_update: without a status the charger is shown as stopped. *)
CycleOffline ==
    /\ cycle = "idle" /\ Status = NoReading /\ startstop' = FALSE
    /\ UNCHANGED <<device, commands, io, snapshot, cached, cycle, view, startup, auto,
                   enable, selection, staged, mismatch, wish, bounds, history>>

(* apply_startup_manual_target: after a restart in Manual, restore the relay. *)
CycleBegin ==
    /\ cycle = "idle" /\ cycle' = "orchestrate"
    /\ Status # NoReading /\ cached' = Status
    /\ IF auto \/ startup \in {"none", Status.relay}
         THEN /\ view' = Seen(Status.relay, TRUE)
              /\ startup' = IF auto THEN startup ELSE "none"
              /\ UNCHANGED <<commands, snapshot, manualCut>>
         ELSE /\ view' = Seen(startup, FALSE) /\ startup' = "none"
              /\ Queue(startup) /\ Placeholder
              /\ manualCut' = (manualCut /\ startup = "off")
    /\ UNCHANGED <<device, io, mode, selection, staged, mismatch, wish, bounds,
                   stopped, locked>>

Orchestrate == cycle = "orchestrate" /\ cycle' = "decide"

(* What a cycle that holds the relay off for a switch goes on with. *)
Held == view' = [view EXCEPT !.relay = "off", !.confirmed = FALSE, !.hold = TRUE]

(* Mutated ClearSwitch: the selection of the finished switch is kept. *)
Mutant_ClearSwitchKeepsTarget ==
    state' = "idle" /\ timer' = "running" /\ resume' = FALSE /\ UNCHANGED target

(* clear_phase_switch_state *)
ClearSwitch == state' = "idle" /\ target' = NoSelection /\ timer' = "running" /\ resume' = FALSE

(* Mutated ResumeRelay: the relay stays as the switch left it. *)
Mutant_ResumeForgotten == ClearSwitch /\ UNCHANGED <<commands, snapshot, manualCut, view>>

(* _resume_after_phase_switch_pause: Auto decides itself, Manual closes the relay. *)
ResumeRelay ==
    /\ ClearSwitch
    /\ IF resume /\ ~view.auto
         THEN /\ Queue("on") /\ Placeholder /\ manualCut' = FALSE
              /\ view' = [view EXCEPT !.relay = "on", !.confirmed = FALSE]
         ELSE UNCHANGED <<commands, snapshot, manualCut, view>>

NoSwitch ==
    /\ Orchestrate /\ state = "idle"
    /\ UNCHANGED <<device, commands, io, snapshot, cached, view, startup, mode,
                   selection, staged, mismatch, wish, bounds, history>>

(* _phase_switch_waiting_ready *)
WaitingReady ==
    view.relay = "off" /\ pending = "none" /\ view.confirmed /\ timer = "elapsed"

Applying == cycle = "orchestrate" /\ state = "waiting" /\ WaitingReady

WaitForRelay ==
    /\ Orchestrate /\ state = "waiting" /\ ~WaitingReady
    /\ view' = [view EXCEPT !.hold = TRUE]
    /\ UNCHANGED <<device, commands, io, snapshot, cached, startup, mode, selection,
                   staged, mismatch, wish, bounds, history>>

(* _apply_pending_phase_selection *)
ApplyPending ==
    /\ Orchestrate /\ Applying
    /\ Move(target) /\ requested' = target /\ active' = target
    /\ state' = "stabilizing" /\ timer' = "running" /\ Held
    /\ UNCHANGED <<relay, commands, io, snapshot, cached, startup, mode, target, resume,
                   mismatch, wish, bounds, history>>

(* _abort_pending_phase_switch: the call raised, part of it may have happened. *)
ApplyFails ==
    /\ Orchestrate /\ Applying
    /\ Move(target) /\ requested' = active /\ ResumeRelay
    /\ UNCHANGED <<relay, io, cached, startup, mode, active, mismatch, wish, bounds,
                   stopped, locked>>

(* Mutated Stabilizing: a switch that is not confirmed has no deadline. *)
Mutant_StabilizingForever ==
    /\ Orchestrate /\ state = "stabilizing"
    /\ timer = "running" \/ view.phases # target
    /\ active' = view.phases /\ Held
    /\ UNCHANGED <<device, commands, io, snapshot, cached, startup, mode, requested,
                   staged, mismatch, wish, bounds, history>>

(* _phase_switch_still_stabilizing, or not yet confirmed before the deadline. *)
Stabilizing ==
    /\ Orchestrate /\ state = "stabilizing"
    /\ timer = "running" \/ (timer = "elapsed" /\ view.phases # target)
    /\ active' = view.phases /\ Held
    /\ UNCHANGED <<device, commands, io, snapshot, cached, startup, mode, requested,
                   staged, mismatch, wish, bounds, history>>

(* _remember_phase_switch_mismatch, _engage_phase_switch_lockout *)
CountMismatch(s) ==
    /\ counts' = [counts EXCEPT ![s] = @ + 1] /\ last' = s
    /\ lockout' = IF counts'[s] >= LockoutCount THEN s ELSE lockout
    /\ locked' = IF counts'[s] >= LockoutCount THEN locked \cup {s} ELSE locked

(* _report_phase_switch_mismatch, _abort_phase_switch_after_mismatch *)
MismatchReported ==
    /\ Orchestrate /\ state = "stabilizing" /\ timer = "expired" /\ view.phases # target
    /\ CountMismatch(target)
    /\ requested' = view.phases /\ active' = view.phases
    /\ candidate' = NoSelection /\ ripe' = FALSE
    /\ ResumeRelay
    /\ UNCHANGED <<device, io, cached, startup, mode, bounds, stopped>>

(* _clear_phase_switch_mismatch_tracking, _clear_matching_phase_switch_lockout *)
ClearMismatch(s) ==
    /\ counts' = [counts EXCEPT ![s] = 0]
    /\ last' = IF last = s THEN NoSelection ELSE last
    /\ lockout' = IF lockout = s THEN NoSelection ELSE lockout
    /\ locked' = locked \ {s}

(* _complete_stabilized_phase_switch *)
Complete ==
    /\ Orchestrate /\ state = "stabilizing" /\ timer # "running" /\ view.phases = target
    /\ active' = target /\ ClearMismatch(target) /\ ResumeRelay
    /\ UNCHANGED <<device, io, cached, startup, mode, requested, wish, bounds, stopped>>
-----------------------------------------------------------------------------
(* _desired_relay_target: Auto's decision is not modelled here, Manual leaves *)
(* the relay alone.                                                           *)
Desired(d) ==
    IF view.hold THEN d = "off"
    ELSE IF view.auto THEN enable \/ d = "off"
    ELSE d = view.relay

(* The neighbours of a selection in _ordered_auto_phase_selections. *)
Lowest == {t \in Selections : \A u \in Selections : t <= u}
NextUp(s) == {t \in Selections : t > s /\ \A u \in Selections : u > s => t <= u}
NextDown(s) == {t \in Selections : t < s /\ \A u \in Selections : u < s => u <= t}

(* _phase_upshift_block_reason *)
Blocked(s) == lockout = s \/ last = s

(* _auto_phase_target_selection: the surplus asks for the next selection up, *)
(* the next one down, or neither; an idle charger goes back to the lowest.   *)
AutoTargets(d) ==
    IF d = "off" /\ view.relay = "off" THEN Lowest \cup {requested}
    ELSE {requested} \cup {t \in NextUp(requested) : ~Blocked(t)} \cup NextDown(requested)

(* _phase_change_requires_staging *)
RequiresStaging(known) ==
    pending # "none" \/ known = "on" \/ (known = "none" /\ view.relay = "on")

NoCandidate == candidate' = NoSelection /\ ripe' = FALSE

(* maybe_apply_auto_phase_selection: nothing to do, or nothing to do yet. *)
NoPhaseChange(d) ==
    /\ IF ~view.auto THEN NoCandidate
       ELSE IF state # "idle" THEN UNCHANGED wish
       ELSE \E t \in AutoTargets(d) :
              IF t = requested THEN NoCandidate
              ELSE IF t # candidate THEN candidate' = t /\ ripe' = FALSE
              ELSE ~ripe /\ UNCHANGED wish
    /\ UNCHANGED <<phases, selection, staged, mismatch, switches, locked, manualCut>>

(* Whether the selection t has been wanted for its whole delay. *)
AutoChange(d, t) ==
    /\ view.auto /\ state = "idle" /\ t \in AutoTargets(d) \ {requested}
    /\ t = candidate /\ ripe /\ NoCandidate
    /\ switches < MaxSwitches /\ switches' = switches + 1

(* _apply_auto_phase_target, staged. *)
AutoStage(d, t) ==
    /\ AutoChange(d, t) /\ \E known \in ConfirmedOutputs : RequiresStaging(known)
    /\ Stage(t, d = "on") /\ manualCut' = FALSE
    /\ UNCHANGED <<phases, active, mismatch, locked>>

(* _apply_auto_phase_target, at once; the call may raise. *)
AutoApply(d, t) ==
    /\ AutoChange(d, t) /\ \E known \in ConfirmedOutputs : ~RequiresStaging(known)
    /\ Move(t)
    /\ \/ requested' = t /\ active' = t /\ ClearMismatch(t)
       \/ UNCHANGED <<selection, mismatch, locked>>
    /\ UNCHANGED <<staged, manualCut>>

(* _relay_decision_noop, apply_enabled_target *)
RelayNoop(d) == d = view.relay \/ expected = d

(* relay_sync_health_override: a matching confirmed status ends the wait for *)
(* the relay, so does its timeout.                                           *)
RelaySync ==
    \/ expected' = expected /\ ~(view.read /\ view.relay = expected)
    \/ expected' = "none"

(* apply_relay_decision; startstop_display_for_state *)
ApplyRelay(d, placeholder) ==
    /\ IF RelayNoop(d)
         THEN /\ RelaySync /\ UNCHANGED pending
              /\ startstop' = (view.relay = "on")
              /\ snapshot' = IF placeholder THEN NoReading ELSE snapshot
         ELSE Queue(d) /\ Placeholder /\ startstop' = (d = "on")

Decide ==
    /\ cycle = "decide" /\ cycle' = "idle" /\ view' = NoView
    /\ \E d \in Outputs :
         /\ Desired(d)
         /\ \/ NoPhaseChange(d) /\ ApplyRelay(d, FALSE)
            \/ \E t \in Selections : AutoStage(d, t) /\ ApplyRelay("off", TRUE)
            \/ \E t \in Selections : AutoApply(d, t) /\ ApplyRelay(d, FALSE)
    /\ UNCHANGED <<relay, io, cached, startup, auto, enable, writes, crashes, stopped>>

Cycle ==
    \/ CycleOffline \/ CycleBegin \/ NoSwitch \/ WaitForRelay \/ ApplyPending \/ ApplyFails
    \/ Stabilizing \/ MismatchReported \/ Complete \/ Decide
-----------------------------------------------------------------------------
(* Time: the pause, or the settling time. *)
TimerElapses ==
    /\ state # "idle" /\ timer = "running" /\ timer' = "elapsed"
    /\ UNCHANGED <<device, commands, io, snapshot, cached, cycle, view, startup, mode,
                   selection, state, target, resume, mismatch, wish, bounds, history>>

(* _phase_switch_verification_deadline lies the soft-fail budget after the    *)
(* settling time: no cycle lasts that long, and every reading is a new one.   *)
VerificationExpires ==
    /\ state = "stabilizing" /\ timer = "elapsed" /\ timer' = "expired"
    /\ cycle = "idle"
    /\ snapshot' = NoReading /\ cached' = NoReading /\ sample' = NoReading
    /\ worker' = IF worker = "read" THEN "reading" ELSE worker
    /\ UNCHANGED <<device, commands, command, cycle, view, startup, mode, selection, state,
                   target, resume, mismatch, wish, bounds, history>>

(* mismatch_retry_seconds, mismatch_lockout_seconds and the candidate's delay. *)
RetryElapses ==
    /\ last # NoSelection /\ last' = NoSelection
    /\ UNCHANGED <<device, commands, io, snapshot, cached, cycle, view, startup, mode,
                   selection, staged, counts, lockout, wish, bounds, history>>

LockoutElapses ==
    /\ lockout # NoSelection /\ lockout' = NoSelection
    /\ locked' = {}
    /\ UNCHANGED <<device, commands, io, snapshot, cached, cycle, view, startup, mode,
                   selection, staged, counts, last, wish, bounds, manualCut, stopped>>

CandidateRipens ==
    /\ candidate # NoSelection /\ ~ripe /\ ripe' = TRUE
    /\ UNCHANGED <<device, commands, io, snapshot, cached, cycle, view, startup, mode,
                   selection, staged, mismatch, candidate, bounds, history>>

(* A reading leaves the soft-fail budget; the remembered one is never newer. *)
CachedExpires ==
    /\ cached # NoReading /\ cached' = NoReading
    /\ UNCHANGED <<device, commands, io, snapshot, cycle, view, startup, mode, selection,
                   staged, mismatch, wish, bounds, history>>

SnapshotExpires ==
    /\ snapshot # NoReading /\ snapshot' = NoReading /\ cached' = NoReading
    /\ UNCHANGED <<device, commands, io, cycle, view, startup, mode, selection, staged,
                   mismatch, wish, bounds, history>>

(* A restart: every write and every cycle saves its fields, the rest is lost; *)
(* a call to the device that was on its way may still be executed.            *)
Restart ==
    /\ crashes < MaxCrashes /\ crashes' = crashes + 1
    /\ relay' \in {relay} \cup (IF worker = "switching" THEN {command} ELSE {})
    /\ phases' \in {phases} \cup (IF Applying THEN {target} ELSE {})
    /\ pending' = "none" /\ expected' = "none"
    /\ worker' = "idle" /\ command' = "none" /\ sample' = NoReading
    /\ snapshot' = NoReading /\ cached' = NoReading
    /\ cycle' = "idle" /\ view' = NoView
    /\ startup' = IF auto THEN "none" ELSE IF enable \/ startstop THEN "on" ELSE "off"
    /\ NoCandidate
    /\ UNCHANGED <<mode, selection, staged, mismatch, writes, switches, history>>

Time ==
    \/ TimerElapses \/ VerificationExpires \/ RetryElapses \/ LockoutElapses
    \/ CandidateRipens \/ CachedExpires \/ SnapshotExpires

Next == ControlWrite \/ Worker \/ Cycle \/ Time \/ Restart

Spec == Init /\ [][Next]_vars

(* Both loops keep running and time passes.  The device answers a switching *)
(* call and a status read again and again, not always.                      *)
Fairness ==
    /\ SF_vars(WorkerTake) /\ SF_vars(WorkerSwitch) /\ SF_vars(WorkerRead)
    /\ WF_vars(Worker)
    /\ SF_vars(CycleBegin) /\ WF_vars(Cycle)
    /\ WF_vars(TimerElapses) /\ SF_vars(VerificationExpires) /\ WF_vars(CachedExpires)

FairSpec == Spec /\ Fairness
-----------------------------------------------------------------------------
(* A phase write that finds the charging relay closed has it opened before the  *)
(* contactors move: however the worker, the readings it left behind, the other *)
(* writes and a restart interleave, _apply_pending_phase_selection moves them   *)
(* with the relay open, unless the relay was started again since the write.     *)
StagedMovesOpen == [][ApplyPending /\ manualCut => relay = "off"]_vars

(* While a selection is locked out after too many mismatches, Auto does not *)
(* raise the number of phases to it: "Lockout state is scoped to the        *)
(* normalized phase target that caused it" (relay_phase_switch_policy.py).  *)
(* The code does not keep this, and no run checks it: a lockout of another  *)
(* selection takes the one slot there is (with three selections, or with    *)
(* two and four phase writes).                                              *)
LockoutScoped ==
    [][switches' # switches /\ requested' > requested => requested' \notin locked]_vars

(* "Phase changes never bypass an active pause/staging requirement"          *)
(* (relay_phase_switch_policy.py): the contactors never move under load.     *)
NeverUnderLoad == [][phases' # phases => relay = "off"]_vars

(* "In Manual, StartStop remains direct relay control" (write.py): after a *)
(* stop nothing but a new start, or a change of mode, closes the relay.    *)
StopHolds == [][~auto /\ stopped /\ pending' = "on" => pending = "on"]_vars

(* A staged switch ends, applied, aborted or given up after a mismatch. *)
SwitchEnds == state # "idle" ~> state = "idle"

(* In Manual a phase write only interrupts the charging: the relay that it *)
(* opened is closed again, unless Auto takes over.                         *)
ChargingResumes == relay = "off" /\ ~auto ~> relay = "on" \/ auto
=============================================================================
