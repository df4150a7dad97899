---------------------------- MODULE AutoDecision ----------------------------
(***************************************************************************)
(* The relay decision of Auto mode (auto/): one update cycle looks at the  *)
(* photovoltaic, grid and battery readings and answers whether the relay   *)
(* should be on. Gates are tried in order (mode, cutover, grid, scheduled  *)
(* night, battery, inputs, warm-up and manual override); what passes them  *)
(* is averaged, smoothed and compared with thresholds. A start or a stop   *)
(* takes effect only after its condition has lasted for a delay.           *)
(* One cycle is one unit of time, and an age of None means "not running".  *)
(***************************************************************************)
EXTENDS Integers, Sequences, SequencesExt

CONSTANTS
    Readings,      \* records of the readings one cycle may meet
    Policy,        \* the validated AutoPolicy, in the units of Readings
    AutoMinRuntime, AutoMinOff, AutoStartDelay, AutoStopDelay,
    GridMissingStop, OverrideTicks, WarmupTicks, SampleWindow,
    NightLockStop, AllowWithoutSoc,
    AgeCap         \* ages are counted up to here: beyond every delay they are alike

None == -1

\* clamp: what validation guarantees of a policy, whatever was configured
Validated(p) ==
    /\ p.minSoc <= p.resumeSoc
    /\ p.releaseSoc <= p.prioritySoc
    /\ p.highRelease <= p.highSoc
    /\ \A pr \in {p.normal, p.high} : pr.stop <= pr.start
    /\ p.recovery >= 0 /\ p.surplusDelay >= 0

ASSUME AutoAssumption ==
    /\ Validated(Policy)
    /\ {AutoMinRuntime, AutoMinOff, AutoStartDelay, AutoStopDelay, GridMissingStop,
        OverrideTicks, WarmupTicks, Policy.recovery, Policy.surplusDelay} \subseteq 0..AgeCap
    /\ AgeCap \in Nat /\ GridMissingStop < AgeCap
    /\ SampleWindow \in Nat \ {0}

VARIABLES
    autoMode,    \* "manual", "auto" or "scheduled"
    permitted,   \* the controller is enabled and autostart is on
    autoRelay,       \* the relay as the cycle observes it
    track,       \* start and stop tracking: ages, and the reason of the stop
    window,      \* auto_samples
    smooth,      \* _stop_smoothed_surplus_power and _stop_smoothed_grid_power
    gridAge,     \* age of the last grid reading
    recovery,    \* grid recovery required, and for how long the grid is back
    cutover,     \* cutover pending, and _ignore_min_offtime_once
    timers,      \* warm-up and manual override left, ages of relay changes
    autoProfile,     \* high-SOC profile active, EV priority active
    held         \* history: for how long each cause of a decision has lasted

autoVars == <<autoMode, permitted, autoRelay, track, window, smooth, gridAge,
              recovery, cutover, timers, autoProfile, held>>

Older(age) == IF age = None THEN None ELSE IF age < AgeCap THEN age + 1 ELSE age
Less(left) == IF left = 0 THEN 0 ELSE left - 1
AtLeast(a, b) == IF a >= b THEN a ELSE b
AtMost(a, b) == IF a <= b THEN a ELSE b

(***************************************************************************)
(* Readings to decision values                                             *)
(***************************************************************************)
AvailableSurplus(pv, grid) == AtMost(AtLeast(0, pv), AtLeast(0, -grid))

AddSample(w, s, g) ==
    LET v == Append(w, <<s, g>>) IN
    IF Len(v) > SampleWindow THEN Tail(v) ELSE v

Average(w, i) == FoldLeft(LAMBDA sum, s : sum + s[i], 0, w) \div Len(w)

\* adaptive_alpha, in quarters: chosen by the spread of the surplus samples
Alpha(w) ==
    LET spread == FoldLeft(LAMBDA m, s : AtLeast(m, s[1]), w[1][1], w)
                  - FoldLeft(LAMBDA m, s : AtMost(m, s[1]), w[1][1], w)
    IN  IF Len(w) < 2 THEN Policy.alpha.base
        ELSE IF spread <= Policy.alpha.low THEN Policy.alpha.stable
        ELSE IF spread >= Policy.alpha.high THEN Policy.alpha.volatile
        ELSE Policy.alpha.base

\* _smooth_metric, applied only while the relay is on
Smooth(w, i) ==
    LET current == Average(w, i) IN
    IF smooth = <<>> THEN current
    ELSE smooth[i] + (Alpha(w) * (current - smooth[i])) \div 4

SmoothedMetrics(w) ==
    IF autoRelay THEN <<Smooth(w, 1), Smooth(w, 2)>> ELSE <<Average(w, 1), Average(w, 2)>>

\* hysteresis of the high-SOC thresholds and of the EV priority
ProfileFor(soc) ==
    [high     |-> IF autoProfile.high THEN soc >= Policy.highRelease ELSE soc > Policy.highSoc,
     priority |-> IF autoProfile.priority THEN soc >= Policy.releaseSoc ELSE soc >= Policy.prioritySoc]

\* a stable, fresh learned power scales the thresholds, unless it unorders them
LearnedScale(r) == IF r.learned = "stable" THEN Policy.scale ELSE 1
Thresholds(high, r) ==
    LET p == IF high THEN Policy.high ELSE Policy.normal
        scaled == [start |-> p.start * LearnedScale(r), stop |-> p.stop * LearnedScale(r)]
    IN  IF scaled.stop <= scaled.start THEN scaled ELSE p

\* EV priority turns battery charging, and the load that runs, into surplus
PrioritySurplus(base, grid, r, active) ==
    LET reclaimable == AtLeast(0, r.charge - AtLeast(0, grid))
        running == IF autoRelay THEN r.load ELSE 0
    IN  IF active THEN AtLeast(base, AtMost(AtLeast(0, r.pv), base + reclaimable + running))
        ELSE base

\* penalties for battery activity and unbalanced discharge, advice, expected export
ChargePenalty(r) == IF r.charge > 0 THEN Policy.penalty ELSE 0
DischargeBalancePenalty(r) ==
    IF r.unbalance > Policy.unbalance THEN AtMost(Policy.penalty, r.unbalance - Policy.unbalance) ELSE 0
CombinedPenalty(r) == ChargePenalty(r) + DischargeBalancePenalty(r)
AppliedPenalty(r, active) ==
    AtLeast(0, CombinedPenalty(r) - (IF active THEN ChargePenalty(r) ELSE 0))

DecisionSurplus(m, r, active) ==
    PrioritySurplus(AtLeast(0, m[1]), m[2], r, active) - AppliedPenalty(r, active)

(***************************************************************************)
(* Tracking                                                                *)
(***************************************************************************)
NoTrack == [start |-> None, stop |-> None, key |-> "none"]
Aged == [track EXCEPT !.start = Older(@), !.stop = Older(@)]
MinRuntimeElapsed == timers.changed = None \/ timers.changed >= AutoMinRuntime
MinOfftimeElapsed == cutover.bypass \/ timers.off = None \/ timers.off >= AutoMinOff

\* mutant: a change of reason keeps the age of the earlier one
Mutant_AnyReason(t, key) == t.stop = None
NeedsReset(t, key) == t.stop = None \/ (t.key # "none" /\ t.key # key)

\* _arm_or_fire_stop: the tracking afterwards and whether the relay stays on
Stopping(t, key, delay) ==
    IF NeedsReset(t, key) THEN [t |-> [t EXCEPT !.stop = 0, !.key = key], on |-> TRUE]
    ELSE [t |-> [t EXCEPT !.key = key], on |-> t.stop < delay]

Running(t) == [t |-> [t EXCEPT !.stop = None, !.key = "none"], on |-> TRUE]
IdleResult(t) == [t |-> [t EXCEPT !.start = None], on |-> FALSE]

\* _arm_or_fire_start
Starting(t) ==
    IF t.start = None THEN [t |-> [t EXCEPT !.start = 0], on |-> FALSE]
    ELSE [t |-> t, on |-> t.start >= AutoStartDelay]

\* handle_missing_inputs: an unreadable sun is taken for night
MissingInputsReason(r, soc) ==
    IF NightLockStop \/ ~r.day THEN "night-lock"
    ELSE IF soc < Policy.minSoc \/ (r.grid # None /\ r.grid >= Policy.stopImport) THEN "auto-stop"
    ELSE "none"

RelayOnReason(r, soc, surplus, grid, stop) ==
    IF NightLockStop /\ ~r.day THEN "night-lock"
    ELSE IF soc < Policy.minSoc THEN "auto-stop-soc"
    ELSE IF grid >= Policy.stopImport THEN "auto-stop-grid"
    ELSE IF surplus <= stop THEN "auto-stop-surplus"
    ELSE "none"

StopDelayOf(key) == IF key = "auto-stop-surplus" THEN Policy.surplusDelay ELSE AutoStopDelay

StopOrRun(t, key) ==
    IF ~MinRuntimeElapsed \/ key = "none" THEN Running(t) ELSE Stopping(t, key, StopDelayOf(key))

StartConditions(r, soc, surplus, grid, start) ==
    MinOfftimeElapsed /\ r.day /\ surplus >= start
    /\ grid <= Policy.startImport /\ soc >= Policy.resumeSoc

(***************************************************************************)
(* Gates: which of them answers                                            *)
(***************************************************************************)
AutoLogic == autoMode # "manual"
ScheduledNight(r) == autoMode = "scheduled" /\ r.night
NewGridAge(r) == IF r.grid # None THEN 0 ELSE Older(gridAge)
GridRecent(r) == NewGridAge(r) # None /\ NewGridAge(r) <= GridMissingStop
CutoverConfirmed(r) == ~autoRelay /\ r.confirmed

SocOf(r) == IF r.soc # None THEN r.soc ELSE Policy.resumeSoc
SocKnown(r) == r.soc # None \/ AllowWithoutSoc

\* the tracking the gates start from: a completed cutover has reset it
Base == IF cutover.pending THEN NoTrack ELSE Aged
BaseWindow == IF cutover.pending THEN <<>> ELSE window
PastCutover(r) == AutoLogic /\ permitted.enabled /\ (cutover.pending => CutoverConfirmed(r))
PastGrid(r) == PastCutover(r) /\ ~ScheduledNight(r) /\ GridRecent(r)

\* _grid_recovery_waiting: the first cycle with a grid only notes the time
Recovering == [recovery EXCEPT !.age = IF @ = None THEN 0 ELSE Older(@)]
RecoveryWaits == recovery.required /\ Policy.recovery > 0
                 /\ (recovery.age = None \/ Older(recovery.age) < Policy.recovery)
RecoveryAfter ==
    IF ~recovery.required THEN recovery
    ELSE [Recovering EXCEPT !.required = RecoveryWaits]
PastRecovery(r) == PastGrid(r) /\ (RecoveryWaits => autoRelay)
PastInputs(r) == PastRecovery(r) /\ SocKnown(r) /\ r.pv # None /\ r.grid # None
Warming == timers.warmup > 0
Overridden == timers.override > 0

(***************************************************************************)
(* History: how long the causes have lasted, read from the readings alone  *)
(***************************************************************************)
Causes == {"grid-missing", "night-lock", "policy", "surplus", "start", "grid-back"}
Present(c, r, m, surplus, th) ==
    CASE c = "grid-missing" -> ~GridRecent(r)
      [] c = "grid-back"    -> GridRecent(r)
      [] c = "night-lock"   -> ~r.day \/ (NightLockStop /\ (r.pv = None \/ r.grid = None))
      [] c = "policy"       -> SocOf(r) < Policy.minSoc \/ r.grid >= Policy.stopImport \/ m[2] >= Policy.stopImport
      [] c = "surplus"      -> r.pv # None /\ r.grid # None /\ surplus <= th.stop
      [] c = "start"        -> r.pv # None /\ r.grid # None /\ surplus >= th.start
                               /\ m[2] <= Policy.startImport /\ SocOf(r) >= Policy.resumeSoc /\ r.day
AutoLasting(r, m, surplus, th) ==
    [c \in Causes |-> IF ~Present(c, r, m, surplus, th) THEN None
                      ELSE IF held[c] = None THEN 0 ELSE Older(held[c])]

(***************************************************************************)
(* A cycle                                                                 *)
(***************************************************************************)
AutoInit ==
    /\ autoMode = "auto" /\ autoRelay = FALSE /\ gridAge = None
    /\ permitted = [enabled |-> TRUE, autostart |-> TRUE]
    /\ track = NoTrack /\ window = <<>> /\ smooth = <<>>
    /\ recovery = [required |-> FALSE, age |-> None]
    /\ cutover = [pending |-> FALSE, bypass |-> FALSE]
    /\ timers = [warmup |-> WarmupTicks, override |-> 0, changed |-> None, off |-> None]
    /\ autoProfile = [high |-> FALSE, priority |-> FALSE]
    /\ held = [c \in Causes |-> None]

\* the relay follows the answer, or the command is lost and it does not
Apply(on) ==
    \E now \in {on, autoRelay} :
        /\ autoRelay' = now
        /\ timers' = [warmup   |-> Less(timers.warmup),
                      override |-> Less(timers.override),
                      changed  |-> IF now # autoRelay THEN 0 ELSE Older(timers.changed),
                      off      |-> IF now # autoRelay /\ ~now THEN 0 ELSE Older(timers.off)]

Answer(result) == track' = result.t /\ Apply(result.on)
ClearSamples == window' = <<>> /\ smooth' = <<>>
ResetAuto == track' = NoTrack /\ ClearSamples
Noted(r, m, surplus, th) == held' = AutoLasting(r, m, surplus, th) /\ gridAge' = NewGridAge(r)
NotAveraged(r) == Noted(r, <<0, None>>, 0, [start |-> 1, stop |-> None])
CutoverDone == cutover' = IF cutover.pending THEN [pending |-> FALSE, bypass |-> TRUE] ELSE cutover
Kept == UNCHANGED <<autoMode, permitted>>

NonAutoCycle(r) ==
    /\ ~AutoLogic /\ ResetAuto /\ Apply(autoRelay)
    /\ cutover' = [pending |-> FALSE, bypass |-> FALSE]
    /\ NotAveraged(r) /\ Kept /\ UNCHANGED <<recovery, autoProfile>>

DisabledCycle(r) ==
    /\ AutoLogic /\ ~permitted.enabled /\ ResetAuto /\ Apply(FALSE)
    /\ cutover' = [pending |-> FALSE, bypass |-> FALSE]
    /\ NotAveraged(r) /\ Kept /\ UNCHANGED <<recovery, autoProfile>>

CutoverCycle(r) ==
    /\ AutoLogic /\ permitted.enabled /\ cutover.pending /\ ~CutoverConfirmed(r)
    /\ ResetAuto /\ Apply(FALSE)
    /\ NotAveraged(r) /\ Kept /\ UNCHANGED <<recovery, autoProfile, cutover>>

GridMissingCycle(r) ==
    /\ PastCutover(r) /\ ~ScheduledNight(r) /\ ~GridRecent(r)
    /\ LET t == [Base EXCEPT !.start = None]
       IN  Answer(IF autoRelay THEN StopOrRun(t, "grid-missing") ELSE IdleResult(t))
    /\ recovery' = [required |-> TRUE, age |-> None]
    /\ ClearSamples /\ CutoverDone /\ NotAveraged(r) /\ Kept /\ UNCHANGED autoProfile

RecoveryCycle(r) ==
    /\ PastGrid(r) /\ RecoveryWaits /\ ~autoRelay
    /\ Answer(IdleResult(Base))
    /\ recovery' = RecoveryAfter /\ window' = BaseWindow
    /\ smooth' = (IF cutover.pending THEN <<>> ELSE smooth)
    /\ CutoverDone /\ NotAveraged(r) /\ Kept /\ UNCHANGED autoProfile

ScheduledNightCycle(r) ==
    /\ PastCutover(r) /\ ScheduledNight(r)
    /\ IF Warming \/ Overridden THEN ResetAuto /\ Apply(autoRelay)
       ELSE /\ Answer(IF ~autoRelay /\ (~permitted.autostart \/ ~MinOfftimeElapsed)
                      THEN IdleResult(Base)
                      ELSE [t |-> NoTrack, on |-> TRUE])
            /\ window' = BaseWindow /\ smooth' = (IF cutover.pending THEN <<>> ELSE smooth)
    /\ CutoverDone /\ NotAveraged(r) /\ Kept /\ UNCHANGED <<recovery, autoProfile>>

SocMissingCycle(r) ==
    /\ PastRecovery(r) /\ ~SocKnown(r)
    /\ ResetAuto /\ Apply(autoRelay)
    /\ recovery' = RecoveryAfter /\ CutoverDone /\ NotAveraged(r) /\ Kept /\ UNCHANGED autoProfile

InputsMissingCycle(r) ==
    /\ PastRecovery(r) /\ SocKnown(r) /\ (r.pv = None \/ r.grid = None)
    /\ LET t == [Base EXCEPT !.start = None]
       IN  Answer(IF autoRelay THEN StopOrRun(t, MissingInputsReason(r, SocOf(r))) ELSE IdleResult(t))
    /\ ClearSamples /\ recovery' = RecoveryAfter /\ CutoverDone /\ NotAveraged(r) /\ Kept
    /\ UNCHANGED autoProfile

\* _decision_from_averages
DecisionCycle(r) ==
    /\ PastInputs(r)
    /\ LET w == AddSample(BaseWindow, AvailableSurplus(r.pv, r.grid), r.grid)
           m == SmoothedMetrics(w)
           p == ProfileFor(SocOf(r))
           surplus == DecisionSurplus(m, r, p.priority)
           th == Thresholds(p.high, r)
           starts == StartConditions(r, SocOf(r), surplus, m[2], th.start)
           started == Starting([Base EXCEPT !.stop = None])
       IN  /\ autoProfile' = p
           /\ Noted(r, m, surplus, th)
           /\ IF Warming \/ Overridden
              THEN ResetAuto /\ Apply(autoRelay) /\ CutoverDone
              ELSE /\ window' = w /\ smooth' = (IF autoRelay THEN m ELSE <<>>)
                   /\ IF autoRelay
                      THEN /\ Answer(StopOrRun([Base EXCEPT !.start = None],
                                               RelayOnReason(r, SocOf(r), surplus, m[2], th.stop)))
                           /\ CutoverDone
                      ELSE IF permitted.autostart /\ starts
                      THEN /\ Answer(started)
                           /\ cutover' = [pending |-> FALSE,
                                          bypass |-> (cutover.pending \/ cutover.bypass) /\ ~started.on]
                      ELSE /\ Answer(IdleResult([Base EXCEPT !.stop = None]))
                           /\ CutoverDone
    /\ recovery' = RecoveryAfter /\ Kept

AutoCycle(r) ==
    \/ NonAutoCycle(r) \/ DisabledCycle(r) \/ CutoverCycle(r) \/ GridMissingCycle(r)
    \/ RecoveryCycle(r) \/ ScheduledNightCycle(r) \/ SocMissingCycle(r)
    \/ InputsMissingCycle(r) \/ DecisionCycle(r)

(***************************************************************************)
(* Writes of the user                                                      *)
(***************************************************************************)
\* to an Auto mode: with the relay possibly on, only through a cutover
SetMode(m) ==
    /\ m # autoMode /\ autoMode' = m
    /\ IF m = "manual" \/ AutoLogic THEN UNCHANGED <<cutover, timers>>
       ELSE /\ cutover' = [pending |-> autoRelay, bypass |-> FALSE]
            /\ timers' = [timers EXCEPT !.override = 0]
    /\ track' = [track EXCEPT !.start = None, !.stop = None]
    /\ ClearSamples
    /\ UNCHANGED <<permitted, autoRelay, gridAge, recovery, autoProfile, held>>

\* a manual switch takes effect and holds Auto off for a while
ManualSwitch ==
    /\ ~AutoLogic /\ autoRelay' = ~autoRelay
    /\ timers' = [timers EXCEPT !.override = OverrideTicks, !.changed = 0,
                                !.off = IF autoRelay THEN 0 ELSE @]
    /\ UNCHANGED <<autoMode, permitted, track, window, smooth, gridAge, recovery,
                   cutover, autoProfile, held>>

SetPermitted ==
    /\ permitted' \in [enabled : BOOLEAN, autostart : BOOLEAN]
    /\ UNCHANGED <<autoMode, autoRelay, track, window, smooth, gridAge, recovery,
                   cutover, timers, autoProfile, held>>

AutoNext ==
    \/ \E r \in Readings : AutoCycle(r)
    \/ \E m \in {"manual", "auto", "scheduled"} : SetMode(m)
    \/ ManualSwitch
    \/ SetPermitted

AutoSpec == AutoInit /\ [][AutoNext]_autoVars

(***************************************************************************)
(* Properties                                                              *)
(***************************************************************************)
AutoAges == None..AgeCap

\* Every variable of the decision stays within its bounds (auto/logic_samples.py).
AutoTypeOK ==
    /\ autoMode \in {"manual", "auto", "scheduled"} /\ autoRelay \in BOOLEAN
    /\ permitted \in [enabled : BOOLEAN, autostart : BOOLEAN]
    /\ track.start \in AutoAges /\ track.stop \in AutoAges
    /\ Len(window) <= SampleWindow
    /\ gridAge \in AutoAges
    /\ recovery \in [required : BOOLEAN, age : AutoAges]
    /\ cutover \in [pending : BOOLEAN, bypass : BOOLEAN]
    /\ timers \in [warmup : 0..WarmupTicks, override : 0..OverrideTicks, changed : AutoAges, off : AutoAges]
    /\ autoProfile \in [high : BOOLEAN, priority : BOOLEAN]

Decides == AutoLogic /\ permitted.enabled /\ ~cutover.pending /\ autoRelay' # autoRelay
           /\ autoMode' = autoMode

\* In Auto mode the relay is switched off only when it has been on for the
\* minimum runtime and one and the same cause to stop was present in every
\* cycle of its delay; and outside the scheduled night it is switched on only
\* when the start conditions held throughout the start delay, the relay was
\* off long enough (or a cutover waived that), and a grid that had been lost
\* is back for the recovery time: no pause, gate, lost command or change of
\* the reason lets a delay be shortened (auto/logic_gates_runtime.py).
SwitchesEarned ==
    [][Decides =>
        IF autoRelay
        THEN /\ MinRuntimeElapsed
             /\ \/ \E c \in {"grid-missing", "night-lock", "policy"} : held'[c] >= AutoStopDelay
                \/ held'["surplus"] >= Policy.surplusDelay
        ELSE \/ track' = NoTrack
             \/ /\ held'["start"] >= AutoStartDelay
                /\ MinOfftimeElapsed
                /\ ~recovery'.required]_autoVars

(***************************************************************************)
(* Why: what a tracking age was started for has lasted at least as long.   *)
(***************************************************************************)
StopKeys == {"none", "grid-missing", "night-lock", "auto-stop", "auto-stop-soc",
             "auto-stop-grid", "auto-stop-surplus"}
CauseOf(key) ==
    IF key \in {"grid-missing", "night-lock"} THEN key
    ELSE IF key = "auto-stop-surplus" THEN "surplus" ELSE "policy"

DelaysHeld ==
    /\ track \in [start : AutoAges, stop : AutoAges, key : StopKeys]
    /\ held \in [Causes -> AutoAges]
    /\ autoRelay \in BOOLEAN
    /\ track.start # None => held["start"] >= track.start
    /\ autoRelay /\ track.stop # None => track.key # "none" /\ held[CauseOf(track.key)] >= track.stop
    /\ autoMode = "manual" => track.start = None /\ track.stop = None
=============================================================================
