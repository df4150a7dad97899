----------------------------- MODULE EssBalance -----------------------------
(***************************************************************************)
(* The Victron ESS balance bias (update/victron_ess_balance*.py): while    *)
(* Auto mode runs and the battery of the Victron system discharges out of  *)
(* step with the others, a PID controller moves the grid setpoint of the   *)
(* system; when tracking is not possible the configured base setpoint is   *)
(* written back. The response to each command is learned per profile, and  *)
(* a learned recommendation is applied one step at a time, observed, and   *)
(* rolled back when it misbehaves.                                         *)
(* A tuning is a level of aggressiveness: gain, limit and ramp grow with   *)
(* it. Scores are in percent.                                              *)
(***************************************************************************)
EXTENDS Integers, Sequences, SequencesExt, TLC

CONSTANTS
    Sights,          \* records of what one cycle may find
    BaseSetpoint, Deadband, IntegralLimit,
    ActivationMode,  \* as configured; a recommended mode is not applied here
    Levels_,         \* tuning levels, 1..n
    MinUpdate,       \* ticks between two writes
    LockoutWindow, LockoutChanges, LockoutTicks, CooldownTicks, ObservationTicks,
    MinConfidence, MinStability, MinSamples, RollbackStability,
    MaxCount,        \* learned counters are counted up to here
    Unset            \* "no value"

ASSUME EssAssumption ==
    /\ {Deadband, IntegralLimit, MinUpdate, LockoutWindow, LockoutChanges, LockoutTicks,
        CooldownTicks, ObservationTicks, MaxCount} \subseteq Nat
    /\ Len(SetToSeq(Levels_)) \in Nat \ {0} /\ Levels_ = 1..Len(SetToSeq(Levels_))
    /\ BaseSetpoint \in Int /\ \A s \in Sights : s.error \in Int
    /\ Unset \notin Int

VARIABLES
    site,       \* the setpoint the gateway has accepted last
    lastSet,    \* _victron_ess_balance_last_setpoint_w, or Unset
    sinceWrite, \* ticks since the last accepted write, or Unset
    pid,        \* integral, last error and output of the controller
    episode,    \* the command whose response is being measured, or Unset
    learned,    \* per profile: samples, settled and overshoot counts
    tuning,     \* level in force, last stable and conservative level
    adapt,      \* observation, suspension and age of the last applied step
    guard,      \* overshoot cooldown, oscillation lockout, safe state
    turns,      \* ages of the direction changes, and the last direction
    restarted   \* history: a restart or a switch-off forgot a setpoint

essVars == <<site, lastSet, sinceWrite, pid, episode, learned, tuning, adapt,
             guard, turns, restarted>>

Abs(x) == IF x < 0 THEN -x ELSE x
Lesser(a, b) == IF a <= b THEN a ELSE b
Greater(a, b) == IF a >= b THEN a ELSE b
Bounded(x, limit) == Greater(-limit, Lesser(x, limit))
OneLess(n) == Greater(0, n - 1)
OneMore(n, cap) == IF n = Unset THEN Unset ELSE Lesser(n + 1, cap)
Longest == 2 * ObservationTicks + 1

MaxAbs(level) == 2 * level
Ramp(level) == 2 * level

(***************************************************************************)
(* Source and activation                                                   *)
(***************************************************************************)
\* every reason that leaves the bias off, in the order it is looked for
SourceBlocked(s) == ~s.auto \/ s.sources < 2 \/ s.source # "online" \/ ~s.supported

ActivationAllowed(s, mode) ==
    /\ mode \in {"export_only", "export_and_above_reserve_band"} => s.regime = "export"
    /\ mode \in {"above_reserve_band", "export_and_above_reserve_band"} => s.reserve = "above"

Direction(s) == IF s.error < 0 THEN "more_export" ELSE "less_export"
ProfileKey(s) == <<Direction(s), s.regime>>

(***************************************************************************)
(* The PID controller                                                      *)
(***************************************************************************)
NoPid == [integral |-> 0, error |-> 0, out |-> 0, timed |-> FALSE]
EffectiveError(s) == IF Abs(s.error) < Deadband THEN 0 ELSE s.error

PidOutput(s) ==
    LET e == EffectiveError(s)
        dt == IF pid.timed THEN 1 ELSE 0
        i == IF e = 0 THEN 0 ELSE Bounded(pid.integral + e * dt, IntegralLimit)
        target == IF e = 0 THEN 0 ELSE Bounded(tuning.level * e + i, MaxAbs(tuning.level))
        out == IF dt = 0 THEN target
               ELSE pid.out + Bounded(target - pid.out, Ramp(tuning.level))
    IN  [integral |-> i, error |-> e, out |-> out, timed |-> TRUE]

ResetIntegral(p) == [p EXCEPT !.integral = 0, !.out = 0]

(***************************************************************************)
(* Learning from the response                                              *)
(***************************************************************************)
NoProfile == [samples |-> 0, settled |-> 0, overshoot |-> 0]
ProfileOf(l, key) == IF key \in DOMAIN l THEN l[key] ELSE NoProfile

\* stability_score: settle ratio, gain bonus, overshoot penalty
Stability(p) ==
    LET total == p.settled + p.overshoot
        ratio == IF total = 0 THEN 100 ELSE (100 * p.settled) \div total
        penalty == IF total = 0 THEN 0 ELSE Lesser(60, (100 * p.overshoot) \div total)
        bonus == IF p.samples > 0 THEN 15 ELSE 0
    IN  Greater(0, Lesser(100, 45 + (40 * ratio) \div 100 + bonus - penalty))

Consistency(p) == (30 * Lesser(4, p.samples)) \div 4 + (35 * Stability(p)) \div 100 + 35
Reproducibility(p) ==
    LET total == p.settled + p.overshoot
    IN  (IF total = 0 THEN 60 ELSE (60 * p.settled) \div total) + 40
Confidence(p) ==
    Lesser(100, 10 + Lesser(55, 24 * p.samples) + (35 * Stability(p)) \div 100
                + (20 * Consistency(p)) \div 100 + 15 + (20 * Reproducibility(p)) \div 100)

\* overshoot: the error came back with the opposite sign; settled: in the deadband
Overshoots(s) == episode.error * s.error < 0 /\ Abs(s.error) >= Deadband
Improves(s) == Abs(episode.error) > Abs(s.error)
Settles(s) == Abs(s.error) <= Deadband

Measured(s) == episode # Unset /\ s.clean
NewOvershoot(s) == Measured(s) /\ ~episode.overshoot /\ Overshoots(s)
NewSettled(s) == Measured(s) /\ ~episode.settled /\ Settles(s)

EpisodeAfter(s) ==
    IF ~Measured(s) THEN episode
    ELSE [episode EXCEPT !.overshoot = @ \/ Overshoots(s), !.settled = @ \/ Settles(s)]

Count(n, more) == IF more THEN Lesser(MaxCount, n + 1) ELSE n
Known(s) ==
    IF ProfileKey(s) \in DOMAIN learned THEN learned ELSE learned @@ (ProfileKey(s) :> NoProfile)
LearnedAfter(s) ==
    LET l == Known(s)
        key == IF episode = Unset THEN ProfileKey(s) ELSE episode.key
        p == ProfileOf(l, key)
    IN  [k \in DOMAIN l \cup {key} |->
            IF k # key THEN l[k]
            ELSE [samples   |-> Count(p.samples, Measured(s) /\ Improves(s)),
                  settled   |-> Count(p.settled, NewSettled(s)),
                  overshoot |-> Count(p.overshoot, NewOvershoot(s))]]

\* the recommendation: more cautious after overshoot, bolder after clean settling
Recommended(p) ==
    IF p.samples = 0 \/ Confidence(p) < 50 THEN tuning.level
    ELSE IF p.overshoot > 0 \/ Stability(p) < 55 THEN Greater(1, tuning.level - 1)
    ELSE IF Stability(p) >= 80 /\ p.settled >= Lesser(2, MaxCount) THEN Lesser(Len(SetToSeq(Levels_)), tuning.level + 1)
    ELSE tuning.level

(***************************************************************************)
(* Guards against oscillation and overshoot                                *)
(***************************************************************************)
\* note_action_direction: a change of direction within the window counts
TurnsAfter(s) ==
    LET aged == SelectSeq([i \in DOMAIN turns.ages |-> turns.ages[i] + 1],
                          LAMBDA a : a <= LockoutWindow)
        noted == IF turns.ages = <<>> \/ turns.last # Direction(s) THEN Append(aged, 0) ELSE aged
    IN  [ages |-> noted, last |-> Direction(s)]
Oscillates(s) == Len(TurnsAfter(s).ages) - 1 >= LockoutChanges

CooldownActive == guard.cooldown > 0
Suspended(a) == a.suspend > 0

SuspendFrom(a, age) == [a EXCEPT !.suspend = Greater(0, 2 * ObservationTicks - age)]

\* maybe_restore_stable_tuning: the last stable tuning, else the conservative one
RestoreTarget(t) == IF t.stable # Unset THEN t.stable ELSE t.conservative
EssRestoreTuning(t, a) ==
    IF RestoreTarget(t) = Unset THEN [tuning |-> t, adapt |-> a, safe |-> FALSE]
    ELSE [tuning |-> [t EXCEPT !.level = RestoreTarget(t)],
          adapt  |-> SuspendFrom([a EXCEPT !.observe = 0], IF a.applied = Unset THEN 0 ELSE a.applied),
          safe   |-> TRUE]

\* refresh_stable_tuning: a confident, stable profile makes its tuning the
\* stable one. The confidence is looked up in the metrics of the cycle, which
\* are created anew and get it only after the refresh.
MetricsConfidence == Unset
Qualifies(p) == Stability(p) >= 80 /\ p.samples >= Lesser(2, MaxCount) /\ p.overshoot = 0
EssRefreshed(s) ==
    IF MetricsConfidence = Unset \/ ~Qualifies(ProfileOf(learned, ProfileKey(s))) THEN tuning
    ELSE [tuning EXCEPT !.stable = tuning.level,
                        !.conservative = IF @ = Unset THEN tuning.level ELSE @]

(***************************************************************************)
(* Applying a recommendation                                               *)
(***************************************************************************)
AgedAdapt == [observe |-> OneLess(adapt.observe), suspend |-> OneLess(adapt.suspend),
              applied |-> OneMore(adapt.applied, Longest)]

Misbehaves(p, overshot) == overshot \/ CooldownActive \/ Stability(p) < RollbackStability

\* blocker_reason: suspension, rollback, observation, readiness, then a step
EssAutoApply(t, a, p, overshot, active) ==
    IF Suspended(a) THEN [t |-> t, a |-> a]
    ELSE IF a.observe > 0 /\ Misbehaves(p, overshot) /\ EssRestoreTuning(t, a).safe
    THEN [t |-> EssRestoreTuning(t, a).tuning, a |-> EssRestoreTuning(t, a).adapt]
    ELSE IF \/ a.observe > 0
            \/ ~active
            \/ Confidence(p) < MinConfidence \/ Stability(p) < MinStability \/ p.samples < MinSamples
            \/ Recommended(p) = t.level
    THEN [t |-> t, a |-> a]
    ELSE [t |-> [t EXCEPT !.level = Recommended(p)],
          a |-> [a EXCEPT !.observe = ObservationTicks, !.applied = 0]]

(***************************************************************************)
(* Writing the setpoint                                                    *)
(***************************************************************************)
ShouldWrite(value) ==
    /\ sinceWrite = Unset \/ sinceWrite >= MinUpdate
    /\ lastSet = Unset \/ Abs(value - lastSet) >= 1
NotWritten == UNCHANGED <<site, lastSet>> /\ sinceWrite' = OneMore(sinceWrite, MinUpdate)

\* an accepted tracking write is remembered and starts an episode
WriteTracking(s, value, other) ==
    IF ShouldWrite(value) /\ s.accepted
    THEN /\ site' = value /\ lastSet' = value /\ sinceWrite' = 0
         /\ episode' = [error |-> s.error, key |-> ProfileKey(s),
                        overshoot |-> FALSE, settled |-> FALSE]
    ELSE NotWritten /\ episode' = other

\* a restore is forgotten only when the gateway has accepted it
\* mutant: a rejected restore is forgotten too
Mutant_ForgetRestore(s) ==
    IF lastSet = Unset \/ ~ShouldWrite(BaseSetpoint) THEN NotWritten
    ELSE lastSet' = Unset /\ sinceWrite' = 0 /\ site' = IF s.accepted THEN BaseSetpoint ELSE site
WriteRestore(s) ==
    IF lastSet = Unset \/ ~ShouldWrite(BaseSetpoint) \/ ~s.accepted THEN NotWritten
    ELSE site' = BaseSetpoint /\ lastSet' = Unset /\ sinceWrite' = 0

(***************************************************************************)
(* A cycle                                                                 *)
(***************************************************************************)
EssInit ==
    /\ site = BaseSetpoint /\ lastSet = Unset /\ sinceWrite = Unset
    /\ pid = NoPid /\ episode = Unset /\ learned = <<>>
    /\ tuning = [level |-> 1, stable |-> Unset, conservative |-> Unset]
    /\ adapt = [observe |-> 0, suspend |-> 0, applied |-> Unset]
    /\ guard = [cooldown |-> 0, lockout |-> 0, safe |-> FALSE]
    /\ turns = [ages |-> <<>>, last |-> "none"]
    /\ restarted = FALSE

AgedGuard == [guard EXCEPT !.cooldown = OneLess(@), !.lockout = OneLess(@)]

\* _restore_victron_ess_balance_base_setpoint, after any block reason
RestoreBase(s, t, a) ==
    /\ WriteRestore(s) /\ pid' = NoPid /\ episode' = Unset
    /\ LET applied == EssAutoApply(t, a, NoProfile, FALSE, FALSE)
       IN  tuning' = applied.t /\ adapt' = applied.a

BlockedCycle(s) ==
    /\ SourceBlocked(s)
    /\ RestoreBase(s, tuning, AgedAdapt)
    /\ guard' = AgedGuard /\ UNCHANGED <<learned, turns, restarted>>

\* the direction is noted before the guards are looked at
GuardAfter(s) == [AgedGuard EXCEPT !.lockout = IF Oscillates(s) THEN LockoutTicks ELSE @]

GuardedCycle(s) ==
    LET g == GuardAfter(s)
        restored == EssRestoreTuning(EssRefreshed(s), AgedAdapt)
    IN  /\ ~SourceBlocked(s) /\ (g.cooldown > 0 \/ g.lockout > 0)
        /\ learned' = Known(s)
        /\ turns' = TurnsAfter(s)
        /\ RestoreBase(s, restored.tuning, restored.adapt)
        /\ guard' = [g EXCEPT !.safe = @ \/ restored.safe]
        /\ UNCHANGED restarted

TrackingCycle(s) ==
    LET p == PidOutput(s)
        profiled == ProfileOf(LearnedAfter(s), ProfileKey(s))
        a == IF NewOvershoot(s) THEN SuspendFrom(AgedAdapt, 0) ELSE AgedAdapt
        applied == EssAutoApply(EssRefreshed(s), a, profiled, NewOvershoot(s), TRUE)
    IN  /\ ~SourceBlocked(s) /\ GuardAfter(s).cooldown = 0 /\ GuardAfter(s).lockout = 0
        /\ turns' = TurnsAfter(s)
        /\ IF ActivationAllowed(s, ActivationMode)
           THEN /\ learned' = LearnedAfter(s)
                /\ pid' = IF NewOvershoot(s) THEN ResetIntegral(p) ELSE p
                /\ WriteTracking(s, BaseSetpoint + p.out, EpisodeAfter(s))
                /\ tuning' = applied.t /\ adapt' = applied.a
                /\ guard' = [cooldown |-> IF NewOvershoot(s) THEN CooldownTicks ELSE 0,
                             lockout |-> 0, safe |-> FALSE]
           ELSE /\ RestoreBase(s, EssRefreshed(s), AgedAdapt)
                /\ guard' = [GuardAfter(s) EXCEPT !.safe = FALSE]
                /\ learned' = Known(s)
        /\ UNCHANGED restarted

\* with the bias switched off only the controller is reset: no base is written
DisabledEss ==
    /\ pid' = NoPid
    /\ UNCHANGED <<site, lastSet, sinceWrite, episode, learned, tuning, adapt, guard, turns, restarted>>

\* a restart keeps the learned profiles and tunings, not the last setpoint
RestartEss ==
    /\ lastSet' = Unset /\ sinceWrite' = Unset /\ pid' = NoPid /\ episode' = Unset
    /\ turns' = [ages |-> <<>>, last |-> "none"]
    /\ guard' = [guard EXCEPT !.cooldown = 0, !.lockout = 0]
    /\ restarted' = (restarted \/ site # BaseSetpoint)
    /\ UNCHANGED <<site, learned, tuning, adapt>>

EssNext ==
    \/ \E s \in Sights : BlockedCycle(s) \/ GuardedCycle(s) \/ TrackingCycle(s)
    \/ DisabledEss
    \/ RestartEss

EssSpec == EssInit /\ [][EssNext]_essVars

(***************************************************************************)
(* Properties                                                              *)
(***************************************************************************)
\* Every variable of the balance bias stays within its bounds
\* (update/victron_ess_balance_apply.py).
EssTypeOK ==
    /\ site \in Int /\ (lastSet = Unset \/ lastSet \in Int)
    /\ (sinceWrite = Unset \/ sinceWrite \in 0..MinUpdate)
    /\ Abs(pid.integral) <= IntegralLimit /\ pid.timed \in BOOLEAN
    /\ tuning.level \in Levels_ /\ tuning.stable \in Levels_ \cup {Unset}
    /\ adapt.observe \in 0..ObservationTicks /\ adapt.suspend \in 0..(2 * ObservationTicks)
    /\ guard \in [cooldown : 0..CooldownTicks, lockout : 0..LockoutTicks, safe : BOOLEAN]

\* Unless a restart forgot it, the service remembers every setpoint that is not
\* the base one, so that the next cycle that cannot track undoes it: a rejected
\* write, a restore that is put off or refused, and any order of lockouts,
\* cooldowns and lost sources leave either the base setpoint on the site or the
\* value to undo in last_setpoint (update/victron_ess_balance_apply.py:371).
SetpointRemembered == restarted \/ site = BaseSetpoint \/ lastSet = site

\* "Optional rollback to the last stable learned tuning": a cycle that tracks
\* with a profile whose scores qualify makes its tuning the one to roll back to
\* (update/victron_ess_balance_apply.py:167).
StableTuningLearned ==
    [][\A s \in Sights :
        TrackingCycle(s) /\ Qualifies(ProfileOf(learned, ProfileKey(s)))
        /\ Confidence(ProfileOf(learned, ProfileKey(s))) >= 80 => tuning'.stable # Unset]_essVars
=============================================================================
