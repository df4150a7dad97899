---------------------------- MODULE LearnedPower ----------------------------
(***************************************************************************)
(* Learning the charge power of the connected vehicle                      *)
(* (update/learning*.py). Each online cycle first refreshes the stored     *)
(* value, then compares a stable value with the session that is running    *)
(* (its signature: phase, voltage, power), and after the relay decision    *)
(* feeds the measured power to the estimate. The session clock belongs to  *)
(* update/state.py. Powers and voltages are small integers, scores are in  *)
(* percent, and times are ages in cycles.                                  *)
(***************************************************************************)
EXTENDS Integers

CONSTANTS
    LpMeters,        \* what a cycle may measure: [on, charging, power, volt, confirmed]
    LpPhases,        \* the phase configurations a restart may bring
    StartDelay, LearnWindow,     \* a sample counts between these session ages; 0 = no end
    LpMaxAge,                    \* a value older than this is stale; 0 = never
    StableSamples, StableTicks, MinStableScore,
    MinWatts, MaxAmps, NominalVolt, PowerTolerance, VoltTolerance,
    MismatchSessions,
    LpNone

ASSUME LpAssumption ==
    /\ {StartDelay, LearnWindow, LpMaxAge, StableSamples, StableTicks, MinWatts,
        MaxAmps, NominalVolt, VoltTolerance} \subseteq Nat
    /\ PowerTolerance \in Nat \ {0}
    /\ MismatchSessions \in Nat \ {0}
    /\ \A m \in LpMeters : m.power \in Int
    /\ LpNone \notin Int \cup LpPhases          \* no power, age or phase

VARIABLES
    profile,       \* learned_charge_power_*: the stored estimate and its signature
    session,       \* age of charging_started_at, or LpNone
    lpPhase,       \* the configured phase
    lpVolt,        \* _last_voltage, or LpNone
    backed         \* history: this estimate has passed the stability test

lpVars == <<profile, session, lpPhase, lpVolt, backed>>

LpAbs(x) == IF x < 0 THEN -x ELSE x
LpLesser(a, b) == IF a <= b THEN a ELSE b
LpGreater(a, b) == IF a >= b THEN a ELSE b
LpOlder(age) == IF age = LpNone THEN LpNone ELSE LpLesser(age + 1, LpMaxAge + StableTicks + 2)

\* _clear_learning_tracking
Cleared(p) == [state |-> "unknown", power |-> LpNone, age |-> LpNone, since |-> LpNone,
               samples |-> 0, phase |-> LpNone, volt |-> LpNone, mismatches |-> 0,
               checked |-> FALSE, score |-> p.score]

PhaseChanged(p) == p.phase # LpNone /\ p.phase # lpPhase
Stale(p) == LpMaxAge > 0 /\ (p.age = LpNone \/ p.age > LpMaxAge)

(***************************************************************************)
(* refresh_learned_charge_power_state                                      *)
(***************************************************************************)
StalePower(p) == [p EXCEPT !.state = "stale", !.since = LpNone, !.samples = 0]

\* _apply_stable_learning
StablePower(p, power, age, phase, volt, mismatches, checked) ==
    [p EXCEPT !.state = "stable", !.power = power, !.age = age, !.since = LpNone,
              !.samples = LpGreater(StableSamples, p.samples), !.phase = phase,
              !.volt = volt, !.mismatches = mismatches, !.checked = checked]

ResolvedPhase(p) == IF p.phase # LpNone THEN p.phase ELSE lpPhase

Mutant_LearningRestored(p) ==
    IF p.power = LpNone \/ PhaseChanged(p) THEN Cleared(p)
    ELSE IF Stale(p) THEN StalePower(p)
    ELSE IF p.state # "stale" /\ p.age # LpNone /\ session = LpNone
         THEN StablePower(p, p.power, p.age, ResolvedPhase(p), p.volt, p.mismatches, p.checked)
    ELSE p

Refreshed(p) ==
    IF p.power = LpNone \/ PhaseChanged(p) THEN Cleared(p)
    ELSE IF Stale(p) THEN StalePower(p)
    ELSE IF p.state = "unknown" /\ p.age # LpNone
         THEN StablePower(p, p.power, p.age, ResolvedPhase(p), p.volt, p.mismatches, p.checked)
    ELSE IF p.state = "stale" THEN p
    ELSE [p EXCEPT !.phase = ResolvedPhase(p)]

(***************************************************************************)
(* reconcile_learned_charge_power_signature                                *)
(***************************************************************************)
\* _current_learning_voltage_signature
VoltSignature(m) == IF m.volt > 0 THEN m.volt ELSE lpVolt
EligibleSession(p, m) == m.on /\ session # LpNone /\ session >= StartDelay /\ ~p.checked
Mismatching(p, m) ==
    \/ /\ p.volt # LpNone
       /\ VoltSignature(m) # LpNone
       /\ LpAbs(VoltSignature(m) - p.volt) > VoltTolerance
    \/ LpAbs(m.power - p.power) > PowerTolerance

\* a mismatching session is counted; the last one forgets the value
MismatchCounted(p, m) ==
    IF p.mismatches + 1 >= MismatchSessions THEN Cleared(p)
    ELSE StablePower(p, p.power, p.age, ResolvedPhase(p),
                     p.volt, p.mismatches + 1, TRUE)

Reconciled(p, m) ==
    IF ~m.confirmed \/ p.state # "stable" THEN p
    ELSE IF PhaseChanged(p) THEN Cleared(p)
    ELSE IF ~EligibleSession(p, m) THEN p
    ELSE IF Mismatching(p, m) THEN MismatchCounted(p, m)
    ELSE StablePower(p, p.power, p.age, ResolvedPhase(p), p.volt, 0, TRUE)

(***************************************************************************)
(* update_learned_charge_power                                             *)
(***************************************************************************)
\* window_status
WindowStatus(at) ==
    IF at = LpNone \/ at < StartDelay THEN "waiting"
    ELSE IF LearnWindow > 0 /\ at > StartDelay + LearnWindow THEN "expired"
    ELSE "ready"

\* _plausible_learning_power_max, in the phase voltage mode
PhaseCount == IF lpPhase = "3P" THEN 3 ELSE 1
PlausibleMax(m) ==
    LET volt == IF VoltSignature(m) = LpNone THEN NominalVolt ELSE VoltSignature(m)
    IN  (11 * MaxAmps * volt * PhaseCount) \div 10

Accepted(m) == m.power >= MinWatts /\ m.power <= PlausibleMax(m)

\* smoothed_values, with alpha one half
Smoothed(old, new) == (old + new) \div 2
SmoothedVolt(p, volt) ==
    IF volt = LpNone THEN p.volt
    ELSE IF p.volt = LpNone \/ p.volt <= 0 THEN volt ELSE Smoothed(p.volt, volt)

\* sample_stability_score, combined_stability_score, adaptive_stable_seconds
SampleScore(p, power) ==
    LpGreater(0, 100 - (100 * LpAbs(power - p.power)) \div PowerTolerance)
CombinedScore(p, score) == IF p.score <= 0 THEN score ELSE (7 * p.score + 3 * score) \div 10
RequiredTicks(score) ==
    IF score >= 90 THEN LpGreater(1, StableTicks \div 2)
    ELSE IF score < 75 THEN (5 * StableTicks) \div 4
    ELSE StableTicks

StableReady(samples, span, score) ==
    /\ samples >= StableSamples
    /\ span >= RequiredTicks(score)
    /\ score >= MinStableScore

RestartsLearning(p) == p.state \in {"unknown", "stale"} \/ p.power = LpNone \/ Stale(p)

RestartedLearning(p, power, volt) ==
    [p EXCEPT !.state = "learning", !.power = power, !.age = 0, !.since = 0, !.samples = 1,
              !.phase = lpPhase, !.volt = volt, !.mismatches = 0, !.checked = FALSE,
              !.score = 100]

\* _apply_learning_progress: a sample off the estimate starts over
Progressed(p, power, volt) ==
    LET since == IF p.since = LpNone THEN 0 ELSE p.since
        samples == LpGreater(1, p.samples) + 1
        score == CombinedScore(p, SampleScore(p, power))
    IN  IF SampleScore(p, power) <= 0 THEN RestartedLearning(p, power, volt)
        ELSE IF StableReady(samples, since, score)
        THEN StablePower([p EXCEPT !.score = score, !.samples = samples],
                         Smoothed(p.power, power), 0, lpPhase, SmoothedVolt(p, volt), 0, TRUE)
        ELSE [p EXCEPT !.power = Smoothed(p.power, power), !.age = 0, !.since = since,
                       !.samples = LpLesser(samples, StableSamples + 1), !.phase = lpPhase,
                       !.volt = SmoothedVolt(p, volt), !.mismatches = 0,
                       !.checked = FALSE, !.score = score]

\* _apply_learning_sample
SampleApplied(p, power, volt) ==
    IF RestartsLearning(p) THEN RestartedLearning(p, power, volt)
    ELSE IF p.state = "stable"
    THEN [StablePower(p, Smoothed(p.power, power), 0, lpPhase, SmoothedVolt(p, volt), 0, TRUE)
            EXCEPT !.score = SampleScore(p, power)]
    ELSE Progressed(p, power, volt)

\* _learning_session_result: what happens when no sample is taken
NoSample(p, at, m) ==
    IF p.state = "learning" /\ (~(m.on /\ m.charging) \/ WindowStatus(at) = "expired")
    THEN Cleared(p) ELSE p

Updated(p, at, m) ==
    IF ~m.confirmed THEN p
    ELSE IF ~(m.on /\ m.charging) \/ WindowStatus(at) # "ready" THEN NoSample(p, at, m)
    ELSE IF ~Accepted(m) THEN [p EXCEPT !.score = 0]
    ELSE SampleApplied(p, m.power, VoltSignature(m))

(***************************************************************************)
(* The cycle and a restart                                                 *)
(***************************************************************************)
LpInit ==
    /\ profile = Cleared([score |-> 0])
    /\ session = LpNone
    /\ lpPhase \in LpPhases
    /\ lpVolt = LpNone
    /\ backed = FALSE

\* session_state_from_status: status 2 opens the session, any other closes it
SessionAfter(m) ==
    IF ~m.charging THEN LpNone ELSE IF session = LpNone THEN 0 ELSE session

\* a value checked against an earlier session has not been checked against this one
CheckedHere(p, at) == IF at = LpNone THEN [p EXCEPT !.checked = FALSE] ELSE p

\* one online cycle: time passes, then refresh, reconcile, session, update
LearnCycle(m) ==
    LET before == Reconciled(Refreshed(profile), m)
        at == SessionAfter(m)
        after == Updated(before, at, m)
    IN  /\ lpVolt' = IF m.volt > 0 THEN m.volt ELSE lpVolt
        /\ profile' = [CheckedHere(after, at) EXCEPT !.age = LpOlder(@), !.since = LpOlder(@)]
        /\ session' = IF at = LpNone THEN LpNone
                      ELSE LpLesser(at + 1, StartDelay + LearnWindow + 1)
        /\ backed' = \/ backed /\ after.state \in {"stable", "stale"}
                     \/ after.state = "stable" /\ before.state = "learning"
        /\ UNCHANGED lpPhase

\* the stored profile survives a restart, its score and the session do not; the
\* time the service was down counts for its ages
LearnRestart ==
    /\ profile' = [profile EXCEPT !.score = 0, !.checked = FALSE,
                                  !.age = LpOlder(@), !.since = LpOlder(@)]
    /\ session' = LpNone
    /\ lpVolt' = LpNone
    /\ lpPhase' \in LpPhases
    /\ UNCHANGED backed

LpNext == (\E m \in LpMeters : LearnCycle(m)) \/ LearnRestart

LpSpec == LpInit /\ [][LpNext]_lpVars

(***************************************************************************)
(* Properties                                                              *)
(***************************************************************************)
\* the stored profile is well formed, and only a value with a time can be used
LpTypeOK ==
    /\ profile.state \in {"unknown", "learning", "stable", "stale"}
    /\ (profile.power = LpNone) <=> (profile.state = "unknown")
    /\ profile.power # LpNone => profile.age # LpNone /\ profile.phase # LpNone
    /\ profile.mismatches \in 0..(MismatchSessions - 1)
    /\ profile.score \in 0..100

\* A stable learned power has passed the stability test (enough consistent
\* samples over enough time) since the estimate was last started over: no
\* restart, stale value, lost confirmation or rejected sample makes an unproven
\* estimate count as stable.
StableIsBacked == profile.state = "stable" => backed
=============================================================================
