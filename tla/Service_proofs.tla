--------------------------- MODULE Service_proofs ---------------------------
(***************************************************************************)
(* Theorems about the components of the charging service, for every value  *)
(* of their constants: the setpoint the ESS balance must undo, the grid    *)
(* value's way back to the primary source and the turns of its sources,    *)
(* the delays of the automatic decision, the answers of the control API,   *)
(* the commands that reach the charger, the lockout of the contactor, the  *)
(* test of the learned power, the state that is saved, the night of a      *)
(* scheduled boost, and the averages that are learned of the batteries.    *)
(***************************************************************************)
EXTENDS EssBalance, EnergySources, AutoDecision, ControlApi, ChargerIo, CycleHealth,
        LearnedPower, RuntimeState, ScheduledMode, EnergyLearning, TLAPS,
        SequenceTheorems, FiniteSetTheorems, WellFoundedInduction

(***************************************************************************)
(* The ESS balance: SetpointRemembered is inductive as it stands.          *)
(***************************************************************************)
\* A restore leaves the base setpoint, or the site and its memory as they were.
LEMMA RestoreRemembers ==
    ASSUME NEW s, WriteRestore(s), SetpointRemembered
    PROVE  restarted \/ site' = BaseSetpoint \/ lastSet' = site'
BY DEF WriteRestore, NotWritten, SetpointRemembered

\* A tracking write is remembered as it is made.
LEMMA TrackingRemembers ==
    ASSUME NEW s, NEW value, NEW other, WriteTracking(s, value, other), SetpointRemembered
    PROVE  restarted \/ site' = BaseSetpoint \/ lastSet' = site'
BY DEF WriteTracking, NotWritten, SetpointRemembered

\* The service remembers the setpoint it has to undo, for any sights, limits
\* and tunings (update/victron_ess_balance_apply.py:371).
THEOREM SetpointIsRemembered == EssSpec => []SetpointRemembered
<1>1. EssInit => SetpointRemembered
  BY DEF EssInit, SetpointRemembered
<1>2. SetpointRemembered /\ [EssNext]_essVars => SetpointRemembered'
  <2> SUFFICES ASSUME SetpointRemembered, [EssNext]_essVars
               PROVE  SetpointRemembered'
    OBVIOUS
  <2> USE DEF SetpointRemembered
  <2>1. ASSUME NEW s \in Sights, BlockedCycle(s)
        PROVE  SetpointRemembered'
    BY <2>1, RestoreRemembers DEF BlockedCycle, RestoreBase
  <2>2. ASSUME NEW s \in Sights, GuardedCycle(s)
        PROVE  SetpointRemembered'
    BY <2>2, RestoreRemembers DEF GuardedCycle, RestoreBase
  <2>3. ASSUME NEW s \in Sights, TrackingCycle(s)
        PROVE  SetpointRemembered'
    <3>1. restarted' = restarted
      BY <2>3 DEF TrackingCycle
    <3>2. CASE ActivationAllowed(s, ActivationMode)
      <4>1. WriteTracking(s, BaseSetpoint + PidOutput(s).out, EpisodeAfter(s))
        BY <2>3, <3>2 DEF TrackingCycle
      <4> QED BY <3>1, <4>1, TrackingRemembers
    <3>3. CASE ~ActivationAllowed(s, ActivationMode)
      <4>1. WriteRestore(s)
        BY <2>3, <3>3 DEF TrackingCycle, RestoreBase
      <4> QED BY <3>1, <4>1, RestoreRemembers
    <3> QED BY <3>2, <3>3
  <2>4. CASE DisabledEss
    BY <2>4 DEF DisabledEss
  <2>5. CASE RestartEss
    BY <2>5 DEF RestartEss
  <2>6. CASE UNCHANGED essVars
    BY <2>6 DEF essVars
  <2> QED BY <2>1, <2>2, <2>3, <2>4, <2>5, <2>6 DEF EssNext
<1> QED BY <1>1, <1>2, PTL DEF EssSpec

(***************************************************************************)
(* The balance bias keeps within its ranges.                               *)
(***************************************************************************)
Tunings == [level : Levels_, stable : Levels_ \cup {Unset}, conservative : Levels_ \cup {Unset}]
Adapts == [observe : 0..ObservationTicks, suspend : 0..(2 * ObservationTicks), applied : Nat \cup {Unset}]
Guards == [cooldown : 0..CooldownTicks, lockout : 0..LockoutTicks, safe : BOOLEAN]
Pids == [integral : -IntegralLimit..IntegralLimit, error : Int, out : Int, timed : BOOLEAN]
Setpoints == /\ site \in Int /\ lastSet \in Int \cup {Unset}
             /\ sinceWrite \in 0..MinUpdate \cup {Unset}
BiasInv ==
    /\ Setpoints /\ pid \in Pids /\ tuning \in Tunings /\ adapt \in Adapts /\ guard \in Guards

LEMMA EssConstants ==
    /\ ObservationTicks \in Nat /\ CooldownTicks \in Nat /\ LockoutTicks \in Nat /\ MinUpdate \in Nat
    /\ IntegralLimit \in Nat /\ BaseSetpoint \in Int /\ Unset \notin Int
    /\ 1 \in Levels_ /\ Levels_ \subseteq Nat
    /\ \A s \in Sights : s.error \in Int
    /\ 0 \in Int /\ 0 \in Nat /\ 0 \in -IntegralLimit..IntegralLimit
    /\ 0 \in 0..ObservationTicks /\ ObservationTicks \in 0..ObservationTicks
    /\ 0 \in 0..CooldownTicks /\ 0 \in 0..LockoutTicks
BY EssAssumption DEF EssAssumption

LEMMA BoundedRange ==
    ASSUME NEW x \in Int, NEW limit \in Nat
    PROVE  Bounded(x, limit) \in -limit..limit /\ Bounded(x, limit) \in Int
BY DEF Bounded, Greater, Lesser

\* The controller keeps its integral within the limit, whatever the gain.
LEMMA PidTyped ==
    ASSUME BiasInv, NEW s \in Sights
    PROVE  PidOutput(s) \in Pids /\ ResetIntegral(PidOutput(s)) \in Pids
<1> DEFINE e == EffectiveError(s)
           dt == IF pid.timed THEN 1 ELSE 0
           i == IF e = 0 THEN 0 ELSE Bounded(pid.integral + e * dt, IntegralLimit)
           target == IF e = 0 THEN 0 ELSE Bounded(tuning.level * e + i, MaxAbs(tuning.level))
           out == IF dt = 0 THEN target
                  ELSE pid.out + Bounded(target - pid.out, Ramp(tuning.level))
<1>1. /\ e \in Int /\ dt \in {0, 1} /\ tuning.level \in Nat /\ pid.out \in Int
      /\ pid.integral \in Int
  <2>1. e \in {0, s.error}
    BY DEF EffectiveError
  <2>2. tuning.level \in Levels_
    BY DEF BiasInv, Tunings
  <2>3. pid.out \in Int /\ pid.integral \in -IntegralLimit..IntegralLimit
    BY DEF BiasInv, Pids
  <2>4. dt \in {0, 1} /\ s.error \in Int
    BY EssConstants
  <2> HIDE DEF e, dt
  <2>5. tuning.level \in Nat
    BY <2>2, EssConstants, Zenon
  <2>6. e \in Int
    BY <2>1, <2>4
  <2>7. pid.integral \in Int
    BY <2>3
  <2> QED BY <2>3, <2>4, <2>5, <2>6, <2>7
<1> HIDE DEF e, dt
<1>2. i \in -IntegralLimit..IntegralLimit
  <2>1. pid.integral + e * dt \in Int
    BY <1>1
  <2> QED BY <2>1, EssConstants, BoundedRange
<1> HIDE DEF i
<1>3. MaxAbs(tuning.level) \in Nat /\ Ramp(tuning.level) \in Nat
  BY <1>1 DEF MaxAbs, Ramp
<1>4. i \in Int
  BY <1>2, EssConstants
<1>5. target \in Int
  <2>1. tuning.level * e + i \in Int
    BY <1>1, <1>4
  <2>2. Bounded(tuning.level * e + i, MaxAbs(tuning.level)) \in Int
    BY <2>1, <1>3, BoundedRange, Zenon
  <2> QED BY <2>2, EssConstants
<1> HIDE DEF target
<1>6. out \in Int
  <2>1. Bounded(target - pid.out, Ramp(tuning.level)) \in Int
    <3>1. target - pid.out \in Int
      BY <1>1, <1>5
    <3> QED BY <3>1, <1>3, BoundedRange, Zenon
  <2> QED BY <1>1, <1>5, <2>1
<1> HIDE DEF out
<1>7. PidOutput(s) = [integral |-> i, error |-> e, out |-> out, timed |-> TRUE]
  BY DEF PidOutput, i, e, dt, target, out
<1>8. PidOutput(s) \in Pids
  BY <1>1, <1>2, <1>6, <1>7 DEF Pids
<1>9. \A p \in Pids : ResetIntegral(p) \in Pids
  <2> TAKE p \in Pids
  <2> DEFINE q == [p EXCEPT !.integral = 0]
  <2>1. q \in Pids
    BY EssConstants DEF Pids
  <2> HIDE DEF q
  <2>2. [q EXCEPT !.out = 0] \in Pids
    BY <2>1, EssConstants DEF Pids
  <2> QED BY <2>2 DEF ResetIntegral, q
<1> QED BY <1>8, <1>9

LEMMA RestoreTyped ==
    ASSUME NEW t \in Tunings, NEW a \in Adapts
    PROVE  /\ EssRestoreTuning(t, a).tuning \in Tunings
           /\ EssRestoreTuning(t, a).adapt \in Adapts
           /\ EssRestoreTuning(t, a).safe \in BOOLEAN
<1> DEFINE b == [a EXCEPT !.observe = 0]
           age == IF a.applied = Unset THEN 0 ELSE a.applied
<1>1. b \in Adapts /\ age \in Nat
  BY EssConstants DEF Adapts
<1>2. \A c \in Adapts, n \in Nat : SuspendFrom(c, n) \in Adapts
  <2> TAKE c \in Adapts, n \in Nat
  <2>1. Greater(0, 2 * ObservationTicks - n) \in 0..(2 * ObservationTicks)
    BY EssConstants DEF Greater
  <2> QED BY <2>1 DEF SuspendFrom, Adapts
<1>3. SuspendFrom(b, age) \in Adapts
  BY <1>1, <1>2
<1> HIDE DEF b, age
<1>4. RestoreTarget(t) \in Levels_ \cup {Unset}
  BY DEF RestoreTarget, Tunings
<1>5. RestoreTarget(t) # Unset => [t EXCEPT !.level = RestoreTarget(t)] \in Tunings
  BY <1>4 DEF Tunings
<1>6. CASE RestoreTarget(t) = Unset
  BY <1>6 DEF EssRestoreTuning
<1>7. CASE RestoreTarget(t) # Unset
  BY <1>3, <1>5, <1>7 DEF EssRestoreTuning, b, age
<1> QED BY <1>6, <1>7

LEMMA RecommendedIsLevel ==
    ASSUME BiasInv, NEW p
    PROVE  Recommended(p) \in Levels_
<1> DEFINE top == Len(SetToSeq(Levels_))
<1>1. top \in Nat \ {0} /\ Levels_ = 1..top
  BY EssAssumption DEF EssAssumption
<1>2. tuning.level \in Levels_
  BY DEF BiasInv, Tunings
<1>3. Recommended(p) \in {tuning.level, Greater(1, tuning.level - 1), Lesser(top, tuning.level + 1)}
  BY DEF Recommended
<1> HIDE DEF top
<1> QED BY <1>1, <1>2, <1>3 DEF Greater, Lesser

LEMMA AppliedTyped ==
    ASSUME BiasInv, NEW t \in Tunings, NEW a \in Adapts, NEW p, NEW overshot, NEW active
    PROVE  EssAutoApply(t, a, p, overshot, active).t \in Tunings
           /\ EssAutoApply(t, a, p, overshot, active).a \in Adapts
<1> DEFINE step == [t |-> [t EXCEPT !.level = Recommended(p)],
                    a |-> [a EXCEPT !.observe = ObservationTicks, !.applied = 0]]
           back == [t |-> EssRestoreTuning(t, a).tuning, a |-> EssRestoreTuning(t, a).adapt]
<1>1. step.t \in Tunings /\ step.a \in Adapts
  <2> DEFINE b == [a EXCEPT !.observe = ObservationTicks]
  <2>1. b \in Adapts
    BY EssConstants DEF Adapts
  <2> HIDE DEF b
  <2>2. [b EXCEPT !.applied = 0] \in Adapts
    BY <2>1, EssConstants DEF Adapts
  <2>3. Recommended(p) \in Levels_
    BY RecommendedIsLevel
  <2>4. [t EXCEPT !.level = Recommended(p)] \in Tunings
    BY <2>3 DEF Tunings
  <2> QED BY <2>2, <2>4 DEF b
<1>2. back.t \in Tunings /\ back.a \in Adapts
  BY RestoreTyped
<1>3. EssAutoApply(t, a, p, overshot, active) \in {[t |-> t, a |-> a], back, step}
  BY DEF EssAutoApply
<1> HIDE DEF step, back
<1> QED BY <1>1, <1>2, <1>3

LEMMA AgesTyped ==
    ASSUME BiasInv
    PROVE  /\ AgedAdapt \in Adapts /\ AgedGuard \in Guards
           /\ \A s : GuardAfter(s) \in Guards /\ EssRefreshed(s) = tuning
           /\ \A a \in Adapts : SuspendFrom(a, 0) \in Adapts
<1>1. AgedAdapt \in Adapts
  BY EssConstants DEF AgedAdapt, Adapts, BiasInv, OneLess, OneMore, Greater, Lesser, Longest
<1>2. AgedGuard \in Guards
  <2> DEFINE c == OneLess(guard.cooldown)  l == OneLess(guard.lockout)
             g == [guard EXCEPT !.cooldown = c]
  <2>1. c \in 0..CooldownTicks /\ l \in 0..LockoutTicks /\ guard \in Guards
    BY EssConstants DEF Guards, BiasInv, OneLess, Greater
  <2>2. AgedGuard = [[guard EXCEPT !.cooldown = c] EXCEPT !.lockout = l]
    BY <2>1 DEF AgedGuard, Guards
  <2> HIDE DEF c, l
  <2>3. g \in Guards
    BY <2>1 DEF Guards
  <2> HIDE DEF g
  <2>4. [g EXCEPT !.lockout = l] \in Guards
    BY <2>1, <2>3 DEF Guards
  <2> QED BY <2>2, <2>4 DEF g
<1>3. \A s : GuardAfter(s) \in Guards
  <2> TAKE s
  <2> DEFINE g == AgedGuard
  <2>1. \A n \in 0..LockoutTicks : [g EXCEPT !.lockout = n] \in Guards
    <3> HIDE DEF g
    <3> QED BY <1>2 DEF Guards, g
  <2>2. LockoutTicks \in 0..LockoutTicks /\ AgedGuard.lockout \in 0..LockoutTicks
    BY <1>2, EssConstants DEF Guards
  <2> QED BY <2>1, <2>2 DEF GuardAfter
<1>4. \A a \in Adapts : SuspendFrom(a, 0) \in Adapts
  BY EssConstants DEF SuspendFrom, Adapts, Greater
<1> QED BY <1>1, <1>2, <1>3, <1>4 DEF EssRefreshed, MetricsConfidence

\* A write, a restore and the time that passes keep the setpoints.
LEMMA SetpointsTyped ==
    ASSUME BiasInv, NEW s
    PROVE  /\ WriteRestore(s) => Setpoints'
           /\ \A value \in Int : \A other : WriteTracking(s, value, other) => Setpoints'
<1>1. Setpoints
  BY DEF BiasInv
<1>2. NotWritten => Setpoints'
  BY <1>1, EssConstants DEF NotWritten, Setpoints, OneMore, Lesser
<1>3. site' \in Int /\ lastSet' \in Int \cup {Unset} /\ sinceWrite' = 0 => Setpoints'
  BY EssConstants DEF Setpoints
<1>4. WriteRestore(s) => Setpoints'
  BY <1>2, <1>3, EssConstants DEF WriteRestore
<1>5. \A value \in Int : \A other : WriteTracking(s, value, other) => Setpoints'
  BY <1>2, <1>3 DEF WriteTracking
<1> QED BY <1>4, <1>5

LEMMA NoPidTyped == NoPid \in Pids
BY EssConstants DEF NoPid, Pids

LEMMA RestoreBaseTyped ==
    ASSUME BiasInv, NEW s, NEW t \in Tunings, NEW a \in Adapts, RestoreBase(s, t, a)
    PROVE  Setpoints' /\ pid' \in Pids /\ tuning' \in Tunings /\ adapt' \in Adapts
BY SetpointsTyped, NoPidTyped, AppliedTyped DEF RestoreBase

\* For any errors, gains, limits and learned responses: the setpoint stays a number, the
\* integral within its limit, the tuning one of the levels, and suspension,
\* observation, cooldown and lockout never last longer than configured.
THEOREM BiasKeepsRanges == EssSpec => []EssTypeOK
<1>1. EssInit => BiasInv
  BY EssConstants, NoPidTyped DEF EssInit, BiasInv, Setpoints, Tunings, Adapts, Guards
<1>2. BiasInv /\ [EssNext]_essVars => BiasInv'
  <2> SUFFICES ASSUME BiasInv, [EssNext]_essVars PROVE BiasInv'
    OBVIOUS
  <2>0. tuning \in Tunings /\ adapt \in Adapts /\ guard \in Guards /\ Setpoints
    BY DEF BiasInv
  <2>1. ASSUME NEW s \in Sights, BlockedCycle(s) PROVE BiasInv'
    BY <2>0, <2>1, AgesTyped, RestoreBaseTyped DEF BlockedCycle, BiasInv
  <2>2. ASSUME NEW s \in Sights, GuardedCycle(s) PROVE BiasInv'
    <3> DEFINE g == GuardAfter(s)
               restored == EssRestoreTuning(EssRefreshed(s), AgedAdapt)
    <3>1. g \in Guards /\ EssRefreshed(s) = tuning /\ AgedAdapt \in Adapts
      BY AgesTyped
    <3>2. restored.tuning \in Tunings /\ restored.adapt \in Adapts /\ restored.safe \in BOOLEAN
      BY <2>0, <3>1, RestoreTyped
    <3>3. RestoreBase(s, restored.tuning, restored.adapt) /\ guard' = [g EXCEPT !.safe = @ \/ restored.safe]
      BY <2>2 DEF GuardedCycle
    <3> HIDE DEF g, restored
    <3>4. guard' \in Guards
      BY <3>1, <3>3 DEF Guards
    <3> QED BY <3>2, <3>3, <3>4, RestoreBaseTyped DEF BiasInv
  <2>3. ASSUME NEW s \in Sights, TrackingCycle(s) PROVE BiasInv'
    <3> DEFINE p == PidOutput(s)
               profiled == ProfileOf(LearnedAfter(s), ProfileKey(s))
               a == IF NewOvershoot(s) THEN SuspendFrom(AgedAdapt, 0) ELSE AgedAdapt
               applied == EssAutoApply(EssRefreshed(s), a, profiled, NewOvershoot(s), TRUE)
    <3>1. a \in Adapts /\ EssRefreshed(s) = tuning /\ AgedAdapt \in Adapts
      BY AgesTyped
    <3>2. applied.t \in Tunings /\ applied.a \in Adapts
      <4> HIDE DEF a, profiled
      <4> QED BY <2>0, <3>1, AppliedTyped
    <3>3. CASE ActivationAllowed(s, ActivationMode)
      <4>1. /\ pid' = IF NewOvershoot(s) THEN ResetIntegral(p) ELSE p
            /\ WriteTracking(s, BaseSetpoint + p.out, EpisodeAfter(s))
            /\ tuning' = applied.t /\ adapt' = applied.a
            /\ guard' = [cooldown |-> IF NewOvershoot(s) THEN CooldownTicks ELSE 0,
                         lockout |-> 0, safe |-> FALSE]
        BY <2>3, <3>3 DEF TrackingCycle
      <4>2. p \in Pids /\ ResetIntegral(p) \in Pids
        BY PidTyped
      <4> HIDE DEF p, applied
      <4>3. BaseSetpoint + p.out \in Int
        BY <4>2, EssConstants DEF Pids
      <4>4. Setpoints'
        BY <4>1, <4>3, SetpointsTyped
      <4>5. guard' \in Guards
        BY <4>1, EssConstants DEF Guards
      <4> QED BY <3>2, <4>1, <4>2, <4>4, <4>5 DEF BiasInv
    <3>4. CASE ~ActivationAllowed(s, ActivationMode)
      <4>1. /\ RestoreBase(s, tuning, AgedAdapt)
            /\ guard' = [GuardAfter(s) EXCEPT !.safe = FALSE]
        BY <2>3, <3>1, <3>4 DEF TrackingCycle
      <4>2. GuardAfter(s) \in Guards
        BY AgesTyped
      <4>3. guard' \in Guards
        BY <4>1, <4>2 DEF Guards
      <4> QED BY <2>0, <3>1, <4>1, <4>3, RestoreBaseTyped DEF BiasInv
    <3> QED BY <3>3, <3>4
  <2>4. CASE DisabledEss
    BY <2>4, NoPidTyped DEF DisabledEss, BiasInv, Setpoints
  <2>5. CASE RestartEss
    <3> DEFINE g == [guard EXCEPT !.cooldown = 0]
    <3>1. g \in Guards
      BY <2>0, EssConstants DEF Guards
    <3>2. guard' = [g EXCEPT !.lockout = 0]
      BY <2>5 DEF RestartEss
    <3> HIDE DEF g
    <3>3. guard' \in Guards
      BY <3>1, <3>2, EssConstants DEF Guards
    <3> QED BY <2>5, <3>3, NoPidTyped DEF RestartEss, BiasInv, Setpoints
  <2>6. CASE UNCHANGED essVars
    BY <2>6 DEF essVars, BiasInv, Setpoints
  <2> QED BY <2>1, <2>2, <2>3, <2>4, <2>5, <2>6 DEF EssNext
<1>3. BiasInv => EssTypeOK
  BY EssConstants DEF BiasInv, Setpoints, Pids, Tunings, Adapts, Guards, EssTypeOK, Abs
<1> QED BY <1>1, <1>2, <1>3, PTL DEF EssSpec

(***************************************************************************)
(* The energy sources: the fusion counts a recovery only while the primary *)
(* measurement is usable, and only while the backup is followed.           *)
(***************************************************************************)
LEMMA MinOfTwo ==
    ASSUME NEW a \in Int, NEW b \in Int
    PROVE  Min({a, b}) = IF a <= b THEN a ELSE b
BY DEF Min

IsFusion(f) ==
    f \in [active : {"none", "primary", "backup"}, invalid : {f.invalid}, recovery : {f.recovery},
           mismatch : {f.mismatch}, last : {f.last}]

RecoveryCounted ==
    /\ IsFusion(fusion)
    /\ sound \in 0..RecoverySamples
    /\ fusion.active = "backup" => fusion.recovery \in 0..sound
    /\ fusion.active # "backup" => fusion.recovery = 0

\* What a selection leaves of the fusion: a way back is earned by the samples.
Earned(f) ==
    /\ IsFusion(f)
    /\ f.active = "backup" => f.recovery \in 0..sound'
    /\ f.active # "backup" => f.recovery = 0
    /\ fusion.active = "backup" /\ f.active = "primary" => sound' >= RecoverySamples

SoundCounts == sound' = IF PrimaryUsable THEN Min({sound + 1, RecoverySamples}) ELSE 0

\* The count of sound samples grows by one or starts again.
LEMMA SoundSamples ==
    ASSUME EsAssumption, RecoveryCounted, SoundCounts
    PROVE  /\ sound' \in 0..RecoverySamples
           /\ PrimaryUsable /\ sound + 1 <= RecoverySamples => sound' = sound + 1
           /\ PrimaryUsable /\ sound + 1 > RecoverySamples => sound' = RecoverySamples
<1>1. RecoverySamples \in Nat \ {0} /\ sound \in Int
  BY DEF EsAssumption, RecoveryCounted
<1>2. Min({sound + 1, RecoverySamples})
        = IF sound + 1 <= RecoverySamples THEN sound + 1 ELSE RecoverySamples
  BY <1>1, MinOfTwo
<1> QED BY <1>1, <1>2 DEF RecoveryCounted, SoundCounts

\* What a selection starts from: the fusion with its last primary reading noted.
Noting(f) ==
    /\ IsFusion(f)
    /\ f.active = fusion.active /\ f.recovery = fusion.recovery

LEMMA PrimaryNoted ==
    ASSUME RecoveryCounted, NEW e
    PROVE  Noting(RecordPrimary([fusion EXCEPT !.last.age = e]))
BY DEF RecoveryCounted, IsFusion, Noting, RecordPrimary

\* What the updates of a fusion do to its fields.
LEMMA Activations ==
    ASSUME NEW f, IsFusion(f)
    PROVE  /\ IsFusion(ActivatePrimary(f)) /\ ActivatePrimary(f).active = "primary"
           /\ ActivatePrimary(f).recovery = 0
           /\ IsFusion(ActivateBackup(f)) /\ ActivateBackup(f).active = "backup"
           /\ ActivateBackup(f).recovery = 0
BY DEF IsFusion, ActivatePrimary, ActivateBackup

LEMMA Counts ==
    ASSUME NEW f, IsFusion(f), NEW n
    PROVE  /\ IsFusion([f EXCEPT !.invalid = n]) /\ [f EXCEPT !.invalid = n].active = f.active
           /\ [f EXCEPT !.invalid = n].recovery = f.recovery
           /\ IsFusion([f EXCEPT !.recovery = n]) /\ [f EXCEPT !.recovery = n].active = f.active
           /\ [f EXCEPT !.recovery = n].recovery = n
BY DEF IsFusion

\* Whatever starts a new count is earned, unless it leaves the backup.
LEMMA NothingToEarn ==
    ASSUME EsAssumption, RecoveryCounted, SoundCounts, NEW g, IsFusion(g), g.recovery = 0,
           fusion.active # "backup" \/ g.active # "primary"
    PROVE  Earned(g)
<1>1. sound' \in 0..RecoverySamples /\ RecoverySamples \in Nat
  BY SoundSamples DEF EsAssumption
<1> QED BY <1>1 DEF Earned

LEMMA InitialEarned ==
    ASSUME EsAssumption, RecoveryCounted, SoundCounts, NEW f, Noting(f), f.active = "none",
           NEW backup, NEW usable \in BOOLEAN
    PROVE  Earned(SelectInitial(f, backup, usable).fusion)
<1> DEFINE g == SelectInitial(f, backup, usable).fusion
<1>1. g = ActivatePrimary(f) \/ g = ActivateBackup(f) \/ g = f
  BY DEF SelectInitial, Selection
<1>2. fusion.active = "none" /\ f.recovery = 0 /\ IsFusion(f)
  BY DEF Noting, RecoveryCounted
<1> HIDE DEF g
<1>3. IsFusion(g) /\ g.recovery = 0
  BY <1>1, <1>2, Activations
<1>4. Earned(g)
  BY <1>2, <1>3, NothingToEarn
<1> QED BY <1>4 DEF g

LEMMA PrimaryEarned ==
    ASSUME EsAssumption, RecoveryCounted, SoundCounts, NEW f, Noting(f), f.active = "primary",
           NEW backup, NEW usable \in BOOLEAN
    PROVE  Earned(SelectWhilePrimary(f, backup, usable).fusion)
<1> DEFINE count == Min({f.invalid + 1, FailoverSamples})
           g == SelectWhilePrimary(f, backup, usable).fusion
<1>1. \/ g = [f EXCEPT !.invalid = 0]
      \/ g = [f EXCEPT !.invalid = count]
      \/ g = ActivateBackup([f EXCEPT !.invalid = count]) \/ g = ActivateBackup(f)
  BY DEF SelectWhilePrimary, Selection
<1>2. fusion.active = "primary" /\ f.recovery = 0 /\ IsFusion(f)
  BY DEF Noting, RecoveryCounted
<1> HIDE DEF g, count
<1>3. IsFusion(g) /\ g.recovery = 0
  <2> DEFINE counted == [f EXCEPT !.invalid = count]
             reset == [f EXCEPT !.invalid = 0]
  <2>1. IsFusion(counted) /\ counted.recovery = 0
    BY <1>2, Counts
  <2>2. IsFusion(reset) /\ reset.recovery = 0
    BY <1>2 DEF IsFusion
  <2>3. g = reset \/ g = counted \/ g = ActivateBackup(counted) \/ g = ActivateBackup(f)
    BY <1>1
  <2> HIDE DEF counted, reset
  <2>4. IsFusion(ActivateBackup(counted)) /\ ActivateBackup(counted).recovery = 0
    BY <2>1, Activations
  <2>5. IsFusion(ActivateBackup(f)) /\ ActivateBackup(f).recovery = 0
    BY <1>2, Activations
  <2> QED BY <2>1, <2>2, <2>3, <2>4, <2>5
<1>4. Earned(g)
  BY <1>2, <1>3, NothingToEarn
<1> QED BY <1>4 DEF g

LEMMA BackupEarned ==
    ASSUME EsAssumption, RecoveryCounted, SoundCounts, NEW f, Noting(f), f.active = "backup",
           NEW backup, NEW usable \in BOOLEAN
    PROVE  Earned(SelectWhileBackup(f, backup, usable).fusion)
<1> DEFINE counted == RecordRecovery(f)
           g == SelectWhileBackup(f, backup, usable).fusion
<1>1. /\ RecoverySamples \in Nat \ {0} /\ sound \in Int /\ fusion.recovery \in 0..sound
      /\ f.recovery = fusion.recovery /\ fusion.active = "backup" /\ IsFusion(f)
  BY DEF EsAssumption, RecoveryCounted, Noting
<1>2. /\ IsFusion(counted) /\ counted.active = "backup"
      /\ counted.recovery = IF PrimaryUsable THEN f.recovery + 1 ELSE 0
  <2> DEFINE n == IF PrimaryUsable THEN f.recovery + 1 ELSE 0
  <2>1. counted = [f EXCEPT !.recovery = n]
    BY DEF RecordRecovery
  <2> HIDE DEF n, counted
  <2>2. IsFusion(counted) /\ counted.active = "backup" /\ counted.recovery = n
    BY <1>1, <2>1 DEF Noting, IsFusion
  <2> QED BY <2>2 DEF n
<1>3. g = IF PrimaryUsable /\ counted.recovery >= RecoverySamples
          THEN ActivatePrimary(counted) ELSE counted
  BY DEF SelectWhileBackup, Selection
<1> HIDE DEF counted, g
<1>4. CASE PrimaryUsable /\ counted.recovery >= RecoverySamples
  <2>1. sound' >= RecoverySamples
    BY <1>1, <1>2, <1>4, SoundSamples
  <2>2. IsFusion(g) /\ g.active = "primary" /\ g.recovery = 0
    BY <1>2, <1>3, <1>4, Activations
  <2> QED BY <2>1, <2>2 DEF Earned, g
<1>5. CASE ~(PrimaryUsable /\ counted.recovery >= RecoverySamples)
  <2>1. counted.recovery \in 0..sound'
    <3>1. CASE PrimaryUsable
      BY <1>1, <1>2, <1>5, <3>1, SoundSamples
    <3>2. CASE ~PrimaryUsable
      <4>1. sound' = 0 /\ counted.recovery = 0
        BY <1>2, <3>2 DEF SoundCounts
      <4> QED BY <4>1
    <3> QED BY <3>1, <3>2
  <2>2. g = counted
    BY <1>3, <1>5
  <2> QED BY <1>2, <2>1, <2>2 DEF Earned, g
<1> QED BY <1>4, <1>5

\* The comparison with the backup changes the value, not the source.
LEMMA ComparedEarned ==
    ASSUME NEW chosen, Earned(chosen.fusion), NEW backup, NEW comparable
    PROVE  Earned(Compared(chosen, backup, comparable).fusion)
BY DEF Earned, IsFusion, Compared, Selection

LEMMA FusionEarned ==
    ASSUME EsAssumption, RecoveryCounted, SoundCounts, NEW gw
    PROVE  Earned(Resolved(gw).fusion)
<1> DEFINE f == RecordPrimary([fusion EXCEPT !.last.age = Min({@ + 1, LargestAge})])
           backup == Reading(gw.grid, gw.age)
           usable == BackupUsable(gw)
           chosen == CASE f.active = "none" -> SelectInitial(f, backup, usable)
                       [] f.active = "primary" -> SelectWhilePrimary(f, backup, usable)
                       [] f.active = "backup" -> SelectWhileBackup(f, backup, usable)
<1>1. Noting(f)
  BY PrimaryNoted
<1>2. usable \in BOOLEAN
  BY DEF BackupUsable
<1>3. f.active \in {"none", "primary", "backup"}
  BY <1>1 DEF Noting, IsFusion
<1>4. Resolved(gw) = Compared(chosen, backup, PrimaryUsable /\ usable)
  BY DEF Resolved
<1> HIDE DEF f, backup, usable
<1>5. Earned(chosen.fusion)
  BY <1>1, <1>2, <1>3, InitialEarned, PrimaryEarned, BackupEarned
<1> HIDE DEF chosen
<1> QED BY <1>4, <1>5, ComparedEarned

LEMMA CountKept == EsSpec => [](RecoveryCounted)
<1>1. EsInit => RecoveryCounted
  BY EsAssumption DEF EsInit, RecoveryCounted, IsFusion, EsAssumption
<1>2. RecoveryCounted /\ [EsNext]_esVars => RecoveryCounted'
  <2>1. ASSUME RecoveryCounted, EnergyCycle
        PROVE  RecoveryCounted'
    <3>1. PICK gw \in GatewayInputs : fusion' = Resolved(gw).fusion /\ SoundCounts
      BY <2>1 DEF EnergyCycle, SoundCounts
    <3>2. Earned(fusion')
      BY <2>1, <3>1, FusionEarned, EsAssumption
    <3> QED BY <2>1, <3>1, <3>2, SoundSamples, EsAssumption DEF RecoveryCounted, Earned, IsFusion
  <2>2. ASSUME RecoveryCounted, UNCHANGED esVars
        PROVE  RecoveryCounted'
    BY <2>2 DEF RecoveryCounted, IsFusion, esVars
  <2> QED BY <2>1, <2>2 DEF EsNext
<1> QED BY <1>1, <1>2, PTL DEF EsSpec

\* The grid value returns to the primary source only after so many usable
\* samples in a row, whatever the sources and the gateway say, in any number
\* of cycles (energy/grid_fusion.py).
THEOREM GridReturnIsEarned == EsSpec => GridReturnEarned
<1>1. RecoveryCounted /\ [EsNext]_esVars
        => [fusion.active = "backup" /\ fusion'.active = "primary" => sound' >= RecoverySamples]_esVars
  <2> SUFFICES ASSUME RecoveryCounted, EnergyCycle, fusion.active = "backup", fusion'.active = "primary"
               PROVE  sound' >= RecoverySamples
    BY DEF EsNext
  <2>1. PICK gw \in GatewayInputs : fusion' = Resolved(gw).fusion /\ SoundCounts
    BY DEF EnergyCycle, SoundCounts
  <2> QED BY <2>1, FusionEarned, EsAssumption DEF Earned
<1> QED BY <1>1, CountKept, PTL DEF EsSpec, GridReturnEarned

(***************************************************************************)
(* The automatic decision: a delay that runs was started by a cause that   *)
(* has been present since (DelaysHeld).                                    *)
(***************************************************************************)
LEMMA AgeFacts ==
    ASSUME AutoAssumption, NEW a \in AutoAges
    PROVE  /\ Older(a) \in AutoAges /\ (a # None => Older(a) >= a)
           /\ (Older(a) = None <=> a = None)
           /\ 0 \in AutoAges /\ None \in AutoAges /\ (a # None => a >= 0)
           /\ \A b \in AutoAges : a >= b => Older(a) >= Older(b)
BY DEF AutoAssumption, AutoAges, None, Older

\* A cause that is present lasts on.
Lasts(c) == held'[c] = IF held[c] = None THEN 0 ELSE Older(held[c])

LEMMA HeldNoted ==
    ASSUME AutoAssumption, DelaysHeld, NEW r, NEW m, NEW surplus, NEW th, Noted(r, m, surplus, th)
    PROVE  /\ held' \in [Causes -> AutoAges]
           /\ \A c \in Causes : Present(c, r, m, surplus, th) => Lasts(c)
<1>1. held' = AutoLasting(r, m, surplus, th)
  BY DEF Noted
<1>2. \A c \in Causes : held[c] \in AutoAges
  BY DEF DelaysHeld
<1>3. \A c \in Causes : AutoLasting(r, m, surplus, th)[c]
         = IF ~Present(c, r, m, surplus, th) THEN None
           ELSE IF held[c] = None THEN 0 ELSE Older(held[c])
  BY DEF AutoLasting
<1>4. \A c \in Causes : AutoLasting(r, m, surplus, th)[c] \in AutoAges
  BY <1>2, <1>3, AgeFacts DEF AutoAges, AutoAssumption, None
<1>5. AutoLasting(r, m, surplus, th) \in [Causes -> AutoAges]
  BY <1>4 DEF AutoLasting
<1> QED BY <1>1, <1>3, <1>5 DEF Lasts

Track == [start : AutoAges, stop : AutoAges, key : StopKeys]

\* The tracking the gates start from is the tracking aged, or none.
LEMMA BaseFacts ==
    ASSUME AutoAssumption, DelaysHeld
    PROVE  /\ Base \in Track /\ NoTrack \in Track
           /\ Base.start # None => track.start # None /\ Base.start = Older(track.start)
           /\ Base.stop # None => track.stop # None /\ Base.stop = Older(track.stop)
                                  /\ Base.key = track.key
<1>1. track \in Track
  BY DEF DelaysHeld, Track
<1>2. None \in AutoAges
  BY DEF AutoAges, AutoAssumption, None
<1>3. Older(track.start) \in AutoAges /\ Older(track.stop) \in AutoAges
      /\ (Older(track.start) = None <=> track.start = None)
      /\ (Older(track.stop) = None <=> track.stop = None)
  BY <1>1, AgeFacts DEF Track
<1>4. /\ Aged \in Track /\ Aged.start = Older(track.start) /\ Aged.stop = Older(track.stop)
      /\ Aged.key = track.key
  BY <1>1, <1>3 DEF Track, Aged
<1>5. NoTrack \in Track /\ NoTrack.start = None /\ NoTrack.stop = None
  BY <1>2 DEF Track, NoTrack, StopKeys
<1> QED BY <1>3, <1>4, <1>5 DEF Base

LEMMA BaseCleared ==
    ASSUME AutoAssumption, DelaysHeld
    PROVE  [Base EXCEPT !.start = None] \in Track /\ [Base EXCEPT !.stop = None] \in Track
BY BaseFacts DEF Track, AutoAges, AutoAssumption, None

(***************************************************************************)
(* What the answer of a gate must be for the invariant and the property.   *)
(***************************************************************************)
ResultHeld(res) ==
    /\ res.t \in Track /\ res.on \in BOOLEAN
    /\ res.t.start # None => held'["start"] >= res.t.start
    /\ (res.on \/ autoRelay) /\ res.t.stop # None
           => res.t.key # "none" /\ held'[CauseOf(res.t.key)] >= res.t.stop
ResultEarned(res) ==
    IF autoRelay
    THEN ~res.on => /\ MinRuntimeElapsed
                    /\ \/ \E c \in {"grid-missing", "night-lock", "policy"} : held'[c] >= AutoStopDelay
                       \/ held'["surplus"] >= Policy.surplusDelay
    ELSE res.on => \/ res.t = NoTrack
                   \/ /\ held'["start"] >= AutoStartDelay
                      /\ MinOfftimeElapsed
                      /\ ~recovery'.required

LEMMA TrackArmed ==
    ASSUME NEW A, NEW B, NEW t \in [start : A, stop : A, key : B], NEW a \in A, NEW k \in B
    PROVE  /\ [t EXCEPT !.stop = a, !.key = k] \in [start : A, stop : A, key : B]
           /\ [t EXCEPT !.stop = a, !.key = k].start = t.start
           /\ [t EXCEPT !.stop = a, !.key = k].stop = a
           /\ [t EXCEPT !.stop = a, !.key = k].key = k
OBVIOUS

\* A running relay is stopped by a cause that is present, for its whole delay.
LEMMA StopEarned ==
    ASSUME AutoAssumption, DelaysHeld, autoRelay, held' \in [Causes -> AutoAges],
           NEW key \in StopKeys, key # "none" => Lasts(CauseOf(key))
    PROVE  LET res == StopOrRun([Base EXCEPT !.start = None], key)
           IN  ResultHeld(res) /\ ResultEarned(res)
<1> DEFINE t == [Base EXCEPT !.start = None]
<1>1. /\ t \in Track /\ t.start = None /\ t.stop = Base.stop /\ t.key = Base.key
      /\ t.stop \in AutoAges
  BY BaseFacts DEF Track, AutoAges, AutoAssumption, None
<1> HIDE DEF t
<1>2. CASE ~MinRuntimeElapsed \/ key = "none"
  <2>1. /\ StopOrRun(t, key).t \in Track /\ StopOrRun(t, key).t.start = None
        /\ StopOrRun(t, key).t.stop = None /\ StopOrRun(t, key).on = TRUE
    BY <1>1, <1>2 DEF StopOrRun, Running, Track, StopKeys, AutoAges, AutoAssumption, None
  <2> QED BY <2>1 DEF ResultHeld, ResultEarned, t
<1>3. CASE MinRuntimeElapsed /\ key # "none"
  <2>1. /\ CauseOf(key) \in Causes /\ held[CauseOf(key)] \in AutoAges
        /\ held'[CauseOf(key)] \in AutoAges /\ Lasts(CauseOf(key))
    BY <1>3 DEF CauseOf, StopKeys, Causes, DelaysHeld
  <2>2. held'[CauseOf(key)] >= 0
    BY <2>1, AgeFacts DEF Lasts
  <2>3. StopOrRun(t, key) = Stopping(t, key, StopDelayOf(key))
    BY <1>3 DEF StopOrRun
  <2>4. CASE NeedsReset(t, key)
    <3>1. /\ Stopping(t, key, StopDelayOf(key)).t = [t EXCEPT !.stop = 0, !.key = key]
          /\ Stopping(t, key, StopDelayOf(key)).on = TRUE
      BY <2>4 DEF Stopping
    <3>2. /\ [t EXCEPT !.stop = 0, !.key = key] \in Track
          /\ [t EXCEPT !.stop = 0, !.key = key].start = None
          /\ [t EXCEPT !.stop = 0, !.key = key].stop = 0
          /\ [t EXCEPT !.stop = 0, !.key = key].key = key
      <4>1. 0 \in AutoAges
        BY DEF AutoAges, AutoAssumption, None
      <4>2. t \in [start : AutoAges, stop : AutoAges, key : StopKeys] /\ t.start = None
        BY <1>1 DEF Track
      <4> QED BY <4>1, <4>2, TrackArmed DEF Track
    <3>3. ResultHeld(StopOrRun(t, key)) /\ ResultEarned(StopOrRun(t, key))
      BY <1>3, <2>2, <2>3, <3>1, <3>2 DEF ResultHeld, ResultEarned
    <3> QED BY <3>3 DEF t
  <2>5. CASE ~NeedsReset(t, key)
    <3>1. t.stop # None /\ (t.key = "none" \/ t.key = key)
      BY <2>5 DEF NeedsReset
    <3>2. track.stop # None /\ t.stop = Older(track.stop) /\ t.key = track.key
      BY <1>1, <3>1, BaseFacts
    <3>3. t.key = key /\ held[CauseOf(key)] >= track.stop
      BY <3>1, <3>2 DEF DelaysHeld
    <3>4. held'[CauseOf(key)] >= t.stop
      <4>1. track.stop \in AutoAges
        BY DEF DelaysHeld
      <4>2. held[CauseOf(key)] # None
        BY <2>1, <3>2, <3>3, <4>1 DEF AutoAges, None, AutoAssumption
      <4> QED BY <2>1, <3>2, <3>3, <4>1, <4>2, AgeFacts DEF Lasts
    <3>5. /\ Stopping(t, key, StopDelayOf(key)).t = [t EXCEPT !.key = key]
          /\ Stopping(t, key, StopDelayOf(key)).on = (t.stop < StopDelayOf(key))
      BY <2>5 DEF Stopping
    <3>6. /\ [t EXCEPT !.key = key] \in Track /\ [t EXCEPT !.key = key].start = None
          /\ [t EXCEPT !.key = key].stop = t.stop /\ [t EXCEPT !.key = key].key = key
      BY <1>1 DEF Track
    <3>7. ResultHeld(StopOrRun(t, key))
      BY <1>3, <2>3, <3>4, <3>5, <3>6 DEF ResultHeld
    <3>8. ~(t.stop < StopDelayOf(key)) => held'[CauseOf(key)] >= StopDelayOf(key)
      <4>1. StopDelayOf(key) \in Int
        BY DEF StopDelayOf, AutoAssumption
      <4>2. t.stop \in Int /\ held'[CauseOf(key)] \in Int
        BY <1>1, <2>1 DEF AutoAges, None, AutoAssumption
      <4> QED BY <3>4, <4>1, <4>2
    <3>9. ResultEarned(StopOrRun(t, key))
      BY <1>3, <2>3, <3>5, <3>8 DEF ResultEarned, CauseOf, StopDelayOf, StopKeys
    <3> QED BY <3>7, <3>9 DEF t
  <2> QED BY <2>4, <2>5
<1> QED BY <1>2, <1>3

\* A resting relay that must not start keeps resting.
LEMMA IdleEarned ==
    ASSUME AutoAssumption, DelaysHeld, ~autoRelay, NEW t \in Track
    PROVE  ResultHeld(IdleResult(t)) /\ ResultEarned(IdleResult(t))
<1>1. [t EXCEPT !.start = None] \in Track /\ [t EXCEPT !.start = None].start = None
  BY DEF Track, AutoAges, AutoAssumption, None
<1> QED BY <1>1 DEF IdleResult, ResultHeld, ResultEarned

\* It starts after its conditions have held throughout the delay.
LEMMA StartEarned ==
    ASSUME AutoAssumption, DelaysHeld, ~autoRelay, held' \in [Causes -> AutoAges], Lasts("start"),
           MinOfftimeElapsed, ~recovery'.required
    PROVE  LET res == Starting([Base EXCEPT !.stop = None])
           IN  ResultHeld(res) /\ ResultEarned(res)
<1> DEFINE t == [Base EXCEPT !.stop = None]
<1>1. /\ t \in Track /\ t.stop = None /\ t.start = Base.start /\ t.start \in AutoAges
  BY BaseFacts DEF Track, AutoAges, AutoAssumption, None
<1>2. /\ held["start"] \in AutoAges /\ held'["start"] \in AutoAges
  BY DEF DelaysHeld, Causes
<1> HIDE DEF t
<1>3. CASE t.start = None
  <2>1. /\ [t EXCEPT !.start = 0] \in Track /\ [t EXCEPT !.start = 0].start = 0
        /\ [t EXCEPT !.start = 0].stop = None
    BY <1>1 DEF Track, AutoAges, AutoAssumption, None
  <2>2. held'["start"] >= 0
    BY <1>2, AgeFacts DEF Lasts
  <2> QED BY <1>3, <2>1, <2>2 DEF Starting, ResultHeld, ResultEarned, t
<1>4. CASE t.start # None
  <2>1. track.start # None /\ t.start = Older(track.start) /\ track.start \in AutoAges
    BY <1>1, <1>4, BaseFacts DEF DelaysHeld
  <2>2. held["start"] >= track.start /\ held["start"] # None
    BY <1>2, <2>1 DEF DelaysHeld, AutoAges, None, AutoAssumption
  <2>3. held'["start"] >= t.start
    BY <1>2, <2>1, <2>2, AgeFacts DEF Lasts
  <2>4. t.start >= AutoStartDelay => held'["start"] >= AutoStartDelay
    BY <1>1, <1>2, <2>3 DEF AutoAges, None, AutoAssumption
  <2>5. /\ Starting(t).t = t /\ Starting(t).on \in BOOLEAN
        /\ Starting(t).on => t.start >= AutoStartDelay
    <3>1. Starting(t) = [t |-> t, on |-> t.start >= AutoStartDelay]
      BY <1>4 DEF Starting
    <3>2. (t.start >= AutoStartDelay) \in BOOLEAN
      BY <1>1 DEF AutoAges, None, AutoAssumption
    <3> DEFINE elapsed == t.start >= AutoStartDelay
    <3>3. elapsed \in BOOLEAN /\ (elapsed => t.start >= AutoStartDelay) /\ Starting(t) = [t |-> t, on |-> elapsed]
      BY <3>1, <3>2
    <3> HIDE DEF elapsed
    <3> QED BY <3>3
  <2>6. ResultHeld(Starting(t))
    <3> DEFINE res == Starting(t)
    <3>1. res.t = t /\ res.on \in BOOLEAN
      BY <2>5
    <3>2. res.t.stop = None /\ res.t \in Track /\ res.t.start = t.start
      BY <1>1, <3>1
    <3> HIDE DEF res
    <3>3. ResultHeld(res)
      BY <2>3, <3>1, <3>2 DEF ResultHeld
    <3> QED BY <3>3 DEF res
  <2>7. ResultEarned(Starting(t))
    BY <2>4, <2>5 DEF ResultEarned
  <2> QED BY <2>6, <2>7 DEF t
<1> QED BY <1>3, <1>4

\* What an answer leaves, whether or not its command takes effect.
LEMMA AnswerKept ==
    ASSUME DelaysHeld, held' \in [Causes -> AutoAges], NEW res, ResultHeld(res), ResultEarned(res),
           Answer(res), autoMode' = autoMode, AutoLogic
    PROVE  DelaysHeld' /\ (autoRelay' # autoRelay => ResultEarned(res) /\ track' = res.t /\ autoRelay' = res.on)
<1>1. track' = res.t /\ (autoRelay' = res.on \/ autoRelay' = autoRelay)
  BY DEF Answer, Apply
<1>2. autoRelay' \in BOOLEAN /\ (autoRelay' => res.on \/ autoRelay)
  BY <1>1 DEF ResultHeld, DelaysHeld
<1>3. DelaysHeld'
  BY <1>1, <1>2 DEF DelaysHeld, ResultHeld, Track, AutoLogic
<1> QED BY <1>1, <1>3

\* A gate that resets the tracking leaves nothing that runs.
LEMMA ResetKept ==
    ASSUME AutoAssumption, DelaysHeld, held' \in [Causes -> AutoAges], ResetAuto, autoRelay' \in BOOLEAN
    PROVE  DelaysHeld'
BY BaseFacts DEF DelaysHeld, ResetAuto, NoTrack, Track

\* What the property asks of a step.
StepEarned ==
    Decides => IF autoRelay
               THEN /\ MinRuntimeElapsed
                    /\ \/ \E c \in {"grid-missing", "night-lock", "policy"} : held'[c] >= AutoStopDelay
                       \/ held'["surplus"] >= Policy.surplusDelay
               ELSE \/ track' = NoTrack
                    \/ /\ held'["start"] >= AutoStartDelay
                       /\ MinOfftimeElapsed
                       /\ ~recovery'.required

LEMMA AnswerEarned ==
    ASSUME AutoAssumption, DelaysHeld, held' \in [Causes -> AutoAges], NEW res, ResultHeld(res),
           ResultEarned(res), Answer(res), autoMode' = autoMode, AutoLogic
    PROVE  DelaysHeld' /\ StepEarned
<1>1. DelaysHeld' /\ (autoRelay' # autoRelay => ResultEarned(res) /\ track' = res.t /\ autoRelay' = res.on)
  BY AnswerKept
<1>2. CASE autoRelay' = autoRelay
  BY <1>1, <1>2 DEF StepEarned, Decides
<1>3. CASE autoRelay' # autoRelay
  BY <1>1, <1>3 DEF StepEarned, ResultEarned, ResultHeld, DelaysHeld
<1> QED BY <1>2, <1>3

LEMMA CycleEarned ==
    ASSUME AutoAssumption, DelaysHeld, NEW r, AutoCycle(r)
    PROVE  DelaysHeld' /\ StepEarned
<1>0. autoMode' = autoMode /\ held' \in [Causes -> AutoAges]
  BY HeldNoted DEF AutoCycle, NonAutoCycle, DisabledCycle, CutoverCycle, GridMissingCycle, RecoveryCycle,
     ScheduledNightCycle, SocMissingCycle, InputsMissingCycle, DecisionCycle, Kept, NotAveraged
<1>1. CASE NonAutoCycle(r)
  <2>1. ResetAuto /\ autoRelay' = autoRelay
    BY <1>1 DEF NonAutoCycle, Apply
  <2> QED BY <1>0, <2>1, ResetKept DEF StepEarned, Decides, DelaysHeld
<1>2. CASE DisabledCycle(r)
  <2>1. ResetAuto /\ autoRelay' \in {FALSE, autoRelay} /\ ~permitted.enabled
    BY <1>2 DEF DisabledCycle, Apply
  <2> QED BY <1>0, <2>1, ResetKept DEF StepEarned, Decides, DelaysHeld
<1>3. CASE CutoverCycle(r)
  <2>1. ResetAuto /\ autoRelay' \in {FALSE, autoRelay} /\ cutover.pending
    BY <1>3 DEF CutoverCycle, Apply
  <2> QED BY <1>0, <2>1, ResetKept DEF StepEarned, Decides, DelaysHeld
<1>4. CASE GridMissingCycle(r)
  <2> DEFINE t == [Base EXCEPT !.start = None]
  <2>1. AutoLogic /\ Lasts("grid-missing")
    BY <1>4, HeldNoted DEF GridMissingCycle, PastCutover, NotAveraged, Present, Causes
  <2>2. CASE autoRelay
    <3>1. Answer(StopOrRun(t, "grid-missing"))
      BY <1>4, <2>2 DEF GridMissingCycle
    <3>2. "grid-missing" \in StopKeys /\ CauseOf("grid-missing") = "grid-missing"
      BY DEF StopKeys, CauseOf
    <3> QED BY <1>0, <2>1, <2>2, <3>1, <3>2, StopEarned, AnswerEarned
  <2>3. CASE ~autoRelay
    <3>1. Answer(IdleResult(t)) /\ t \in Track
      BY <1>4, <2>3, BaseCleared DEF GridMissingCycle
    <3> QED BY <1>0, <2>1, <2>3, <3>1, IdleEarned, AnswerEarned
  <2> QED BY <2>2, <2>3
<1>5. CASE RecoveryCycle(r)
  <2>1. AutoLogic /\ ~autoRelay /\ Answer(IdleResult(Base))
    BY <1>5 DEF RecoveryCycle, PastGrid, PastCutover
  <2> QED BY <1>0, <2>1, BaseFacts, IdleEarned, AnswerEarned
<1>6. CASE ScheduledNightCycle(r)
  <2>1. AutoLogic
    BY <1>6 DEF ScheduledNightCycle, PastCutover
  <2>2. CASE Warming \/ Overridden
    <3>1. ResetAuto /\ autoRelay' = autoRelay
      BY <1>6, <2>2 DEF ScheduledNightCycle, Apply
    <3> QED BY <1>0, <3>1, ResetKept DEF StepEarned, Decides, DelaysHeld
  <2>3. CASE ~(Warming \/ Overridden) /\ ~autoRelay /\ (~permitted.autostart \/ ~MinOfftimeElapsed)
    <3>1. Answer(IdleResult(Base))
      BY <1>6, <2>3 DEF ScheduledNightCycle
    <3> QED BY <1>0, <2>1, <2>3, <3>1, BaseFacts, IdleEarned, AnswerEarned
  <2>4. CASE ~(Warming \/ Overridden) /\ ~(~autoRelay /\ (~permitted.autostart \/ ~MinOfftimeElapsed))
    <3> DEFINE on == [t |-> NoTrack, on |-> TRUE]
    <3>1. Answer(on)
      BY <1>6, <2>4 DEF ScheduledNightCycle
    <3>2. ResultHeld(on) /\ ResultEarned(on)
      BY BaseFacts DEF ResultHeld, ResultEarned, NoTrack
    <3> HIDE DEF on
    <3> QED BY <1>0, <2>1, <3>1, <3>2, AnswerEarned
  <2> QED BY <2>2, <2>3, <2>4
<1>7. CASE SocMissingCycle(r)
  <2>1. ResetAuto /\ autoRelay' = autoRelay
    BY <1>7 DEF SocMissingCycle, Apply
  <2> QED BY <1>0, <2>1, ResetKept DEF StepEarned, Decides, DelaysHeld
<1>8. CASE InputsMissingCycle(r)
  <2> DEFINE t == [Base EXCEPT !.start = None]
             key == MissingInputsReason(r, SocOf(r))
  <2>1. AutoLogic /\ (r.pv = None \/ r.grid = None)
    BY <1>8 DEF InputsMissingCycle, PastRecovery, PastGrid, PastCutover
  <2>2. CASE autoRelay
    <3>1. Answer(StopOrRun(t, key))
      BY <1>8, <2>2 DEF InputsMissingCycle
    <3>2. NotAveraged(r)
      BY <1>8 DEF InputsMissingCycle
    <3>3. key \in StopKeys /\ key \in {"none", "night-lock", "auto-stop"}
      BY DEF StopKeys, MissingInputsReason
    <3>4. CASE key = "night-lock"
      <4>1. ~r.day \/ NightLockStop
        BY <3>4 DEF MissingInputsReason
      <4>2. Lasts("night-lock") /\ CauseOf(key) = "night-lock"
        BY <2>1, <3>2, <3>4, <4>1, HeldNoted DEF NotAveraged, Present, Causes, CauseOf
      <4> HIDE DEF t, key
      <4> QED BY <1>0, <2>1, <2>2, <3>1, <3>3, <4>2, StopEarned, AnswerEarned DEF t
    <3>5. CASE key = "auto-stop"
      <4>1. SocOf(r) < Policy.minSoc \/ r.grid >= Policy.stopImport
        BY <3>5 DEF MissingInputsReason
      <4>2. Lasts("policy") /\ CauseOf(key) = "policy"
        BY <3>2, <3>5, <4>1, HeldNoted DEF NotAveraged, Present, Causes, CauseOf
      <4> HIDE DEF t, key
      <4> QED BY <1>0, <2>1, <2>2, <3>1, <3>3, <4>2, StopEarned, AnswerEarned DEF t
    <3>6. CASE key = "none"
      <4> HIDE DEF t, key
      <4> QED BY <1>0, <2>1, <2>2, <3>1, <3>3, <3>6, StopEarned, AnswerEarned DEF t
    <3> QED BY <3>3, <3>4, <3>5, <3>6
  <2>3. CASE ~autoRelay
    <3>1. Answer(IdleResult(t)) /\ t \in Track
      BY <1>8, <2>3, BaseCleared DEF InputsMissingCycle
    <3> QED BY <1>0, <2>1, <2>3, <3>1, IdleEarned, AnswerEarned
  <2> QED BY <2>2, <2>3
<1>9. CASE DecisionCycle(r)
  <2> DEFINE w == AddSample(BaseWindow, AvailableSurplus(r.pv, r.grid), r.grid)
             m == SmoothedMetrics(w)
             p == ProfileFor(SocOf(r))
             surplus == DecisionSurplus(m, r, p.priority)
             th == Thresholds(p.high, r)
             t == [Base EXCEPT !.stop = None]
  <2>1. AutoLogic /\ r.pv # None /\ r.grid # None /\ (RecoveryWaits => autoRelay)
    BY <1>9 DEF DecisionCycle, PastInputs, PastRecovery, PastGrid, PastCutover
  <2>2. Noted(r, m, surplus, th)
    BY <1>9 DEF DecisionCycle
  <2>3. CASE Warming \/ Overridden
    <3>1. ResetAuto /\ autoRelay' = autoRelay
      BY <1>9, <2>3 DEF DecisionCycle, Apply
    <3> QED BY <1>0, <3>1, ResetKept DEF StepEarned, Decides, DelaysHeld
  <2>4. CASE ~(Warming \/ Overridden) /\ autoRelay
    <3> DEFINE key == RelayOnReason(r, SocOf(r), surplus, m[2], th.stop)
               u == [Base EXCEPT !.start = None]
    <3>1. Answer(StopOrRun(u, key))
      BY <1>9, <2>4 DEF DecisionCycle
    <3>2. key \in {"none", "night-lock", "auto-stop-soc", "auto-stop-grid", "auto-stop-surplus"}
      BY DEF RelayOnReason
    <3>3. /\ key = "night-lock" => Present("night-lock", r, m, surplus, th)
          /\ key \in {"auto-stop-soc", "auto-stop-grid"} => Present("policy", r, m, surplus, th)
          /\ key = "auto-stop-surplus" => Present("surplus", r, m, surplus, th)
      <4> HIDE DEF m, th, surplus
      <4> QED BY <2>1 DEF RelayOnReason, Present
    <3>4. /\ key = "night-lock" => CauseOf(key) = "night-lock"
          /\ key \in {"auto-stop-soc", "auto-stop-grid"} => CauseOf(key) = "policy"
          /\ key = "auto-stop-surplus" => CauseOf(key) = "surplus"
          /\ key \in StopKeys
      <4> HIDE DEF key
      <4> QED BY <3>2 DEF CauseOf, StopKeys
    <3> HIDE DEF key, u, m, th, surplus
    <3>5. key # "none" => Lasts(CauseOf(key))
      BY <2>2, <3>2, <3>3, <3>4, HeldNoted DEF Causes
    <3> QED BY <1>0, <2>1, <2>4, <3>1, <3>4, <3>5, StopEarned, AnswerEarned DEF u
  <2>5. CASE /\ ~(Warming \/ Overridden) /\ ~autoRelay /\ permitted.autostart
             /\ StartConditions(r, SocOf(r), surplus, m[2], th.start)
    <3>1. Answer(Starting(t))
      BY <1>9, <2>5 DEF DecisionCycle
    <3>2. MinOfftimeElapsed /\ Present("start", r, m, surplus, th)
      <4> HIDE DEF m, th, surplus
      <4> QED BY <2>1, <2>5 DEF StartConditions, Present
    <3>3. ~recovery'.required
      BY <1>9, <2>1, <2>5 DEF DecisionCycle, RecoveryAfter
    <3> HIDE DEF t, m, th, surplus
    <3>4. Lasts("start")
      BY <2>2, <3>2, HeldNoted DEF Causes
    <3> QED BY <1>0, <2>1, <2>5, <3>1, <3>2, <3>3, <3>4, StartEarned, AnswerEarned DEF t
  <2>6. CASE /\ ~(Warming \/ Overridden) /\ ~autoRelay
             /\ ~(permitted.autostart /\ StartConditions(r, SocOf(r), surplus, m[2], th.start))
    <3>1. Answer(IdleResult(t)) /\ t \in Track
      BY <1>9, <2>6, BaseCleared DEF DecisionCycle
    <3> QED BY <1>0, <2>1, <2>6, <3>1, IdleEarned, AnswerEarned
  <2> QED BY <2>3, <2>4, <2>5, <2>6
<1> QED BY <1>1, <1>2, <1>3, <1>4, <1>5, <1>6, <1>7, <1>8, <1>9 DEF AutoCycle

LEMMA UserWriteKept ==
    ASSUME AutoAssumption, DelaysHeld,
           (\E m \in {"manual", "auto", "scheduled"} : SetMode(m)) \/ ManualSwitch \/ SetPermitted
    PROVE  DelaysHeld' /\ StepEarned
<1>1. CASE \E m \in {"manual", "auto", "scheduled"} : SetMode(m)
  <2>1. /\ track' = [track EXCEPT !.start = None, !.stop = None] /\ autoMode' # autoMode
        /\ UNCHANGED <<autoRelay, held>>
    BY <1>1 DEF SetMode
  <2>2. /\ [track EXCEPT !.start = None, !.stop = None] \in Track
        /\ [track EXCEPT !.start = None, !.stop = None].start = None
        /\ [track EXCEPT !.start = None, !.stop = None].stop = None
    <3>1. track \in Track /\ None \in AutoAges
      BY DEF DelaysHeld, Track, AutoAges, AutoAssumption, None
    <3> QED BY <3>1 DEF Track
  <2> DEFINE t == [track EXCEPT !.start = None, !.stop = None]
  <2>3. t \in Track /\ t.start = None /\ t.stop = None /\ track' = t
    BY <2>1, <2>2
  <2> HIDE DEF t
  <2>4. DelaysHeld'
    BY <2>1, <2>3 DEF DelaysHeld, Track
  <2> QED BY <2>1, <2>4 DEF StepEarned, Decides
<1>2. CASE ManualSwitch
  <2>1. ~AutoLogic /\ autoRelay' = ~autoRelay /\ UNCHANGED <<autoMode, track, held>>
    BY <1>2 DEF ManualSwitch
  <2> QED BY <2>1 DEF DelaysHeld, StepEarned, Decides, AutoLogic
<1>3. CASE SetPermitted
  BY <1>3 DEF SetPermitted, DelaysHeld, StepEarned, Decides
<1> QED BY <1>1, <1>2, <1>3

LEMMA AutoStep ==
    ASSUME DelaysHeld, [AutoNext]_autoVars
    PROVE  DelaysHeld' /\ [StepEarned]_autoVars
<1>1. ASSUME NEW r \in Readings, AutoCycle(r)
      PROVE  DelaysHeld' /\ StepEarned
  BY <1>1, CycleEarned, AutoAssumption
<1>2. CASE UNCHANGED autoVars
  BY <1>2 DEF autoVars, DelaysHeld
<1> QED BY <1>1, <1>2, UserWriteKept, AutoAssumption DEF AutoNext

\* The ages the decision trusts are never older than their causes, for any
\* readings, policy and delays (auto/logic_gates_runtime.py).
THEOREM DelaysAreHeld == AutoSpec => []DelaysHeld
<1>1. AutoInit => DelaysHeld
  <2> SUFFICES ASSUME AutoInit
               PROVE  DelaysHeld
    OBVIOUS
  <2>1. None \in AutoAges
    BY AutoAssumption DEF AutoAges, None, AutoAssumption
  <2>2. track = NoTrack /\ autoRelay = FALSE /\ autoMode = "auto" /\ held = [c \in Causes |-> None]
    BY DEF AutoInit
  <2>3. track \in Track /\ track.start = None /\ track.stop = None
    BY <2>1, <2>2 DEF NoTrack, Track, StopKeys
  <2>4. held \in [Causes -> AutoAges]
    BY <2>1, <2>2
  <2> QED BY <2>2, <2>3, <2>4 DEF DelaysHeld, Track
<1>2. DelaysHeld /\ [AutoNext]_autoVars => DelaysHeld'
  BY AutoStep
<1> QED BY <1>1, <1>2, PTL DEF AutoSpec

\* No start and no stop of the relay in Auto mode comes before its delay.
THEOREM SwitchesAreEarned == AutoSpec => SwitchesEarned
<1>1. DelaysHeld /\ [AutoNext]_autoVars => [StepEarned]_autoVars
  BY AutoStep
<1>2. AutoSpec => [][StepEarned]_autoVars
  BY <1>1, DelaysAreHeld, PTL DEF AutoSpec
<1> QED BY <1>2 DEF SwitchesEarned, StepEarned

(***************************************************************************)
(* The control API: the idempotency store as a sequence of entries.        *)
(***************************************************************************)
Entries == [key : Keys \cup {NoKey}, body : {post.body : post \in Posts}]

\* A store holds one entry per key.
Distinct(s) == \A i, j \in DOMAIN s : s[i].key = s[j].key => i = j
Stores == {s \in Seq(Entries) : Distinct(s)}

LEMMA RemoveAtFacts ==
    ASSUME NEW S, NEW s \in Seq(S), NEW i \in 1 .. Len(s)
    PROVE  /\ RemoveAt(s, i) \in Seq(S)
           /\ Len(RemoveAt(s, i)) = Len(s) - 1
           /\ \A j \in 1 .. Len(s) - 1 :
                 RemoveAt(s, i)[j] = IF j < i THEN s[j] ELSE s[j + 1]
<1>. DEFINE a == SubSeq(s, 1, i - 1)
            b == SubSeq(s, i + 1, Len(s))
<1>1. a \in Seq(S) /\ Len(a) = i - 1 /\ \A j \in 1 .. i - 1 : a[j] = s[j]
  BY SubSeqProperties
<1>2. b \in Seq(S) /\ Len(b) = Len(s) - i /\ \A j \in 1 .. Len(s) - i : b[j] = s[i + j]
  BY SubSeqProperties
<1>3. RemoveAt(s, i) = a \o b
  BY DEF RemoveAt
<1>. HIDE DEF a, b
<1>4. a \o b \in Seq(S) /\ Len(a \o b) = Len(s) - 1
  <2>1. a \o b \in Seq(S) /\ Len(a \o b) = Len(a) + Len(b)
    BY <1>1, <1>2, ConcatProperties
  <2>. QED
    BY <2>1, <1>1, <1>2
<1>5. ASSUME NEW j \in 1 .. Len(s) - 1
      PROVE  (a \o b)[j] = IF j < i THEN s[j] ELSE s[j + 1]
  <2>0. j \in 1 .. Len(a) + Len(b)
    BY <1>1, <1>2
  <2>1. (a \o b)[j] = IF j <= Len(a) THEN a[j] ELSE b[j - Len(a)]
    BY <1>1, <1>2, <2>0, ConcatProperties
  <2>2. CASE j < i
    BY <2>1, <2>2, <1>1
  <2>3. CASE j >= i
    <3>1. (a \o b)[j] = b[j - (i - 1)]
      BY <2>1, <2>3, <1>1
    <3>2. j - (i - 1) \in 1 .. Len(s) - i
      BY <2>3
    <3>3. b[j - (i - 1)] = s[i + (j - (i - 1))]
      BY <1>2, <3>2
    <3>4. i + (j - (i - 1)) = j + 1
      OBVIOUS
    <3>. QED
      BY <3>1, <3>3, <3>4, <2>3
  <2>4. j < i \/ j >= i
    OBVIOUS
  <2>. QED
    BY <2>2, <2>3, <2>4
<1>. QED
  BY <1>3, <1>4, <1>5

LEMMA KeyFacts ==
    ASSUME ApiConstants
    PROVE  HistoryLimit \in Nat \ {0} /\ \A e \in Entries : e.key \in Int
<1>1. HistoryLimit \in Nat \ {0} /\ Keys \subseteq Nat \ {0}
  BY DEF ApiConstants
<1>2. Keys \cup {NoKey} \subseteq Int
  BY <1>1 DEF NoKey
<1>3. \A e \in Entries : e.key \in Keys \cup {NoKey}
  BY DEF Entries
<1> QED BY <1>1, <1>2, <1>3

LEMMA IntervalFacts ==
    ASSUME NEW n \in Nat
    PROVE  /\ IsFiniteSet(1 .. n) /\ Cardinality(1 .. n) = n
           /\ IsFiniteSet(0 .. n - 1) /\ Cardinality(0 .. n - 1) = n
<1>1. \A a, b \in Int :
        /\ IsFiniteSet(a .. b)
        /\ Cardinality(a .. b) = IF a > b THEN 0 ELSE b - a + 1
  BY FS_Interval
<1>2. IsFiniteSet(1 .. n) /\ Cardinality(1 .. n) = IF 1 > n THEN 0 ELSE n - 1 + 1
  BY <1>1
<1>3. IsFiniteSet(0 .. n - 1) /\ Cardinality(0 .. n - 1) = IF 0 > n - 1 THEN 0 ELSE n - 1 - 0 + 1
  <2>1. n - 1 \in Int /\ 0 \in Int
    OBVIOUS
  <2> QED BY <1>1, <2>1
<1> QED BY <1>2, <1>3

\* The keys of a part of a sequence that leaves out nothing but one position.
LEMMA WithoutFacts ==
    ASSUME NEW s \in Stores, NEW k
    PROVE  /\ Without(s, k) \in Stores /\ Len(Without(s, k)) <= Len(s)
           /\ k \in KeysOf(s) => Len(Without(s, k)) = Len(s) - 1
           /\ KeysOf(s) \ {k} = KeysOf(Without(s, k))
<1>0. DOMAIN s = 1 .. Len(s) /\ Len(s) \in Nat /\ s \in Seq(Entries) /\ Distinct(s)
  BY DEF Stores
<1>1. CASE \E i \in DOMAIN s : s[i].key = k
  <2> DEFINE i == CHOOSE j \in DOMAIN s : s[j].key = k
             t == RemoveAt(s, i)
  <2>1. i \in 1 .. Len(s) /\ s[i].key = k
    BY <1>0, <1>1
  <2>2. Without(s, k) = t
    BY <1>1 DEF Without
  <2> HIDE DEF i
  <2>3. /\ t \in Seq(Entries) /\ Len(t) = Len(s) - 1
        /\ \A j \in 1 .. Len(s) - 1 : t[j] = IF j < i THEN s[j] ELSE s[j + 1]
    BY <1>0, <2>1, RemoveAtFacts
  <2> HIDE DEF t
  <2>4. DOMAIN t = 1 .. Len(s) - 1
    BY <1>0, <2>3
  <2>5. ASSUME NEW j \in DOMAIN s, s[j].key # k
        PROVE  s[j].key \in KeysOf(t)
    <3>1. j # i
      BY <2>1, <2>5
    <3>2. CASE j < i
      <4>1. j \in DOMAIN t /\ t[j] = s[j]
        BY <1>0, <2>1, <2>3, <2>4, <3>2
      <4> QED BY <4>1 DEF KeysOf
    <3>3. CASE j > i
      <4>1. j - 1 \in DOMAIN t /\ t[j - 1] = s[j]
        BY <1>0, <2>1, <2>3, <2>4, <3>3
      <4> QED BY <4>1 DEF KeysOf
    <3> QED BY <1>0, <2>1, <3>1, <3>2, <3>3
  <2>6. KeysOf(s) \ {k} \subseteq KeysOf(t)
    BY <2>5 DEF KeysOf
  <2> DEFINE from(j) == IF j < i THEN j ELSE j + 1
  <2>7. \A j \in DOMAIN t : from(j) \in DOMAIN s /\ from(j) # i /\ t[j] = s[from(j)]
    BY <1>0, <2>1, <2>3, <2>4
  <2>8. \A j, n \in DOMAIN t : from(j) = from(n) => j = n
    BY <1>0, <2>1, <2>4
  <2> HIDE DEF from
  <2>9. \A j \in DOMAIN t : t[j].key # k
    BY <1>0, <2>1, <2>7 DEF Distinct
  <2>10. KeysOf(t) \subseteq KeysOf(s) \ {k}
    BY <2>7, <2>9 DEF KeysOf
  <2>11. Distinct(t)
    BY <1>0, <2>7, <2>8 DEF Distinct
  <2> QED BY <1>0, <2>2, <2>3, <2>6, <2>10, <2>11 DEF Stores
<1>2. CASE ~\E i \in DOMAIN s : s[i].key = k
  <2>1. Without(s, k) = s
    BY <1>2 DEF Without
  <2>2. k \notin KeysOf(s)
    BY <1>2 DEF KeysOf
  <2>3. KeysOf(s) \ {k} = KeysOf(s)
    BY <2>2
  <2>4. s \in Stores /\ Len(s) <= Len(s)
    BY <1>0
  <2> HIDE DEF KeysOf
  <2> QED BY <2>1, <2>2, <2>3, <2>4
<1> QED BY <1>1, <1>2

LEMMA AppendFacts ==
    ASSUME NEW s \in Stores, NEW e \in Entries, e.key \notin KeysOf(s)
    PROVE  /\ Append(s, e) \in Stores /\ Len(Append(s, e)) = Len(s) + 1
           /\ Append(s, e)[Len(s) + 1] = e
           /\ KeysOf(Append(s, e)) = KeysOf(s) \cup {e.key}
<1>1. /\ Append(s, e) \in Seq(Entries) /\ Len(Append(s, e)) = Len(s) + 1
      /\ Append(s, e)[Len(s) + 1] = e /\ Len(s) \in Nat
      /\ \A i \in 1 .. Len(s) : Append(s, e)[i] = s[i]
  <2>1. s \in Seq(Entries)
    BY DEF Stores
  <2>2. Len(s) \in Nat
    BY <2>1, LenProperties
  <2> HIDE DEF Entries
  <2> QED BY <2>1, <2>2, AppendProperties
<1>2. DOMAIN Append(s, e) = 1 .. Len(s) + 1 /\ DOMAIN s = 1 .. Len(s) /\ Distinct(s)
  BY <1>1 DEF Stores
<1> DEFINE a == Append(s, e)
<1>3. \A i \in 1 .. Len(s) : i \in 1 .. Len(s) + 1
  BY <1>1
<1>4. \A i \in 1 .. Len(s) + 1 : i \in 1 .. Len(s) \/ i = Len(s) + 1
  BY <1>1
<1>5. Len(s) + 1 \in 1 .. Len(s) + 1
  BY <1>1
<1>6. KeysOf(a) = KeysOf(s) \cup {e.key}
  BY <1>1, <1>2, <1>3, <1>4, <1>5 DEF KeysOf
<1>7. \A i \in 1 .. Len(s) : a[i].key # e.key
  BY <1>1, <1>2 DEF KeysOf
<1>8. Distinct(a)
  BY <1>1, <1>2, <1>3, <1>4, <1>5, <1>7 DEF Distinct
<1> QED BY <1>1, <1>6, <1>8 DEF Stores

\* A hit is moved to the end: no entry is lost.
LEMMA TouchedFacts ==
    ASSUME store \in Stores, NEW k \in KeysOf(store)
    PROVE  /\ Touched(k) \in Stores /\ Len(Touched(k)) = Len(store)
           /\ KeysOf(store) = KeysOf(Touched(k))
<1> DEFINE i == CHOOSE j \in DOMAIN store : store[j].key = k
<1>1. i \in DOMAIN store /\ store[i].key = k
  BY DEF KeysOf
<1>2. store[i] \in Entries
  BY <1>1 DEF Stores
<1>3. Touched(k) = Append(Without(store, k), store[i])
  BY DEF Touched
<1> HIDE DEF i
<1> DEFINE rest == Without(store, k)
<1>4. /\ rest \in Stores /\ Len(rest) = Len(store) - 1 /\ KeysOf(rest) = KeysOf(store) \ {k}
  BY WithoutFacts
<1> DEFINE e == store[i]
<1>5. e.key = k /\ e \in Entries /\ Touched(k) = Append(rest, e)
  BY <1>1, <1>2, <1>3
<1>6. Len(store) \in Nat
  BY DEF Stores
<1> HIDE DEF rest, e
<1>7. e.key \notin KeysOf(rest)
  BY <1>4, <1>5
<1>8. /\ Append(rest, e) \in Stores /\ Len(Append(rest, e)) = Len(rest) + 1
      /\ KeysOf(Append(rest, e)) = KeysOf(rest) \cup {e.key}
  BY <1>4, <1>5, <1>7, AppendFacts
<1> QED BY <1>4, <1>5, <1>6, <1>8

LEMMA MaxOfTwo ==
    ASSUME NEW a \in Int, NEW b \in Int
    PROVE  Max({a, b}) = IF a >= b THEN a ELSE b
BY DEF Max

\* The newest entries of a store, as many as the limit allows.
Newest(s) == SubSeq(s, Max({1, Len(s) - HistoryLimit + 1}), Len(s))

LEMMA NewestFacts ==
    ASSUME ApiConstants, NEW s \in Stores
    PROVE  /\ Newest(s) \in Stores /\ Len(Newest(s)) <= HistoryLimit
           /\ Len(s) <= HistoryLimit => Newest(s) = s
           /\ Len(s) > 0 => s[Len(s)].key \in KeysOf(Newest(s))
<1>1. /\ HistoryLimit \in Nat \ {0} /\ Len(s) \in Nat /\ s \in Seq(Entries) /\ Distinct(s)
      /\ DOMAIN s = 1 .. Len(s)
  BY KeyFacts DEF Stores
<1> DEFINE m == Max({1, Len(s) - HistoryLimit + 1})
           t == SubSeq(s, m, Len(s))
<1>2. m = IF 1 >= Len(s) - HistoryLimit + 1 THEN 1 ELSE Len(s) - HistoryLimit + 1
  BY <1>1, MaxOfTwo
<1> HIDE DEF m
<1>3. \A i \in m .. Len(s) : s[i] \in Entries
  BY <1>1, <1>2
<1>4. /\ t \in Seq(Entries) /\ Len(t) = IF m <= Len(s) THEN Len(s) - m + 1 ELSE 0
      /\ \A i \in 1 .. Len(s) - m + 1 : t[i] = s[m + i - 1]
  BY <1>1, <1>2, <1>3, SubSeqProperties
<1>5. Len(t) <= HistoryLimit
  BY <1>1, <1>2, <1>4
<1>6. Len(s) <= HistoryLimit => t = s
  BY <1>1, <1>2, SubSeqFull
<1>7. ASSUME Len(s) > 0
      PROVE  s[Len(s)].key \in KeysOf(t)
  <2>1. Len(s) - m + 1 \in DOMAIN t /\ t[Len(s) - m + 1] = s[Len(s)]
    BY <1>1, <1>2, <1>4, <1>7
  <2> HIDE DEF t
  <2> QED BY <2>1 DEF KeysOf
<1>8. t \in Stores
  <2>1. t \in Seq(Entries) /\ DOMAIN t = 1 .. Len(t)
    BY <1>4
  <2>2. ASSUME NEW i \in DOMAIN t
        PROVE  m + i - 1 \in DOMAIN s /\ t[i] = s[m + i - 1] /\ i \in Int
    <3>0. m \in Int /\ m >= 1
      BY <1>1, <1>2
    <3>1. i \in 1 .. Len(t) /\ DOMAIN s = 1 .. Len(s) /\ m \in Int /\ m >= 1
      BY <1>1, <2>1, <3>0
    <3>2. i \in 1 .. Len(s) - m + 1
      BY <1>1, <1>4, <3>1
    <3>3. m + i - 1 \in 1 .. Len(s)
      BY <1>1, <3>1, <3>2
    <3> QED BY <1>4, <3>1, <3>2, <3>3
  <2> HIDE DEF t
  <2>3. ASSUME NEW i \in DOMAIN t, NEW j \in DOMAIN t, t[i].key = t[j].key
        PROVE  i = j
    <3>1. m + i - 1 = m + j - 1
      BY <1>1, <2>2, <2>3 DEF Distinct
    <3>2. m \in Int /\ i \in Int /\ j \in Int
      BY <1>1, <1>2, <2>2
    <3> QED BY <3>1, <3>2
  <2> QED BY <2>1, <2>3 DEF Stores, Distinct
<1> HIDE DEF t
<1>9. /\ t \in Stores /\ Len(t) <= HistoryLimit
      /\ Len(s) <= HistoryLimit => t = s
      /\ Len(s) > 0 => s[Len(s)].key \in KeysOf(t)
  BY <1>5, <1>6, <1>7, <1>8
<1> QED BY <1>9 DEF t, m, Newest

LEMMA PutFacts ==
    ASSUME ApiConstants, store \in Stores, NEW e \in Entries
    PROVE  Put(e) \in Stores /\ Len(Put(e)) <= HistoryLimit /\ e.key \in KeysOf(Put(e))
<1> DEFINE all == Append(Without(store, e.key), e)
<1>0. Len(Without(store, e.key)) \in Nat
  BY WithoutFacts DEF Stores
<1>1. all \in Stores /\ Len(all) > 0 /\ all[Len(all)] = e
  BY <1>0, WithoutFacts, AppendFacts
<1>2. Put(e) = Newest(all)
  BY DEF Put, Newest
<1> HIDE DEF all
<1> QED BY <1>1, <1>2, NewestFacts

(* Sorting a sequence by key keeps its length and its keys: the position an  *)
(* entry's rank names holds an entry of the same key.                        *)
LEMMA RankFacts ==
    ASSUME ApiConstants, NEW s \in Stores, NEW j \in DOMAIN s
    PROVE  Rank(s, j) \in 0 .. Len(s) - 1
<1>1. Len(s) \in Nat /\ DOMAIN s = 1 .. Len(s) /\ s[j] \in Entries
  BY DEF Stores
<1>2. s[j].key \in Int /\ \A i \in DOMAIN s : s[i].key \in Int
  BY <1>1, KeyFacts DEF Stores
<1> DEFINE below == {i \in DOMAIN s : s[i].key < s[j].key}
           rest == (1 .. Len(s)) \ {j}
<1>3. below \subseteq rest
  BY <1>1, <1>2
<1>4. IsFiniteSet(1 .. Len(s)) /\ Cardinality(1 .. Len(s)) = Len(s)
  BY <1>1, IntervalFacts
<1>5. IsFiniteSet(rest) /\ Cardinality(rest) = Len(s) - 1
  <2> DEFINE S == 1 .. Len(s)
  <2>1. IsFiniteSet(S) /\ j \in S /\ Cardinality(S) = Len(s)
    BY <1>1, <1>4
  <2> HIDE DEF S
  <2>2. IsFiniteSet(S \ {j}) /\ Cardinality(S \ {j}) = Cardinality(S) - 1
    BY <2>1, FS_RemoveElement
  <2> QED BY <2>1, <2>2 DEF S
<1>6. IsFiniteSet(below) /\ Cardinality(below) <= Len(s) - 1
  BY <1>3, <1>5, FS_Subset
<1>7. Cardinality(below) \in Nat
  BY <1>6, FS_CardinalityType
<1>8. Rank(s, j) = Cardinality(below)
  BY DEF Rank
<1> HIDE DEF below
<1> QED BY <1>1, <1>6, <1>7, <1>8

LEMMA RankTellsKey ==
    ASSUME ApiConstants, NEW s \in Stores, NEW i \in DOMAIN s, NEW j \in DOMAIN s,
           s[i].key < s[j].key
    PROVE  Rank(s, i) # Rank(s, j)
<1>1. Len(s) \in Nat /\ DOMAIN s = 1 .. Len(s)
  BY DEF Stores
<1>2. \A n \in DOMAIN s : s[n].key \in Int
  BY KeyFacts DEF Stores
<1> DEFINE a == {n \in DOMAIN s : s[n].key < s[i].key}
           b == {n \in DOMAIN s : s[n].key < s[j].key}
<1>3. a \subseteq b /\ i \in b /\ i \notin a
  BY <1>2
<1>4. IsFiniteSet(1 .. Len(s))
  BY <1>1, IntervalFacts
<1>5. b \subseteq 1 .. Len(s)
  BY <1>1
<1>6. IsFiniteSet(b)
  BY <1>4, <1>5, FS_Subset
<1>7. Rank(s, i) = Cardinality(a) /\ Rank(s, j) = Cardinality(b)
  BY DEF Rank
<1> HIDE DEF a, b
<1>8. Cardinality(a) # Cardinality(b)
  BY <1>3, <1>6, FS_Subset
<1> QED BY <1>7, <1>8

LEMMA SerializedFacts ==
    ASSUME ApiConstants, NEW s \in Stores
    PROVE  /\ Serialized(s).torn = FALSE /\ Serialized(s).entries \in Stores
           /\ Len(Serialized(s).entries) = Len(s)
           /\ KeysOf(s) = KeysOf(Serialized(s).entries)
<1> DEFINE r == [j \in DOMAIN s |-> Rank(s, j)]
           at(n) == CHOOSE j \in DOMAIN s : Rank(s, j) = n - 1
           t == [n \in DOMAIN s |-> s[at(n)]]
<1>1. /\ Len(s) \in Nat /\ DOMAIN s = 1 .. Len(s) /\ s \in Seq(Entries) /\ Distinct(s)
      /\ \A j \in DOMAIN s : s[j] \in Entries /\ s[j].key \in Int
  BY KeyFacts DEF Stores
<1>2. r \in [1 .. Len(s) -> 0 .. Len(s) - 1]
  BY <1>1, RankFacts
<1>3. \A i, j \in DOMAIN s : i # j => Rank(s, i) # Rank(s, j)
  <2> SUFFICES ASSUME NEW i \in DOMAIN s, NEW j \in DOMAIN s, i # j
               PROVE  Rank(s, i) # Rank(s, j)
    OBVIOUS
  <2>1. s[i].key < s[j].key \/ s[j].key < s[i].key
    BY <1>1 DEF Distinct
  <2> QED BY <2>1, RankTellsKey
<1>4. r \in Injection(1 .. Len(s), 0 .. Len(s) - 1)
  <2>1. IsInjective(r)
    BY <1>1, <1>3 DEF IsInjective
  <2> QED BY <1>2, <2>1 DEF Injection
<1>5. /\ IsFiniteSet(0 .. Len(s) - 1) /\ Cardinality(0 .. Len(s) - 1) = Len(s)
      /\ Cardinality(1 .. Len(s)) = Len(s)
  BY <1>1, IntervalFacts
<1>6. r \in Surjection(1 .. Len(s), 0 .. Len(s) - 1)
  <2> DEFINE S == 1 .. Len(s)
             T == 0 .. Len(s) - 1
  <2>1. r \in Injection(S, T) /\ IsFiniteSet(T) /\ Cardinality(S) = Cardinality(T)
    BY <1>4, <1>5
  <2> HIDE DEF S, T, r
  <2>2. r \in Surjection(S, T)
    BY <2>1, FS_Injection
  <2> QED BY <2>2 DEF S, T
<1>7. \A n \in DOMAIN s : \E j \in DOMAIN s : Rank(s, j) = n - 1
  <2>1. \A m \in 0 .. Len(s) - 1 : \E j \in 1 .. Len(s) : r[j] = m
    BY <1>6 DEF Surjection
  <2>2. \A j \in DOMAIN s : r[j] = Rank(s, j)
    OBVIOUS
  <2>3. \A n \in DOMAIN s : n - 1 \in 0 .. Len(s) - 1
    BY <1>1
  <2> HIDE DEF r
  <2> QED BY <1>1, <2>1, <2>2, <2>3
<1>8. \A n \in DOMAIN s : at(n) \in DOMAIN s /\ Rank(s, at(n)) = n - 1
  BY <1>7
<1> HIDE DEF at
<1>9. t \in Seq(Entries) /\ Len(t) = Len(s) /\ DOMAIN t = DOMAIN s
  BY <1>1, <1>8
<1>10. \A n \in DOMAIN s : t[n] = s[at(n)] /\ n \in Int
  BY <1>1
<1>11. \A j \in DOMAIN s : Rank(s, j) + 1 \in DOMAIN s /\ Rank(s, j) \in Int
  BY <1>1, RankFacts
<1>12. \A j \in DOMAIN s : at(Rank(s, j) + 1) = j
  BY <1>3, <1>8, <1>11
<1> HIDE DEF t
<1>13. KeysOf(s) = KeysOf(t)
  <2>1. ASSUME NEW j \in DOMAIN s
        PROVE  s[j].key \in KeysOf(t)
    <3>1. Rank(s, j) + 1 \in DOMAIN t /\ t[Rank(s, j) + 1] = s[j]
      BY <1>9, <1>10, <1>11, <1>12
    <3> QED BY <3>1 DEF KeysOf
  <2>2. KeysOf(t) \subseteq KeysOf(s)
    BY <1>8, <1>9, <1>10 DEF KeysOf
  <2>3. KeysOf(s) \subseteq KeysOf(t)
    BY <2>1 DEF KeysOf
  <2> QED BY <2>2, <2>3
<1>14. Distinct(t)
  <2> SUFFICES ASSUME NEW n \in DOMAIN s, NEW m \in DOMAIN s, t[n].key = t[m].key
               PROVE  n = m
    BY <1>9 DEF Distinct
  <2>1. at(n) = at(m)
    BY <1>1, <1>8, <1>10 DEF Distinct
  <2>2. n - 1 = m - 1 /\ n \in Int /\ m \in Int
    BY <1>8, <1>10, <2>1
  <2> QED BY <2>2
<1>15. Serialized(s).entries = t /\ Serialized(s).torn = FALSE
  BY DEF Serialized, t, at
<1> QED BY <1>9, <1>13, <1>14, <1>15 DEF Stores

LEMMA LoadedFacts ==
    ASSUME ApiConstants, NEW f, f.entries \in Stores, Len(f.entries) <= HistoryLimit
    PROVE  /\ Loaded(f) \in Stores /\ Len(Loaded(f)) <= HistoryLimit
           /\ ~f.torn => Loaded(f) = f.entries
<1>1. <<>> \in Stores /\ Len(<<>>) = 0
  BY DEF Stores, Distinct
<1>2. HistoryLimit \in Nat
  BY KeyFacts
<1>3. ~f.torn => Loaded(f) = Newest(f.entries)
  BY DEF Loaded, Newest
<1>4. f.torn => Loaded(f) = <<>>
  BY DEF Loaded
<1>5. Newest(f.entries) = f.entries
  BY NewestFacts
<1>6. CASE f.torn
  BY <1>1, <1>2, <1>4, <1>6
<1>7. CASE ~f.torn
  BY <1>3, <1>5, <1>7
<1> QED BY <1>6, <1>7

\* The shape of the state the API's answers live in.
Requests ==
  [step : {"lookup", "admit", "run", "answer"}, host : {post.host : post \in Posts},
   key : Keys \cup {NoKey}, body : {post.body : post \in Posts}, late : BOOLEAN,
   outcome : {"none", "accepted", "rejected"}]

ApiShape ==
  /\ store \in Stores /\ mirror.entries \in Stores
  /\ calls \in [1 .. Workers -> {FreeSlot} \cup Requests]

ApiInv == ApiShape /\ AnswersKept

\* A slot that is not free serves a request.
LEMMA CallFacts ==
    ASSUME ApiShape, NEW w \in 1 .. Workers, calls[w].step # "free"
    PROVE  calls[w] \in Requests /\ calls[w] # FreeSlot
<1>1. calls[w] \in {FreeSlot} \cup Requests
  BY DEF ApiShape
<1>2. FreeSlot.step = "free"
  BY DEF FreeSlot
<1> QED BY <1>1, <1>2

LEMMA RequestFacts ==
    ASSUME NEW c \in Requests
    PROVE  /\ [c EXCEPT !.late = FALSE] \in Requests /\ [c EXCEPT !.late = FALSE].late = FALSE
           /\ c.step # "free" /\ c.late \in BOOLEAN
           /\ [key |-> c.key, body |-> c.body] \in Entries
BY DEF Requests, Entries

LEMMA RequestSteps ==
    ASSUME NEW c \in Requests, NEW st \in {"lookup", "admit", "run", "answer"},
           NEW out \in {"none", "accepted", "rejected"}
    PROVE  /\ [c EXCEPT !.step = st] \in Requests /\ [c EXCEPT !.step = st].late = c.late
           /\ [c EXCEPT !.step = st].key = c.key /\ [c EXCEPT !.step = st].step = st
           /\ [c EXCEPT !.step = st, !.outcome = out] \in Requests
           /\ [c EXCEPT !.step = st, !.outcome = out].late = c.late
<1> DEFINE Steps == {"lookup", "admit", "run", "answer"}
           Hosts == {post.host : post \in Posts}
           Ks == Keys \cup {NoKey}
           Bodies == {post.body : post \in Posts}
           Outs == {"none", "accepted", "rejected"}
<1>1. Requests = [step : Steps, host : Hosts, key : Ks, body : Bodies, late : BOOLEAN, outcome : Outs]
  BY DEF Requests
<1>4. st \in Steps /\ out \in Outs
  OBVIOUS
<1> HIDE DEF Steps, Hosts, Ks, Bodies, Outs
<1> QED BY <1>1, <1>4

\* A late call is at its lookup, so what leaves the lookup is not late.
LEMMA PastLookup ==
    ASSUME ApiInv, NEW w \in 1 .. Workers, calls[w].step \in {"admit", "run", "answer"}
    PROVE  calls[w] \in Requests /\ ~calls[w].late
BY CallFacts, RequestFacts DEF ApiInv, AnswersKept

\* A slot is given a call that is not late; nothing else is touched.
LEMMA SlotKeeps ==
    ASSUME ApiInv, NEW w, NEW c, c = FreeSlot \/ (c \in Requests /\ ~c.late),
           calls' = [calls EXCEPT ![w] = c], UNCHANGED <<store, mirror, answered>>
    PROVE  ApiInv'
<1>1. calls' \in [1 .. Workers -> {FreeSlot} \cup Requests]
  BY DEF ApiInv, ApiShape
<1>2. \A v \in 1 .. Workers : calls'[v] = c \/ calls'[v] = calls[v]
  BY DEF ApiInv, ApiShape
<1>3. ApiShape'
  BY <1>1 DEF ApiInv, ApiShape
<1>4. AnswersKept'
  BY <1>2 DEF ApiInv, AnswersKept
<1> QED BY <1>3, <1>4 DEF ApiInv

LEMMA ArriveKeeps ==
    ASSUME ApiConstants, ApiInv, NEW post \in Posts, ApiArrive(post)
    PROVE  ApiInv'
<1> DEFINE c == [step |-> "lookup", host |-> post.host, key |-> post.key, body |-> post.body,
                 late |-> post.key \in answered, outcome |-> "none"]
<1>1. c \in Requests
  BY DEF ApiConstants, Requests
<1>2. c.late => c.step = "lookup" /\ c.key \in answered
  OBVIOUS
<1>3. calls' = [calls EXCEPT ![Min(Free)] = c] /\ UNCHANGED <<store, mirror, answered>>
  BY DEF ApiArrive
<1> HIDE DEF c
<1>4. calls' \in [1 .. Workers -> {FreeSlot} \cup Requests]
  BY <1>1, <1>3 DEF ApiInv, ApiShape
<1>5. \A v \in 1 .. Workers : calls'[v] = c \/ calls'[v] = calls[v]
  BY <1>3 DEF ApiInv, ApiShape
<1>6. ApiShape'
  BY <1>3, <1>4 DEF ApiInv, ApiShape
<1>7. AnswersKept'
  BY <1>2, <1>3, <1>5 DEF ApiInv, AnswersKept
<1> QED BY <1>6, <1>7 DEF ApiInv

\* An answered key is found, so a late call goes no further than its lookup.
LEMMA LookupKeeps ==
    ASSUME ApiConstants, ApiInv, NEW w \in 1 .. Workers, ApiLookup(w)
    PROVE  ApiInv'
<1> DEFINE hit == calls[w].key # NoKey /\ Entry(calls[w].key) # {}
           c == IF hit THEN FreeSlot ELSE [calls[w] EXCEPT !.step = "admit"]
           st == IF hit THEN Touched(calls[w].key) ELSE store
<1>1. calls[w] \in Requests /\ calls[w] # FreeSlot
  BY CallFacts DEF ApiLookup, ApiInv
<1>2. calls' = [calls EXCEPT ![w] = c] /\ store' = st /\ UNCHANGED <<mirror, answered>>
  BY DEF ApiLookup
<1>3. hit => calls[w].key \in KeysOf(store)
  BY DEF Entry, KeysOf
<1>4. calls[w].late => hit
  <2>1. calls[w].late => calls[w].key \in Keys /\ calls[w].key \in KeysOf(store)
    BY <1>1 DEF ApiInv, AnswersKept
  <2>2. calls[w].key \in Keys => calls[w].key # NoKey
    BY DEF ApiConstants, NoKey
  <2> QED BY <2>1, <2>2 DEF Entry, KeysOf
<1>5. st \in Stores /\ Len(st) = Len(store) /\ KeysOf(st) = KeysOf(store)
  BY <1>3, TouchedFacts DEF ApiInv, ApiShape
<1>6. c = FreeSlot \/ (c \in Requests /\ ~c.late)
  BY <1>1, <1>4, RequestFacts, RequestSteps
<1> HIDE DEF hit, c, st
<1>7. calls' \in [1 .. Workers -> {FreeSlot} \cup Requests]
  BY <1>2, <1>6 DEF ApiInv, ApiShape
<1>8. \A v \in 1 .. Workers : calls'[v] = c \/ calls'[v] = calls[v]
  BY <1>2 DEF ApiInv, ApiShape
<1>9. ApiShape'
  BY <1>2, <1>5, <1>7 DEF ApiInv, ApiShape
<1>10. AnswersKept'
  <2>1. KeysOf(store') = KeysOf(store) /\ Len(store') = Len(store)
    BY <1>2, <1>5
  <2>2. KeysOf(store)' = KeysOf(store') /\ KeysOf(mirror.entries)' = KeysOf(mirror.entries)
    BY <1>2 DEF KeysOf
  <2> QED BY <1>2, <1>6, <1>8, <2>1, <2>2 DEF ApiInv, AnswersKept
<1> QED BY <1>9, <1>10 DEF ApiInv

LEMMA AdmitKeeps ==
    ASSUME ApiInv, NEW w \in 1 .. Workers, ApiAdmit(w)
    PROVE  ApiInv'
<1>1. calls[w] \in Requests /\ ~calls[w].late
  BY PastLookup DEF ApiAdmit
<1> DEFINE next == [calls[w] EXCEPT !.step = "run"]
<1>2. next \in Requests /\ ~next.late
  BY <1>1, RequestSteps
<1>3. PICK c \in {next, FreeSlot} : calls' = [calls EXCEPT ![w] = c]
  BY DEF ApiAdmit
<1>4. UNCHANGED <<store, mirror, answered>>
  BY DEF ApiAdmit
<1> HIDE DEF next
<1> QED BY <1>2, <1>3, <1>4, SlotKeeps

LEMMA ExecuteKeeps ==
    ASSUME ApiInv, NEW w \in 1 .. Workers, ApiExecute(w)
    PROVE  ApiInv'
<1>1. calls[w] \in Requests /\ ~calls[w].late
  BY PastLookup DEF ApiExecute
<1>2. PICK out \in {"accepted", "rejected"} :
        calls' = [calls EXCEPT ![w] = [calls[w] EXCEPT !.step = "answer", !.outcome = out]]
  BY DEF ApiExecute
<1> DEFINE c == [calls[w] EXCEPT !.step = "answer", !.outcome = out]
<1>3. c \in Requests /\ ~c.late
  <2>1. "answer" \in {"lookup", "admit", "run", "answer"} /\ out \in {"none", "accepted", "rejected"}
    OBVIOUS
  <2> QED BY <1>1, <2>1, RequestSteps
<1>4. UNCHANGED <<store, mirror, answered>>
  BY DEF ApiExecute
<1>5. calls' = [calls EXCEPT ![w] = c]
  BY <1>2
<1> HIDE DEF c
<1> QED BY <1>3, <1>4, <1>5, SlotKeeps

\* A stored answer takes back what its eviction ends: evicted keys are no
\* longer answered, and the calls waiting with them no longer late.
LEMMA AnswerKeeps ==
    ASSUME ApiConstants, ApiInv, NEW w \in 1 .. Workers, ApiAnswer(w)
    PROVE  ApiInv'
<1> DEFINE call == calls[w]
           entry == [key |-> call.key, body |-> call.body]
           put == IF CachedResponse(call) THEN Put(entry) ELSE store
           lost == {k \in answered : \A i \in DOMAIN put : put[i].key # k}
           new == IF call.key # NoKey /\ mirror' = Serialized(put) THEN {call.key} ELSE {}
<1>1. call \in Requests
  BY PastLookup DEF ApiAnswer
<1>2. /\ store' = put /\ answered' = (answered \ lost) \cup new
      /\ mirror' = mirror \/ (CachedResponse(call) /\ mirror' = Serialized(put))
      /\ calls' = [v \in 1 .. Workers |->
            IF v = w THEN FreeSlot
            ELSE IF calls[v] # FreeSlot /\ calls[v].key \in lost THEN [calls[v] EXCEPT !.late = FALSE]
            ELSE calls[v]]
  BY DEF ApiAnswer
<1>3. /\ put \in Stores /\ Len(put) <= HistoryLimit
      /\ CachedResponse(call) => call.key \in KeysOf(put)
  <2>1. entry \in Entries /\ entry.key = call.key
    BY <1>1, RequestFacts
  <2>2. store \in Stores /\ Len(store) <= HistoryLimit
    BY DEF ApiInv, ApiShape, AnswersKept
  <2> HIDE DEF entry, call
  <2>3. Put(entry) \in Stores /\ Len(Put(entry)) <= HistoryLimit /\ entry.key \in KeysOf(Put(entry))
    BY <2>1, <2>2, PutFacts
  <2> QED BY <2>1, <2>2, <2>3
<1>4. CachedResponse(call) <=> call.key # NoKey
  BY DEF CachedResponse
<1>5. answered \ lost \subseteq KeysOf(put)
  BY DEF KeysOf
<1>6. new \subseteq KeysOf(put) \cap Keys
  <2>1. call.key # NoKey => call.key \in Keys
    BY <1>1 DEF Requests
  <2> HIDE DEF put, call
  <2> QED BY <1>3, <1>4, <2>1
<1>7. new # {} => mirror' = Serialized(put)
  OBVIOUS
<1> HIDE DEF put, lost, new
<1>8. /\ Serialized(put).torn = FALSE /\ Serialized(put).entries \in Stores
      /\ Len(Serialized(put).entries) <= HistoryLimit
      /\ KeysOf(Serialized(put).entries) = KeysOf(put)
  BY <1>3, SerializedFacts
<1>9. /\ answered \subseteq Keys \cap KeysOf(mirror.entries)
      /\ answered # {} => ~mirror.torn
      /\ mirror.entries \in Stores /\ Len(mirror.entries) <= HistoryLimit
  BY DEF ApiInv, ApiShape, AnswersKept
<1>10. /\ answered' \subseteq Keys \cap KeysOf(mirror'.entries)
       /\ answered' # {} => ~mirror'.torn
       /\ mirror'.entries \in Stores /\ Len(mirror'.entries) <= HistoryLimit
  <2>1. CASE mirror' = Serialized(put)
    BY <1>2, <1>5, <1>6, <1>8, <1>9, <2>1
  <2>2. CASE mirror' # Serialized(put)
    BY <1>2, <1>7, <1>9, <2>2
  <2> QED BY <2>1, <2>2
<1>11. ASSUME NEW v \in 1 .. Workers
       PROVE  /\ calls'[v] \in {FreeSlot} \cup Requests
              /\ calls'[v] # FreeSlot /\ calls'[v].late
                   => calls'[v].step = "lookup" /\ calls'[v].key \in answered'
  <2>1. /\ calls[v] \in {FreeSlot} \cup Requests
        /\ calls[v] # FreeSlot /\ calls[v].late => calls[v].step = "lookup" /\ calls[v].key \in answered
    BY DEF ApiInv, ApiShape, AnswersKept
  <2>2. CASE v = w
    BY <1>2, <2>2
  <2>3. CASE v # w /\ calls[v] # FreeSlot /\ calls[v].key \in lost
    <3>1. calls'[v] = [calls[v] EXCEPT !.late = FALSE] /\ calls[v] \in Requests
      BY <1>2, <2>1, <2>3
    <3> QED BY <3>1, RequestFacts
  <2>4. CASE v # w /\ ~(calls[v] # FreeSlot /\ calls[v].key \in lost)
    <3>1. calls'[v] = calls[v]
      BY <1>2, <2>4
    <3> QED BY <1>2, <2>1, <2>4, <3>1
  <2> QED BY <2>2, <2>3, <2>4
<1>12. calls' \in [1 .. Workers -> {FreeSlot} \cup Requests]
  <2>1. DOMAIN calls' = 1 .. Workers /\ calls' = [v \in 1 .. Workers |-> calls'[v]]
    BY <1>2
  <2> QED BY <1>11, <2>1
<1>13. ApiShape'
  BY <1>2, <1>3, <1>10, <1>12 DEF ApiShape
<1>14. answered' \subseteq KeysOf(store') /\ Len(store') <= HistoryLimit
  BY <1>2, <1>3, <1>5, <1>6
<1>15. KeysOf(store)' = KeysOf(store') /\ KeysOf(mirror.entries)' = KeysOf(mirror'.entries)
  BY DEF KeysOf
<1>16. AnswersKept'
  BY <1>10, <1>11, <1>14, <1>15 DEF AnswersKept
<1> QED BY <1>13, <1>16 DEF ApiInv

\* A new process reads its store from the mirror, which holds every answered key.
LEMMA RestartKeeps ==
    ASSUME ApiConstants, ApiInv, ApiRestart
    PROVE  ApiInv'
<1>1. /\ calls' = [w \in 1 .. Workers |-> FreeSlot] /\ store' = Loaded(mirror')
      /\ \/ mirror' = mirror /\ answered' = answered
         \/ mirror' = Torn /\ answered' = {}
  BY DEF ApiRestart, Started
<1>2. <<>> \in Stores /\ Len(<<>>) = 0 /\ HistoryLimit \in Nat
  BY KeyFacts DEF Stores, Distinct
<1>3. Torn.entries = <<>> /\ Torn.torn
  BY DEF Torn
<1>4. /\ mirror'.entries \in Stores /\ Len(mirror'.entries) <= HistoryLimit
      /\ answered' \subseteq Keys \cap KeysOf(mirror'.entries)
      /\ answered' # {} => ~mirror'.torn
  <2>1. CASE mirror' = mirror /\ answered' = answered
    BY <2>1 DEF ApiInv, ApiShape, AnswersKept
  <2>2. CASE mirror' = Torn /\ answered' = {}
    BY <1>2, <1>3, <2>2
  <2> QED BY <1>1, <2>1, <2>2
<1>5. /\ store' \in Stores /\ Len(store') <= HistoryLimit
      /\ ~mirror'.torn => store' = mirror'.entries
  BY <1>1, <1>4, LoadedFacts
<1>6. KeysOf(store)' = KeysOf(store') /\ KeysOf(mirror.entries)' = KeysOf(mirror'.entries)
  BY DEF KeysOf
<1>7. calls' \in [1 .. Workers -> {FreeSlot} \cup Requests]
  BY <1>1
<1>8. ApiShape'
  BY <1>4, <1>5, <1>7 DEF ApiShape
<1>9. answered' \subseteq KeysOf(store')
  BY <1>4, <1>5
<1>10. AnswersKept'
  BY <1>1, <1>4, <1>5, <1>6, <1>9 DEF AnswersKept
<1> QED BY <1>8, <1>10 DEF ApiInv

LEMMA ApiInvHolds == ApiSpec => []ApiInv
<1> USE ApiConstants
<1>1. ApiInit => ApiInv
  <2> SUFFICES ASSUME ApiInit PROVE ApiInv
    OBVIOUS
  <2>1. store = <<>> /\ mirror = Serialized(<<>>) /\ answered = {}
        /\ calls = [w \in 1 .. Workers |-> FreeSlot]
    BY DEF ApiInit
  <2>2. <<>> \in Stores /\ Len(<<>>) = 0 /\ HistoryLimit \in Nat
    BY KeyFacts DEF Stores, Distinct
  <2>3. Serialized(<<>>).entries \in Stores /\ Len(Serialized(<<>>).entries) = 0
    BY <2>2, SerializedFacts
  <2>4. ApiShape
    BY <2>1, <2>2, <2>3 DEF ApiShape
  <2>5. AnswersKept
    BY <2>1, <2>2, <2>3 DEF AnswersKept
  <2> QED BY <2>4, <2>5 DEF ApiInv
<1>2. ApiInv /\ [ApiNext]_apiVars => ApiInv'
  <2> SUFFICES ASSUME ApiInv, [ApiNext]_apiVars
               PROVE  ApiInv'
    OBVIOUS
  <2>1. ASSUME UNCHANGED <<calls, store, mirror, answered>>
        PROVE  ApiInv'
    BY <2>1 DEF ApiInv, ApiShape, AnswersKept, KeysOf
  <2>2. CASE UNCHANGED apiVars
    BY <2>1, <2>2 DEF apiVars
  <2>3. ASSUME NEW post \in Posts, ApiArrive(post)
        PROVE  ApiInv'
    BY <2>3, ArriveKeeps
  <2>4. ASSUME NEW w \in 1 .. Workers,
               ApiLookup(w) \/ ApiAdmit(w) \/ ApiExecute(w) \/ ApiAnswer(w)
        PROVE  ApiInv'
    BY <2>4, LookupKeeps, AdmitKeeps, ExecuteKeeps, AnswerKeeps
  <2>5. CASE ApiStateChanges \/ ApiClock
    BY <2>1, <2>5 DEF ApiStateChanges, ApiClock
  <2>6. CASE ApiRestart
    BY <2>6, RestartKeeps
  <2>7. ASSUME NEW bearer, NEW kinds, ApiFollow(bearer, kinds)
        PROVE  ApiInv'
    BY <2>1, <2>7 DEF ApiFollow
  <2>8. CASE ApiDeliver \/ ApiStreamEnds
    BY <2>1, <2>8 DEF ApiDeliver, ApiStreamEnds
  <2> QED BY <2>2, <2>3, <2>4, <2>5, <2>6, <2>7, <2>8 DEF ApiNext
<1> QED BY <1>1, <1>2, PTL DEF ApiSpec

\* What was answered stays in the store and in its mirror until it is evicted
\* or a fault takes it, for any workers, requests and history limit
\* (control/idempotency.py:105).
THEOREM AnswersAreKept == ApiSpec => []AnswersKept
<1>1. ApiInv => AnswersKept
  BY DEF ApiInv
<1> QED BY <1>1, ApiInvHolds, PTL

\* A request whose key was answered before it came is never admitted as a new
\* command (control/http_api_commands.py:114).
THEOREM AnswersAreReplayed == ApiSpec => []AnsweredNotRunAgain
<1>1. ApiInv => AnsweredNotRunAgain
  BY PastLookup DEF AnsweredNotRunAgain
<1> QED BY <1>1, ApiInvHolds, PTL

(***************************************************************************)
(* The charger's I/O: a command that nothing crosses lands on the device.  *)
(***************************************************************************)
Threads == {"current", "abandoned"}
PassOk(p) == p \in [at : {"idle", "write", "read", "store"}, target : {p.target}, wanted : {p.wanted},
                    member : {p.member}, got : {p.got}]
CrewOk == DOMAIN crew = Threads /\ \A w \in Threads : PassOk(crew[w])
DeviceOk(d) == d \in [closed : {d.closed}, on : {d.on}, amps : {d.amps}, phase : {d.phase}]
AdapterOk == ~UsesCharger =>
    adapter \in [enabled : {adapter.enabled}, amps : {adapter.amps}, selected : rig.supported,
                 resume : {adapter.resume}]

\* A group can close every selection it supports.
RigOk == ~UsesCharger =>
    /\ rig.size \in Nat \ {0} /\ 1 \in rig.supported
    /\ \A k \in rig.supported : k \in Nat \ {0} /\ k <= rig.size

\* The relays a group write has passed are where the command wants them.
WritingOk(p, closed, r) ==
    /\ IF p.target THEN \E k \in r.supported : p.wanted = LabelsOf(k) ELSE p.wanted = {}
    /\ p.member \in 1 .. r.size
    /\ \A m \in 1 .. r.size : m < p.member => (m \in closed <=> m \in p.wanted)

Landed ==
    /\ DeviceOn = askedFor
    /\ ~UsesCharger => ioDevice.closed \in {{}} \cup {LabelsOf(k) : k \in rig.supported}

Uncrossed ==
    /\ crew["abandoned"].at # "write"
    /\ askedFor # Nothing => ioPending \in {Nothing, askedFor}
    /\ crew["current"].at = "write" =>
          /\ ioPending # Nothing /\ crew["current"].target \in BOOLEAN
          /\ ~UsesCharger => WritingOk(crew["current"], ioDevice.closed, rig)
    /\ ~UsesCharger => ioDevice.closed \subseteq 1 .. rig.size
    /\ ioPending = Nothing /\ askedFor # Nothing => Landed

IoShape ==
    /\ RigOk /\ CrewOk /\ DeviceOk(ioDevice) /\ AdapterOk
    /\ ioPending \in BOOLEAN \cup {Nothing} /\ askedFor \in BOOLEAN \cup {Nothing}

IoInv == IoShape /\ (~crossed => Uncrossed)

LEMMA IoConstants ==
    /\ GroupSize \in {1, 2, 3} /\ Nothing \notin BOOLEAN
    /\ \A half \in HalfAmps : half \in Nat \ {0}
BY IoAssumption DEF IoAssumption

LEMMA LabelsFacts ==
    ASSUME NEW k \in Nat \ {0}
    PROVE  LabelsOf(k) # {} /\ LabelsOf(k) \subseteq Nat \ {0} /\ \A n \in Nat : k <= n => LabelsOf(k) \subseteq 1 .. n
<1>1. 1 \in LabelsOf(k)
  BY DEF LabelsOf
<1>2. \A m \in LabelsOf(k) : m \in Nat \ {0} /\ m <= k
  BY DEF LabelsOf
<1>3. ASSUME NEW n \in Nat, k <= n PROVE LabelsOf(k) \subseteq 1 .. n
  BY <1>2, <1>3
<1> QED BY <1>1, <1>2, <1>3

\* What the loader accepts as a group.
LEMMA RigFacts == ASSUME rig \in Rigs PROVE RigOk
<1> SUFFICES ASSUME rig.kind = "group" PROVE RigOk
  BY DEF RigOk, UsesCharger
<1>1. rig \in GroupRigs
  BY DEF Rigs, TemplateRigs, NativeRigs, ModbusRigs
<1>2. PICK members \in SUBSET IoSelections, requested \in SUBSET IoSelections :
        /\ ValidMembers(members) /\ SupportedBy(requested, members)
        /\ rig.size = Max(members) /\ rig.supported = requested
  BY <1>1 DEF GroupRigs
<1>3. members \subseteq {1, 2, 3} /\ 1 \in members
  BY <1>2, IoConstants DEF IoSelections, ValidMembers
<1>4. \E x \in members : \A y \in members : x >= y
  <2>1. CASE 3 \in members
    BY <1>3, <2>1
  <2>2. CASE 3 \notin members /\ 2 \in members
    BY <1>3, <2>2
  <2>3. CASE 3 \notin members /\ 2 \notin members
    BY <1>3, <2>3
  <2> QED BY <2>1, <2>2, <2>3
<1>5. rig.size \in members /\ \A y \in members : rig.size >= y
  BY <1>2, <1>4 DEF Max
<1>6. ASSUME NEW k \in requested PROVE k \in members /\ k \in Nat \ {0}
  <2>1. k \in IoSelections /\ LabelsOf(k) \subseteq members
    BY <1>2 DEF SupportedBy, Available
  <2>2. k \in {1, 2, 3}
    BY <2>1, IoConstants DEF IoSelections
  <2> QED BY <2>1, <2>2 DEF LabelsOf
<1>7. 1 \in requested
  BY <1>2 DEF SupportedBy
<1>8. rig.size \in Nat \ {0}
  <2>1. rig.size = 1 \/ rig.size = 2 \/ rig.size = 3
    BY <1>3, <1>5
  <2> QED BY <2>1
<1>9. \A k \in rig.supported : k \in Nat \ {0} /\ k <= rig.size
  <2>1. ASSUME NEW k \in rig.supported PROVE k \in Nat \ {0} /\ k <= rig.size
    <3>1. k \in members /\ k \in Nat \ {0}
      BY <1>2, <1>6
    <3>2. rig.size >= k
      BY <1>5, <3>1
    <3> QED BY <1>8, <3>1, <3>2
  <2> QED BY <2>1
<1> QED BY <1>2, <1>7, <1>8, <1>9 DEF RigOk

LEMMA RestingFacts ==
    /\ PassOk(Resting) /\ Resting.at = "idle"
    /\ \A s \in {"read", "store"} : \A g :
          /\ PassOk([Resting EXCEPT !.at = s, !.got = g]) /\ [Resting EXCEPT !.at = s, !.got = g].at = s
          /\ PassOk([Resting EXCEPT !.at = s]) /\ [Resting EXCEPT !.at = s].at = s
BY DEF Resting, PassOk

\* A thread rests, reads or stores: the device and the command stay what they are.
LEMMA CrewKeeps ==
    ASSUME IoInv, UNCHANGED <<rig, ioDevice, ioPending, askedFor, crossed>>, AdapterOk', CrewOk',
           \A w \in Threads : crew'[w] = crew[w] \/ crew'[w].at # "write"
    PROVE  IoInv'
<1>1. IoShape'
  BY DEF IoInv, IoShape, RigOk, DeviceOk, UsesCharger
<1>2. ASSUME ~crossed PROVE Uncrossed'
  <2>1. Uncrossed /\ "current" \in Threads /\ "abandoned" \in Threads
    BY <1>2 DEF IoInv, Threads
  <2>2. Landed => Landed'
    BY DEF Landed, DeviceOn, UsesCharger
  <2>3. crew'["current"] = crew["current"] => (WritingOk(crew["current"], ioDevice.closed, rig) => WritingOk(crew'["current"], ioDevice'.closed, rig'))
    BY DEF WritingOk
  <2>4. /\ crew'["abandoned"].at # "write"
        /\ crew'["current"].at = "write" => crew'["current"] = crew["current"]
    BY <2>1 DEF Uncrossed
  <2>5. crew'["current"].at = "write" =>
           /\ ioPending' # Nothing /\ crew'["current"].target \in BOOLEAN
           /\ ~UsesCharger' => WritingOk(crew'["current"], ioDevice'.closed, rig')
    BY <2>1, <2>3, <2>4 DEF Uncrossed, UsesCharger
  <2>6. /\ askedFor' # Nothing => ioPending' \in {Nothing, askedFor'}
        /\ ~UsesCharger' => ioDevice'.closed \subseteq 1 .. rig'.size
        /\ ioPending' = Nothing /\ askedFor' # Nothing => Landed'
    BY <2>1, <2>2 DEF Uncrossed, UsesCharger
  <2> QED BY <2>4, <2>5, <2>6 DEF Uncrossed
<1> QED BY <1>1, <1>2 DEF IoInv

\* The worker takes the pending command.
LEMMA TakeKeeps == ASSUME IoInv, TakeCommand PROVE IoInv'
<1> DEFINE p == [Resting EXCEPT !.at = "write", !.target = ioPending,
                                !.wanted = IF ioPending THEN LabelsOf(adapter.selected) ELSE {}]
<1>1. /\ PassOk(p) /\ p.at = "write" /\ p.target = ioPending /\ p.member = 1
      /\ p.wanted = IF ioPending THEN LabelsOf(adapter.selected) ELSE {}
  BY DEF Resting, PassOk
<1>2. /\ ioPending # Nothing /\ crew' = [crew EXCEPT !["current"] = p]
      /\ UNCHANGED <<rig, ioDevice, adapter, ioPending, askedFor, crossed>>
  BY DEF TakeCommand
<1> HIDE DEF p
<1>3. CrewOk' /\ crew'["current"] = p /\ crew'["abandoned"] = crew["abandoned"]
  BY <1>1, <1>2 DEF IoInv, IoShape, CrewOk, Threads
<1>4. IoShape'
  BY <1>2, <1>3 DEF IoInv, IoShape, RigOk, DeviceOk, AdapterOk, UsesCharger
<1>5. ASSUME ~crossed PROVE Uncrossed'
  <2>1. ioPending \in BOOLEAN
    BY <1>2 DEF IoInv, IoShape
  <2>2. ASSUME ~UsesCharger PROVE WritingOk(p, ioDevice.closed, rig)
    <3>1. adapter.selected \in rig.supported /\ rig.size \in Nat \ {0}
      BY <2>2 DEF IoInv, IoShape, AdapterOk, RigOk
    <3>2. IF p.target THEN \E k \in rig.supported : p.wanted = LabelsOf(k) ELSE p.wanted = {}
      BY <1>1, <3>1
    <3>3. p.member \in 1 .. rig.size /\ \A m \in 1 .. rig.size : ~(m < p.member)
      BY <1>1, <3>1
    <3> QED BY <3>2, <3>3 DEF WritingOk
  <2>3. ~UsesCharger' => WritingOk(p, ioDevice'.closed, rig')
    BY <1>2, <2>2 DEF UsesCharger, WritingOk
  <2> QED BY <1>1, <1>2, <1>3, <1>5, <2>1, <2>3 DEF IoInv, Uncrossed, UsesCharger
<1> QED BY <1>2, <1>4, <1>5 DEF IoInv

\* One relay is set, and the next one is left to write.
LEMMA MemberFacts ==
    ASSUME DeviceOk(ioDevice), NEW member, NEW wanted
    PROVE  /\ DeviceOk(MemberWritten(member, wanted))
           /\ MemberWritten(member, wanted).closed =
                IF member \in wanted THEN ioDevice.closed \cup {member} ELSE ioDevice.closed \ {member}
<1> DEFINE d == MemberWritten(member, wanted)
<1>1. /\ d \in [closed : {d.closed}, on : {d.on}, amps : {d.amps}, phase : {d.phase}]
      /\ d.closed = IF member \in wanted THEN ioDevice.closed \cup {member} ELSE ioDevice.closed \ {member}
  BY DEF MemberWritten, DeviceOk
<1> HIDE DEF d
<1>2. DeviceOk(d)
  BY <1>1 DEF DeviceOk
<1> QED BY <1>1, <1>2 DEF d

LEMMA MemberKeeps == ASSUME IoInv, NEW w \in Threads, WriteMember(w) PROVE IoInv'
<1> DEFINE p == [crew[w] EXCEPT !.member = @ + 1]
           member == crew[w].member  wanted == crew[w].wanted
<1>1. /\ crew[w].at = "write" /\ ~UsesCharger /\ member < rig.size
      /\ ioDevice' = MemberWritten(member, wanted)
      /\ crew' = [crew EXCEPT ![w] = p]
      /\ UNCHANGED <<rig, adapter, ioPending, askedFor, crossed>>
  BY DEF WriteMember
<1>2. /\ PassOk(p) /\ p.at = "write" /\ p.target = crew[w].target /\ p.wanted = wanted
      /\ p.member = member + 1
  BY <1>1 DEF IoInv, IoShape, CrewOk, PassOk
<1> HIDE DEF p
<1>3. CrewOk' /\ crew'[w] = p /\ \A v \in Threads \ {w} : crew'[v] = crew[v]
  BY <1>1, <1>2 DEF IoInv, IoShape, CrewOk
<1>4. /\ DeviceOk(ioDevice')
      /\ ioDevice'.closed =
           IF member \in wanted THEN ioDevice.closed \cup {member} ELSE ioDevice.closed \ {member}
  BY <1>1, MemberFacts DEF IoInv, IoShape
<1>5. IoShape'
  BY <1>1, <1>3, <1>4 DEF IoInv, IoShape, RigOk, AdapterOk, UsesCharger
<1>6. ASSUME ~crossed PROVE Uncrossed'
  <2>1. Uncrossed
    BY <1>6 DEF IoInv
  <2>2. w = "current" /\ ioPending # Nothing /\ crew["current"].target \in BOOLEAN
    BY <1>1, <2>1 DEF Uncrossed, Threads
  <2>3. WritingOk(crew["current"], ioDevice.closed, rig) /\ ioDevice.closed \subseteq 1 .. rig.size
    BY <1>1, <2>1, <2>2 DEF Uncrossed
  <2>4. rig.size \in Nat /\ member \in 1 .. rig.size
    BY <1>1, <2>2, <2>3 DEF WritingOk, IoInv, IoShape, RigOk
  <2>5. ioDevice'.closed \subseteq 1 .. rig.size
    BY <1>4, <2>3, <2>4
  <2>6. ASSUME NEW m \in 1 .. rig.size, m < p.member
        PROVE  m \in ioDevice'.closed <=> m \in wanted
    <3>1. CASE m = member
      BY <1>4, <3>1
    <3>2. CASE m # member
      <4>1. m < member
        BY <1>2, <2>4, <2>6, <3>2
      <4>2. m \in ioDevice.closed <=> m \in wanted
        BY <2>2, <2>3, <4>1 DEF WritingOk
      <4> QED BY <1>4, <3>2, <4>2
    <3> QED BY <3>1, <3>2
  <2>7. IF p.target THEN \E k \in rig.supported : p.wanted = LabelsOf(k) ELSE p.wanted = {}
    BY <1>2, <2>2, <2>3 DEF WritingOk
  <2>8. p.member \in 1 .. rig.size
    BY <1>1, <1>2, <2>4
  <2>9. WritingOk(p, ioDevice'.closed, rig')
    BY <1>1, <1>2, <2>6, <2>7, <2>8 DEF WritingOk
  <2>10. /\ crew'["current"] = p /\ crew'["abandoned"] = crew["abandoned"]
    BY <1>3, <2>2 DEF Threads
  <2>11. /\ crew'["abandoned"].at # "write"
         /\ ioPending' # Nothing /\ crew'["current"].target \in BOOLEAN
         /\ WritingOk(crew'["current"], ioDevice'.closed, rig')
    BY <1>1, <1>2, <2>1, <2>2, <2>9, <2>10 DEF Uncrossed
  <2> QED BY <1>1, <2>1, <2>5, <2>11 DEF Uncrossed, UsesCharger
<1> QED BY <1>1, <1>5, <1>6 DEF IoInv

LEMMA DeviceEnabledFacts ==
    ASSUME DeviceOk(ioDevice), NEW on
    PROVE  DeviceOk(DeviceEnabled(on)) /\ DeviceEnabled(on).on = on
<1> DEFINE d == DeviceEnabled(on)
<1>1. d \in [closed : {d.closed}, on : {d.on}, amps : {d.amps}, phase : {d.phase}] /\ d.on = on
  <2>1. CASE rig.kind = "modbus_current"
    <3> DEFINE target == EnabledTarget(on)
    <3>1. d = [ioDevice EXCEPT !.amps = target, !.on = on]
      BY <2>1 DEF DeviceEnabled
    <3> HIDE DEF target, d
    <3> QED BY <3>1 DEF DeviceOk
  <2>2. CASE rig.kind # "modbus_current"
    BY <2>2 DEF DeviceEnabled, DeviceOk
  <2> QED BY <2>1, <2>2
<1> HIDE DEF d
<1>2. DeviceOk(d)
  BY <1>1 DEF DeviceOk
<1> QED BY <1>1, <1>2 DEF d

\* A current above zero leaves a charger on that is on.
LEMMA DeviceCurrentFacts ==
    ASSUME DeviceOk(ioDevice), NEW half \in HalfAmps
    PROVE  /\ DeviceOk(DeviceCurrent(half))
           /\ DeviceCurrent(half).on = ioDevice.on \/ DeviceCurrent(half).on = TRUE
<1> DEFINE d == DeviceCurrent(half)  on == IF rig.kind = "modbus_current" THEN Setting(half) > 0 ELSE ioDevice.on
<1>1. half \in Nat \ {0}
  BY IoConstants
<1>2. Setting(half) > 0
  BY <1>1 DEF Setting, Rounded
<1>3. on = ioDevice.on \/ on = TRUE
  BY <1>2
<1>4. d = [ioDevice EXCEPT !.amps = Setting(half), !.on = on]
  BY DEF DeviceCurrent, DeviceOk
<1> HIDE DEF on, d
<1>5. d \in [closed : {d.closed}, on : {d.on}, amps : {d.amps}, phase : {d.phase}] /\ d.on = on
  BY <1>4 DEF DeviceOk
<1>6. DeviceOk(d)
  BY <1>5 DEF DeviceOk
<1> QED BY <1>3, <1>5, <1>6 DEF d

\* The last write has been made: all relays stand where the command wanted them.
LEMMA LastMemberFacts ==
    ASSUME IoInv, ~crossed, ~UsesCharger, crew["current"].at = "write",
           crew["current"].member = rig.size
    PROVE  MemberWritten(crew["current"].member, crew["current"].wanted).closed = crew["current"].wanted
<1> DEFINE p == crew["current"]  after == MemberWritten(p.member, p.wanted).closed
<1>1. WritingOk(p, ioDevice.closed, rig) /\ ioDevice.closed \subseteq 1 .. rig.size
  BY DEF IoInv, Uncrossed
<1>2. rig.size \in Nat \ {0} /\ \A k \in rig.supported : k \in Nat \ {0} /\ k <= rig.size
  BY DEF IoInv, IoShape, RigOk
<1>3. p.wanted \subseteq 1 .. rig.size
  BY <1>1, <1>2, LabelsFacts DEF WritingOk
<1>4. after = IF p.member \in p.wanted THEN ioDevice.closed \cup {p.member} ELSE ioDevice.closed \ {p.member}
  BY MemberFacts DEF IoInv, IoShape
<1>5. \A m \in 1 .. rig.size : m # rig.size => (m \in ioDevice.closed <=> m \in p.wanted)
  BY <1>1, <1>2 DEF WritingOk
<1> HIDE DEF p, after
<1>6. p.member = rig.size
  BY DEF p
<1>7. \A m : m \in after <=> m \in p.wanted
  BY <1>1, <1>3, <1>4, <1>5, <1>6
<1>8. after = p.wanted
  BY <1>7
<1> QED BY <1>8 DEF after, p

LEMMA FinishKeeps == ASSUME IoInv, NEW w \in Threads, FinishCommand(w) PROVE IoInv'
<1> DEFINE p == IF shellyLine'.retry > 0 THEN Resting ELSE [Resting EXCEPT !.at = "read"]
<1>1. /\ crew[w].at = "write"
      /\ ioPending' = IoClearPending(crew[w].target)
      /\ crew' = [crew EXCEPT ![w] = p]
      /\ UNCHANGED <<rig, askedFor, crossed>>
  BY DEF FinishCommand
<1>2. PassOk(p) /\ p.at # "write"
  BY RestingFacts
<1> HIDE DEF p
<1>3. CrewOk' /\ crew'[w] = p /\ \A v \in Threads \ {w} : crew'[v] = crew[v]
  BY <1>1, <1>2 DEF IoInv, IoShape, CrewOk
<1>4. ioPending' = Nothing \/ ioPending' = ioPending
  BY <1>1 DEF IoClearPending
<1>5. CASE UsesCharger
  <2>1. ioDevice' = DeviceEnabled(crew[w].target)
    BY <1>5 DEF FinishCommand
  <2>2. DeviceOk(ioDevice') /\ ioDevice'.on = crew[w].target
    BY <2>1, DeviceEnabledFacts DEF IoInv, IoShape
  <2>3. IoShape'
    BY <1>1, <1>3, <1>4, <1>5, <2>2 DEF IoInv, IoShape, RigOk, AdapterOk, UsesCharger
  <2>4. ASSUME ~crossed PROVE Uncrossed'
    <3>1. Uncrossed /\ w = "current"
      BY <1>1, <2>4 DEF IoInv, Uncrossed, Threads
    <3>2. crew'["current"].at # "write" /\ crew'["abandoned"].at # "write"
      BY <1>2, <1>3, <3>1 DEF Uncrossed, Threads
    <3>3. ASSUME ioPending' = Nothing, askedFor # Nothing PROVE Landed'
      <4>1. ioPending = crew[w].target /\ ioPending # Nothing
        BY <1>1, <3>1, <3>3 DEF IoClearPending, Uncrossed
      <4>2. ioDevice'.on = askedFor
        BY <2>2, <3>1, <3>3, <4>1 DEF Uncrossed
      <4> QED BY <1>1, <1>5, <4>2 DEF Landed, DeviceOn, UsesCharger
    <3> QED BY <1>1, <1>4, <1>5, <3>1, <3>2, <3>3 DEF Uncrossed, UsesCharger
  <2> QED BY <1>1, <2>3, <2>4 DEF IoInv
<1>6. CASE ~UsesCharger
  <2>1. /\ ioDevice' = MemberWritten(crew[w].member, crew[w].wanted) /\ adapter' = adapter
        /\ crew[w].member = rig.size
    BY <1>6 DEF FinishCommand
  <2>2. DeviceOk(ioDevice')
    BY <2>1, MemberFacts DEF IoInv, IoShape
  <2>3. IoShape'
    BY <1>1, <1>3, <1>4, <2>1, <2>2 DEF IoInv, IoShape, RigOk, AdapterOk, UsesCharger
  <2>4. ASSUME ~crossed PROVE Uncrossed'
    <3>1. Uncrossed /\ w = "current"
      BY <1>1, <2>4 DEF IoInv, Uncrossed, Threads
    <3>2. crew'["current"].at # "write" /\ crew'["abandoned"].at # "write"
      BY <1>2, <1>3, <3>1 DEF Uncrossed, Threads
    <3>3. ioDevice'.closed = crew["current"].wanted
      BY <1>1, <1>6, <2>1, <2>4, <3>1, LastMemberFacts
    <3>4. /\ WritingOk(crew["current"], ioDevice.closed, rig) /\ ioPending # Nothing
          /\ crew["current"].target \in BOOLEAN
      BY <1>1, <1>6, <3>1 DEF Uncrossed
    <3>5. \A k \in rig.supported : k \in Nat \ {0} /\ k <= rig.size
      BY <1>6 DEF IoInv, IoShape, RigOk
    <3>6. rig.size \in Nat
      BY <1>6 DEF IoInv, IoShape, RigOk
    <3>7. ioDevice'.closed \subseteq 1 .. rig.size
      BY <3>3, <3>4, <3>5, <3>6, LabelsFacts DEF WritingOk
    <3>8. /\ (ioDevice'.closed # {}) = crew["current"].target
          /\ ioDevice'.closed \in {{}} \cup {LabelsOf(k) : k \in rig.supported}
      BY <3>3, <3>4, <3>5, LabelsFacts DEF WritingOk
    <3>9. ASSUME ioPending' = Nothing, askedFor # Nothing PROVE Landed'
      <4>1. ioPending = crew["current"].target
        BY <1>1, <3>1, <3>4, <3>9 DEF IoClearPending
      <4>2. askedFor = crew["current"].target
        BY <3>1, <3>4, <3>9, <4>1 DEF Uncrossed
      <4> QED BY <1>1, <1>6, <3>8, <4>2 DEF Landed, DeviceOn, UsesCharger
    <3> QED BY <1>1, <1>4, <3>1, <3>2, <3>7, <3>9 DEF Uncrossed, UsesCharger
  <2> QED BY <1>1, <2>3, <2>4 DEF IoInv
<1> QED BY <1>5, <1>6

\* A write fails: the command stays and is taken up again.
LEMMA FailKeeps ==
    ASSUME IoInv, NEW w \in Threads, NEW reason, NEW reached \in BOOLEAN, CommandFails(w, reason, reached)
    PROVE  IoInv'
<1>1. /\ crew[w].at = "write"
      /\ UNCHANGED <<rig, adapter, ioPending, askedFor, crossed>>
  BY DEF CommandFails
<1>2. PICK p : p \in {Resting, [Resting EXCEPT !.at = "read"]} /\ crew' = [crew EXCEPT ![w] = p]
  BY DEF CommandFails
<1>3. PassOk(p) /\ p.at # "write"
  BY <1>2, RestingFacts
<1>4. CrewOk' /\ crew'[w] = p /\ \A v \in Threads \ {w} : crew'[v] = crew[v]
  BY <1>2, <1>3 DEF IoInv, IoShape, CrewOk
<1>5. \/ ioDevice' = ioDevice
      \/ UsesCharger /\ ioDevice' = DeviceEnabled(crew[w].target)
      \/ ~UsesCharger /\ ioDevice' = MemberWritten(crew[w].member, crew[w].wanted)
  BY DEF CommandFails
<1>6. DeviceOk(ioDevice')
  <2>1. DeviceOk(ioDevice)
    BY DEF IoInv, IoShape
  <2>2. DeviceOk(DeviceEnabled(crew[w].target))
    BY <2>1, DeviceEnabledFacts
  <2>3. DeviceOk(MemberWritten(crew[w].member, crew[w].wanted))
    BY <2>1, MemberFacts
  <2> QED BY <1>5, <2>1, <2>2, <2>3
<1>7. IoShape'
  BY <1>1, <1>4, <1>6 DEF IoInv, IoShape, RigOk, AdapterOk, UsesCharger
<1>8. ASSUME ~crossed PROVE Uncrossed'
  <2>1. Uncrossed /\ w = "current"
    BY <1>1, <1>8 DEF IoInv, Uncrossed, Threads
  <2>2. crew'["current"].at # "write" /\ crew'["abandoned"].at # "write" /\ ioPending # Nothing
    BY <1>1, <1>3, <1>4, <2>1 DEF Uncrossed, Threads
  <2>3. ASSUME ~UsesCharger PROVE ioDevice'.closed \subseteq 1 .. rig.size
    <3>1. crew["current"].member \in 1 .. rig.size /\ ioDevice.closed \subseteq 1 .. rig.size
      BY <1>1, <2>1, <2>3 DEF Uncrossed, WritingOk
    <3> DEFINE member == crew["current"].member  wanted == crew["current"].wanted
    <3>2. MemberWritten(member, wanted).closed =
            IF member \in wanted THEN ioDevice.closed \cup {member} ELSE ioDevice.closed \ {member}
      BY MemberFacts DEF IoInv, IoShape
    <3>3. ioDevice' = ioDevice \/ ioDevice' = MemberWritten(member, wanted)
      BY <1>5, <2>1, <2>3
    <3>4. ioDevice'.closed \subseteq ioDevice.closed \cup {member}
      BY <3>2, <3>3
    <3> QED BY <3>1, <3>4
  <2> QED BY <1>1, <2>1, <2>2, <2>3 DEF Uncrossed, UsesCharger
<1> QED BY <1>1, <1>7, <1>8 DEF IoInv

\* A worker that does not report is replaced.
LEMMA ReplaceKeeps == ASSUME IoInv, ReplaceWorker PROVE IoInv'
<1>1. /\ crew' = [current |-> Resting, abandoned |-> crew["current"]]
      /\ crossed' = (crossed \/ crew["current"].at = "write")
      /\ UNCHANGED <<rig, ioDevice, adapter, ioPending, askedFor>>
  BY DEF ReplaceWorker
<1>2. CrewOk' /\ crew'["current"] = Resting /\ crew'["abandoned"] = crew["current"]
  <2>1. crew'["current"] = Resting /\ crew'["abandoned"] = crew["current"]
    BY <1>1
  <2>2. DOMAIN crew' = Threads
    BY <1>1 DEF Threads
  <2>3. PassOk(crew["current"]) /\ PassOk(Resting)
    BY RestingFacts DEF IoInv, IoShape, CrewOk, Threads
  <2> QED BY <2>1, <2>2, <2>3 DEF CrewOk, Threads
<1>3. IoShape'
  BY <1>1, <1>2 DEF IoInv, IoShape, RigOk, DeviceOk, AdapterOk, UsesCharger
<1>4. ASSUME ~crossed' PROVE Uncrossed'
  <2>1. Uncrossed /\ crew["current"].at # "write"
    BY <1>1, <1>4 DEF IoInv
  <2>2. crew'["current"].at # "write" /\ crew'["abandoned"].at # "write"
    BY <1>2, <2>1, RestingFacts
  <2>3. Landed => Landed'
    BY <1>1 DEF Landed, DeviceOn, UsesCharger
  <2> QED BY <1>1, <2>1, <2>2, <2>3 DEF Uncrossed, UsesCharger
<1> QED BY <1>3, <1>4 DEF IoInv

\* A relay command is queued over the one that is pending.
LEMMA QueueKeeps == ASSUME IoInv, NEW on \in BOOLEAN, QueueRelayCommand(on) PROVE IoInv'
<1>1. /\ ioPending' = on /\ askedFor' = on /\ on # Nothing
      /\ UNCHANGED <<rig, ioDevice, adapter, crew, crossed>>
  BY IoConstants DEF QueueRelayCommand
<1>2. IoShape'
  BY <1>1 DEF IoInv, IoShape, RigOk, CrewOk, DeviceOk, AdapterOk, UsesCharger
<1>3. ASSUME ~crossed PROVE Uncrossed'
  BY <1>1, <1>3 DEF IoInv, Uncrossed, UsesCharger
<1> QED BY <1>1, <1>2, <1>3 DEF IoInv

\* A charger is set directly, on or off or to a current.
LEMMA DirectKeeps ==
    ASSUME IoInv, UsesCharger, UNCHANGED <<rig, ioPending, crew>>, DeviceOk(ioDevice'),
           askedFor' \in BOOLEAN \cup {Nothing}, crossed => crossed',
           ~crossed' => \/ askedFor' = Nothing
                        \/ /\ askedFor' = ioDevice'.on /\ ioPending \in {Nothing, askedFor'}
                           /\ crew["current"].at # "write"
                        \/ askedFor' = askedFor /\ ioDevice'.on \in {ioDevice.on, askedFor}
                        \/ askedFor' = askedFor /\ ioDevice'.on \in {ioDevice.on, TRUE} /\ askedFor = TRUE
    PROVE  IoInv'
<1>1. IoShape'
  BY DEF IoInv, IoShape, RigOk, CrewOk, AdapterOk, UsesCharger
<1>2. ASSUME ~crossed' PROVE Uncrossed'
  <2>1. Uncrossed /\ UsesCharger'
    BY <1>2 DEF IoInv, UsesCharger
  <2>2. askedFor' # Nothing => ioPending \in {Nothing, askedFor'}
    BY <1>2, <2>1 DEF Uncrossed
  <2>3. ASSUME ioPending = Nothing, askedFor' # Nothing PROVE ioDevice'.on = askedFor'
    BY <1>2, <2>1, <2>3 DEF Uncrossed, Landed, DeviceOn
  <2>4. ioPending' = Nothing /\ askedFor' # Nothing => Landed'
    BY <2>1, <2>3 DEF Landed, DeviceOn
  <2> QED BY <2>1, <2>2, <2>4 DEF Uncrossed
<1> QED BY <1>1, <1>2 DEF IoInv

LEMMA EnabledKeeps ==
    ASSUME IoInv, NEW on \in BOOLEAN,
           SetEnabledNow(on) \/ \E broken, reached \in BOOLEAN : SetEnabledFails(on, broken, reached)
    PROVE  IoInv'
<1>1. DeviceOk(ioDevice) /\ DeviceOk(DeviceEnabled(on)) /\ DeviceEnabled(on).on = on
  BY DeviceEnabledFacts DEF IoInv, IoShape
<1>2. UsesCharger /\ UNCHANGED <<rig, ioPending, crew>> /\ ioDevice' \in {ioDevice, DeviceEnabled(on)}
  BY DEF SetEnabledNow, SetEnabledFails
<1>3. DeviceOk(ioDevice')
  BY <1>1, <1>2
<1>4. CASE SetEnabledNow(on)
  <2>1. /\ ioDevice' = DeviceEnabled(on) /\ askedFor' = on
        /\ crossed' = (crossed \/ ioPending \notin {Nothing, on} \/ \E w \in DOMAIN crew : crew[w].at = "write")
    BY <1>4 DEF SetEnabledNow
  <2>2. DOMAIN crew = Threads /\ "current" \in Threads
    BY DEF IoInv, IoShape, CrewOk, Threads
  <2>3. ~crossed' => ioPending \in {Nothing, on} /\ crew["current"].at # "write"
    BY <2>1, <2>2
  <2>4. crossed => crossed'
    BY <2>1
  <2>5. askedFor' = ioDevice'.on /\ askedFor' \in BOOLEAN \cup {Nothing}
    BY <1>1, <2>1
  <2> QED BY <1>2, <1>3, <2>1, <2>3, <2>4, <2>5, DirectKeeps
<1>5. CASE \E broken, reached \in BOOLEAN : SetEnabledFails(on, broken, reached)
  <2>1. askedFor' = Nothing /\ crossed' = crossed
    BY <1>5 DEF SetEnabledFails
  <2> QED BY <1>2, <1>3, <2>1, DirectKeeps
<1> QED BY <1>4, <1>5

LEMMA CurrentKeeps ==
    ASSUME IoInv, NEW half \in HalfAmps,
           SetCurrentNow(half) \/ \E broken, reached \in BOOLEAN : SetCurrentFails(half, broken, reached)
    PROVE  IoInv'
<1>1. /\ DeviceOk(ioDevice) /\ DeviceOk(DeviceCurrent(half))
      /\ DeviceCurrent(half).on = ioDevice.on \/ DeviceCurrent(half).on = TRUE
  BY DeviceCurrentFacts DEF IoInv, IoShape
<1>2. /\ UsesCharger /\ UNCHANGED <<rig, ioPending, crew, askedFor>> /\ askedFor = TRUE
      /\ ioDevice' \in {ioDevice, DeviceCurrent(half)}
      /\ crossed' = (crossed \/ \E w \in DOMAIN crew : crew[w].at = "write")
  BY DEF SetCurrentNow, SetCurrentFails
<1>3. DeviceOk(ioDevice') /\ ioDevice'.on \in {ioDevice.on, TRUE}
  BY <1>1, <1>2
<1>4. crossed => crossed'
  BY <1>2
<1> QED BY <1>2, <1>3, <1>4, DirectKeeps

LEMMA SelectKeeps == ASSUME IoInv, NEW selection, SelectPhases(selection) PROVE IoInv'
<1>1. /\ selection \in rig.supported
      /\ adapter' \in {adapter, [adapter EXCEPT !.selected = selection]}
      /\ ioDevice' = IF UsesCharger /\ rig.phaseRequest THEN [ioDevice EXCEPT !.phase = selection] ELSE ioDevice
      /\ UNCHANGED <<rig, ioPending, crew, askedFor, crossed>>
  BY DEF SelectPhases
<1>2. AdapterOk'
  BY <1>1 DEF IoInv, IoShape, AdapterOk, UsesCharger
<1>3. DeviceOk(ioDevice') /\ ioDevice'.on = ioDevice.on /\ ioDevice'.closed = ioDevice.closed
  BY <1>1 DEF IoInv, IoShape, DeviceOk
<1>4. IoShape'
  BY <1>1, <1>2, <1>3 DEF IoInv, IoShape, RigOk, CrewOk, UsesCharger
<1>5. ASSUME ~crossed PROVE Uncrossed'
  <2>1. Landed => Landed'
    BY <1>1, <1>3 DEF Landed, DeviceOn, UsesCharger
  <2> QED BY <1>1, <1>3, <1>5, <2>1 DEF IoInv, Uncrossed, UsesCharger
<1> QED BY <1>1, <1>4, <1>5 DEF IoInv

\* The steps that touch neither the device nor the command.
LEMMA ReadingKeeps ==
    ASSUME IoInv, NEW w \in Threads,
           \/ Sample(w) \/ StoreGroup(w) \/ \E reason \in Reasons_ : ReadFails(w, reason)
           \/ \E flag \in BOOLEAN : StoreCharger(w, flag) \/ ServeCached(w, flag)
    PROVE  IoInv'
<1>1. /\ UNCHANGED <<rig, ioDevice, ioPending, askedFor, crossed>>
      /\ adapter' = adapter \/ UsesCharger
      /\ \E p \in {Resting, [Resting EXCEPT !.at = "store", !.got = ioDevice]} : crew' = [crew EXCEPT ![w] = p]
  BY DEF Sample, StoreGroup, ReadFails, StoreCharger, ServeCached
<1>2. PICK p : PassOk(p) /\ p.at # "write" /\ crew' = [crew EXCEPT ![w] = p]
  BY <1>1, RestingFacts
<1>3. CrewOk' /\ \A v \in Threads : crew'[v] = crew[v] \/ crew'[v].at # "write"
  BY <1>2 DEF IoInv, IoShape, CrewOk
<1>4. AdapterOk'
  BY <1>1 DEF IoInv, IoShape, AdapterOk, UsesCharger
<1> QED BY <1>1, <1>3, <1>4, CrewKeeps

LEMMA IdleKeeps == ASSUME IoInv, SkipCommand \/ IoTick \/ UNCHANGED ioVars PROVE IoInv'
<1>1. /\ UNCHANGED <<rig, ioDevice, adapter, ioPending, askedFor, crossed>>
      /\ crew' = crew \/ crew' = [crew EXCEPT !["current"] = [Resting EXCEPT !.at = "read"]]
  BY DEF SkipCommand, IoTick, ioVars
<1>2. CrewOk' /\ \A v \in Threads : crew'[v] = crew[v] \/ crew'[v].at # "write"
  BY <1>1, RestingFacts DEF IoInv, IoShape, CrewOk
<1>3. AdapterOk'
  BY <1>1 DEF IoInv, IoShape, AdapterOk, UsesCharger
<1> QED BY <1>1, <1>2, <1>3, CrewKeeps

LEMMA IoStep == ASSUME IoInv, [IoNext]_ioVars PROVE IoInv'
<1>1. ASSUME NEW w \in DOMAIN crew, WorkerStep(w) PROVE IoInv'
  <2>1. w \in Threads
    BY DEF IoInv, IoShape, CrewOk
  <2>2. CASE \E reason \in Reasons_ : \E reached \in BOOLEAN : CommandFails(w, reason, reached)
    BY <2>1, <2>2, FailKeeps
  <2> QED BY <1>1, <2>1, <2>2, MemberKeeps, FinishKeeps, ReadingKeeps DEF WorkerStep
<1>2. ASSUME NEW on \in BOOLEAN,
             QueueRelayCommand(on) \/ SetEnabledNow(on)
                \/ \E broken, reached \in BOOLEAN : SetEnabledFails(on, broken, reached)
      PROVE  IoInv'
  BY <1>2, QueueKeeps, EnabledKeeps
<1>3. ASSUME NEW half \in HalfAmps,
             SetCurrentNow(half) \/ \E broken, reached \in BOOLEAN : SetCurrentFails(half, broken, reached)
      PROVE  IoInv'
  BY <1>3, CurrentKeeps
<1>4. ASSUME NEW selection \in IoSelections, SelectPhases(selection) PROVE IoInv'
  BY <1>4, SelectKeeps
<1> QED BY <1>1, <1>2, <1>3, <1>4, TakeKeeps, ReplaceKeeps, IdleKeeps DEF IoNext

LEMMA IoStarts == ASSUME IoInit PROVE IoInv
<1>1. RigOk
  BY RigFacts DEF IoInit
<1>2. CrewOk /\ crew["current"] = Resting /\ crew["abandoned"] = Resting
  BY RestingFacts DEF IoInit, CrewOk, Threads
<1>3. DeviceOk(ioDevice) /\ AdapterOk /\ ioDevice.closed = {}
  BY <1>1 DEF IoInit, DeviceOk, AdapterOk, RigOk
<1>4. ioPending = Nothing /\ askedFor = Nothing
  BY DEF IoInit
<1>5. Uncrossed
  BY <1>2, <1>3, <1>4, RestingFacts DEF Uncrossed
<1> QED BY <1>1, <1>2, <1>3, <1>4, <1>5 DEF IoInv, IoShape

\* A relay command that no replaced worker and no direct setting crosses is on the
\* device once nothing is pending or being written, for every backend, after any number
\* of writes that failed halfway (shelly_io_worker.py, switch_group.py).
THEOREM CommandsLand == IoSpec => []CommandLands
<1>1. IoInit => IoInv
  BY IoStarts
<1>2. IoInv /\ [IoNext]_ioVars => IoInv'
  BY IoStep
<1>3. IoInv => CommandLands
  BY DEF IoInv, Uncrossed, Landed, CommandLands, UsesCharger
<1> QED BY <1>1, <1>2, <1>3, PTL DEF IoSpec

(***************************************************************************)
(* The energy sources: the source attempted is the due one that stands     *)
(* closest behind the cursor, and the cursor moves up to it. A source that *)
(* was passed over comes closer each time, so it cannot be passed over     *)
(* as often as there are sources.                                          *)
(***************************************************************************)
Below == {pair \in Nat \X Nat : pair[1] < pair[2]}

LEMMA LeastNatural ==
    ASSUME NEW T, T \subseteq Nat, T # {}
    PROVE  \E x \in T : \A y \in T : x <= y
<1>1. OpToRel(<, Nat) = Below
  BY DEF OpToRel, Below
<1>2. IsWellFoundedOn(Below, Nat)
  BY <1>1, NatLessThanWellFounded, Zenon
<1>3. PICK x \in T : \A y \in T : ~ (<<y, x>> \in Below)
  BY <1>2, WFMin, Zenon
<1>4. ASSUME NEW y \in T PROVE x <= y
  <2>1. x \in Nat /\ y \in Nat /\ <<y, x>> \notin Below
    BY <1>3
  <2>2. y < x => <<y, x>> \in Below
    BY <2>1 DEF Below
  <2> QED
    BY <2>1, <2>2
<1> QED
  BY <1>4

LEMMA CountSmall ==
    ASSUME NEW n \in Nat \ {0}, NEW x \in Int
    PROVE  /\ 0 <= x /\ x < n => x % n = x
           /\ n <= x /\ x < 2 * n => x % n = x - n
OBVIOUS

\* Where a source stands behind a cursor.
LEMMA BehindCursor ==
    ASSUME NEW c \in 0 .. (SourceCount - 1), NEW s \in Configured
    PROVE  LET d == (s - 1 - c + SourceCount) % SourceCount
           IN  /\ d \in 0 .. (SourceCount - 1)
               /\ d = IF s - 1 >= c THEN s - 1 - c ELSE s - 1 - c + SourceCount
<1> DEFINE x == s - 1 - c + SourceCount
<1>1. /\ SourceCount \in Nat \ {0} /\ s \in 1 .. SourceCount
      /\ x \in Int /\ 0 <= x /\ x < 2 * SourceCount
  BY EsAssumption DEF EsAssumption, Configured
<1>2. x % SourceCount = IF x < SourceCount THEN x ELSE x - SourceCount
  <2> HIDE DEF x
  <2>1. CASE x < SourceCount
    BY <1>1, <2>1, CountSmall
  <2>2. CASE SourceCount <= x
    BY <1>1, <2>2, CountSmall
  <2> QED BY <1>1, <2>1, <2>2
<1>3. x % SourceCount \in 0 .. (SourceCount - 1)
  <2> HIDE DEF x
  <2> QED BY <1>1, <1>2
<1> QED
  BY <1>1, <1>2, <1>3

LEMMA TurnOrder ==
    ASSUME cursor \in 0 .. (SourceCount - 1), NEW s \in Configured
    PROVE  /\ AfterCursor(s) \in 0 .. (SourceCount - 1)
           /\ AfterCursor(s) = IF s - 1 >= cursor THEN s - 1 - cursor ELSE s - 1 - cursor + SourceCount
BY BehindCursor DEF AfterCursor

\* The source that is attempted is the first one behind the cursor that is due.
LEMMA FirstIsNext ==
    ASSUME cursor \in 0 .. (SourceCount - 1), \E s \in Configured : DueNow(s)
    PROVE  /\ NextDue \in Configured /\ DueNow(NextDue)
           /\ \A t \in Configured : DueNow(t) => AfterCursor(NextDue) <= AfterCursor(t)
<1> DEFINE T == {AfterCursor(s) : s \in {c \in Configured : DueNow(c)}}
<1>1. T \subseteq Nat /\ T # {}
  BY TurnOrder
<1>2. PICK x \in T : \A y \in T : x <= y
  <2> HIDE DEF T
  <2> QED BY <1>1, LeastNatural
<1>3. \E s \in Configured : DueNow(s) /\ \A t \in Configured : DueNow(t) => AfterCursor(s) <= AfterCursor(t)
  BY <1>2
<1> QED
  BY <1>3, Zenon DEF NextDue

\* A poll's record keeps its fields, whatever is recorded in it.
PollFields == {"due", "fails", "good", "age", "step"}
IsPoll(p) == DOMAIN p = PollFields /\ p = [i \in PollFields |-> p[i]]

\* A source that was passed over is due, and as close behind the cursor as often
\* as it was passed over.
TurnsKept ==
    /\ cursor \in 0 .. (SourceCount - 1)
    /\ DOMAIN polls = Configured /\ \A s \in Configured : IsPoll(polls[s])
    /\ overdue \in [Configured -> Nat]
    /\ \A s \in Configured : overdue[s] > 0 => /\ DueNow(s)
                                              /\ overdue[s] + AfterCursor(s) <= SourceCount - 1

LEMMA AgedPoll ==
    ASSUME NEW p, IsPoll(p), NEW a
    PROVE  IsPoll([p EXCEPT !.age = a]) /\ [p EXCEPT !.age = a].due = p.due
BY DEF IsPoll, PollFields

LEMMA CountedPoll ==
    ASSUME NEW p, IsPoll(p), NEW d
    PROVE  IsPoll([p EXCEPT !.due = d]) /\ [p EXCEPT !.due = d].due = d
BY DEF IsPoll, PollFields

LEMMA AttemptShape ==
    ASSUME NEW i, NEW p, IsPoll(p), NEW outcome
    PROVE  IsPoll(Attempted(i, p, outcome))
<1>1. IsPoll(RecordFailure(p))
  <2>1. \A f, d : IsPoll([p EXCEPT !.fails = f, !.step = 0, !.due = d])
    BY DEF IsPoll, PollFields
  <2> QED
    BY <2>1 DEF RecordFailure
<1>2. \A r : IsPoll(RecordSuccess(p, r))
  <2>1. \A r, d : IsPoll([p EXCEPT !.good = r, !.age = 0, !.fails = 0, !.step = 0, !.due = d])
    BY DEF IsPoll, PollFields
  <2> QED
    BY <2>1 DEF RecordSuccess
<1>3. IsPoll(RecordInProgress(p))
  <2>1. \A t : IsPoll([p EXCEPT !.step = t, !.due = 0])
    BY DEF IsPoll, PollFields
  <2> QED
    BY <2>1 DEF RecordInProgress
<1> QED
  BY <1>1, <1>2, <1>3, Zenon DEF Attempted

LEMMA TurnsStep ==
    ASSUME TurnsKept, NEW outcome, PollSources(outcome)
    PROVE  TurnsKept'
<1> DEFINE attempt == \E s \in Configured : DueNow(s)
           older == [s \in Configured |-> [polls[s] EXCEPT !.age = Min({@ + 1, LargestAge})]]
           after == IF attempt THEN [older EXCEPT ![NextDue] = Attempted(NextDue, @, outcome)] ELSE older
<1> USE DEF TurnsKept
<1>1. SourceCount \in Nat \ {0} /\ 0 \in Int
  BY EsAssumption DEF EsAssumption
<1>2. /\ polls' = [s \in Configured |-> [after[s] EXCEPT !.due = Max({@ - 1, 0})]]
      /\ cursor' = IF attempt THEN CursorAfter(NextDue) ELSE cursor
      /\ overdue' = [s \in Configured |-> IF DueNow(s) /\ s # NextDue THEN overdue[s] + 1 ELSE 0]
  BY DEF PollSources
<1>3. cursor' \in 0 .. (SourceCount - 1)
  <2>1. CASE attempt
    BY <1>1, <1>2, <2>1, FirstIsNext DEF CursorAfter, Configured
  <2> QED
    BY <1>2, <2>1
<1>4. overdue' \in [Configured -> Nat]
  <2>1. \A s \in Configured : (IF DueNow(s) /\ s # NextDue THEN overdue[s] + 1 ELSE 0) \in Nat
    OBVIOUS
  <2> QED
    BY <1>2, <2>1
<1>5. ASSUME NEW s \in Configured
      PROVE  /\ IsPoll(after[s])
             /\ (~attempt \/ s # NextDue) => after[s].due = polls[s].due
  <2>1. IsPoll(polls[s])
    OBVIOUS
  <2>2. IsPoll(older[s]) /\ older[s].due = polls[s].due
    <3> DEFINE a == Min({polls[s].age + 1, LargestAge})
    <3>1. older[s] = [polls[s] EXCEPT !.age = a]
      OBVIOUS
    <3> HIDE DEF a, older
    <3> QED
      BY <2>1, <3>1, AgedPoll
  <2>4. DOMAIN older = Configured
    OBVIOUS
  <2> HIDE DEF older, attempt
  <2>5. CASE attempt /\ s = NextDue
    BY <2>2, <2>4, <2>5, AttemptShape
  <2>6. CASE ~(attempt /\ s = NextDue)
    <3>1. after[s] = older[s]
      BY <2>4, <2>6
    <3> QED
      BY <2>2, <2>6, <3>1
  <2> QED
    BY <2>5, <2>6
<1>6. DOMAIN polls' = Configured /\ \A s \in Configured : IsPoll(polls'[s])
  <2>1. ASSUME NEW s \in Configured PROVE IsPoll(polls'[s])
    <3>1. polls'[s] = [after[s] EXCEPT !.due = Max({after[s].due - 1, 0})]
      BY <1>2
    <3> DEFINE m == Max({after[s].due - 1, 0})
    <3> HIDE DEF m, after
    <3> QED
      BY <1>5, <3>1, CountedPoll
  <2> HIDE DEF after
  <2> QED
    BY <1>2, <2>1
<1>7. ASSUME NEW s \in Configured, overdue'[s] > 0
      PROVE  DueNow(s)' /\ overdue'[s] + AfterCursor(s)' <= SourceCount - 1
  <2>1. DueNow(s) /\ s # NextDue /\ overdue'[s] = overdue[s] + 1 /\ overdue[s] \in Nat /\ attempt
    BY <1>2, <1>7
  <2>2. DueNow(s)'
    <3>1. after[s].due = 0 /\ IsPoll(after[s])
      BY <1>5, <2>1 DEF DueNow
    <3>2. Max({0 - 1, 0}) = 0
      BY DEF Max
    <3>3. polls'[s] = [after[s] EXCEPT !.due = Max({after[s].due - 1, 0})]
      BY <1>2
    <3> HIDE DEF after
    <3> QED
      BY <3>1, <3>2, <3>3, CountedPoll DEF DueNow
  <2>3. /\ NextDue \in Configured /\ AfterCursor(NextDue) <= AfterCursor(s)
        /\ cursor' = NextDue % SourceCount
    BY <1>2, <2>1, FirstIsNext DEF CursorAfter
  <2>4. /\ overdue[s] + AfterCursor(s) <= SourceCount - 1
        /\ AfterCursor(s) \in 0 .. (SourceCount - 1)
    BY <2>1, TurnOrder
  <2>5. AfterCursor(s)' = IF s - 1 >= cursor' THEN s - 1 - cursor' ELSE s - 1 - cursor' + SourceCount
    BY <1>3, BehindCursor DEF AfterCursor
  <2>6. cursor' = IF NextDue = SourceCount THEN 0 ELSE NextDue
    <3>1. NextDue \in Int /\ 1 <= NextDue /\ NextDue <= SourceCount
      BY <2>3 DEF Configured
    <3>2. CASE NextDue = SourceCount
      <4>1. SourceCount % SourceCount = SourceCount - SourceCount
        BY <1>1, CountSmall
      <4> QED
        BY <1>1, <2>3, <3>2, <4>1
    <3>3. CASE NextDue # SourceCount
      <4>1. NextDue % SourceCount = NextDue
        BY <1>1, <3>1, <3>3, CountSmall
      <4> QED
        BY <2>3, <3>3, <4>1
    <3> QED
      BY <3>2, <3>3
  <2>7. AfterCursor(s)' <= AfterCursor(s) - 1
    <3>1. AfterCursor(s) = IF s - 1 >= cursor THEN s - 1 - cursor ELSE s - 1 - cursor + SourceCount
      BY TurnOrder
    <3>2. AfterCursor(NextDue) = IF NextDue - 1 >= cursor THEN NextDue - 1 - cursor
                                 ELSE NextDue - 1 - cursor + SourceCount
      BY <2>3, TurnOrder
    <3>3. s \in 1 .. SourceCount /\ NextDue \in 1 .. SourceCount
      BY <2>3 DEF Configured
    <3> QED
      BY <1>1, <2>1, <2>3, <2>5, <2>6, <3>1, <3>2, <3>3
  <2>8. AfterCursor(s)' \in Int
    BY <1>1, <2>5, <2>6, <2>3 DEF Configured
  <2> QED
    BY <1>1, <2>1, <2>2, <2>4, <2>7, <2>8
<1> QED
  BY <1>3, <1>4, <1>6, <1>7

\* For any number of sources, reads of any number of attempts and any outcomes:
\* a source that is due is attempted before another one had a second turn
\* (inputs/helper/external_scheduler.py:114).
THEOREM SourcesTakeTurns == EsSpec => []NoSourceStarves
<1>1. EsInit => TurnsKept
  BY EsAssumption DEF EsInit, TurnsKept, EsAssumption, IsPoll, PollFields
<1>2. TurnsKept /\ [EsNext]_esVars => TurnsKept'
  <2>1. ASSUME TurnsKept, EnergyCycle PROVE TurnsKept'
    <3>1. \E outcome : PollSources(outcome)
      BY <2>1 DEF EnergyCycle
    <3> QED BY <2>1, <3>1, TurnsStep
  <2>2. ASSUME TurnsKept, UNCHANGED esVars PROVE TurnsKept'
    BY <2>2 DEF TurnsKept, esVars, DueNow, AfterCursor
  <2> QED BY <2>1, <2>2 DEF EsNext
<1>3. TurnsKept => NoSourceStarves
  <2> SUFFICES ASSUME TurnsKept, NEW s \in Configured PROVE overdue[s] < SourceCount
    BY DEF NoSourceStarves
  <2>1. SourceCount \in Nat \ {0} /\ overdue[s] \in Nat
    BY EsAssumption DEF EsAssumption, TurnsKept
  <2>2. CASE overdue[s] > 0
    BY <2>1, <2>2, TurnOrder DEF TurnsKept
  <2> QED BY <2>1, <2>2
<1> QED BY <1>1, <1>2, <1>3, PTL DEF EsSpec

(***************************************************************************)
(* The energy sources: what is counted stays within what it is counted to. *)
(***************************************************************************)
\* No read goes on longer than it takes, and no failover is counted beyond its limit.
EnergyCounts ==
    /\ TurnsKept /\ RecoveryCounted
    /\ \A s \in Configured : polls[s].step \in Nat /\ polls[s].step < ReadSteps[s]
    /\ fusion.invalid \in 0..FailoverSamples

LEMMA StepFields ==
    ASSUME NEW p, IsPoll(p), NEW d
    PROVE  /\ [p EXCEPT !.age = d].step = p.step
           /\ [p EXCEPT !.due = d].step = p.step
BY DEF IsPoll, PollFields

\* An attempt starts over or reads the next part of what is pending.
LEMMA AttemptSteps ==
    ASSUME NEW s \in Configured, NEW p, IsPoll(p), p.step \in Nat, p.step < ReadSteps[s],
           NEW outcome
    PROVE  Attempted(s, p, outcome).step \in Nat /\ Attempted(s, p, outcome).step < ReadSteps[s]
<1>1. ReadSteps[s] \in Nat \ {0}
  BY EsAssumption DEF EsAssumption
<1>2. RecordFailure(p).step = 0
  <2>1. \A f, d : [p EXCEPT !.fails = f, !.step = 0, !.due = d].step = 0
    BY DEF IsPoll, PollFields
  <2> QED BY <2>1 DEF RecordFailure
<1>3. \A r : RecordSuccess(p, r).step = 0
  <2>1. \A r, d : [p EXCEPT !.good = r, !.age = 0, !.fails = 0, !.step = 0, !.due = d].step = 0
    BY DEF IsPoll, PollFields
  <2> QED BY <2>1 DEF RecordSuccess
<1>4. RecordInProgress(p).step = p.step + 1
  BY DEF RecordInProgress, IsPoll, PollFields
<1> DEFINE a == Attempted(s, p, outcome)
<1>5. a.step = 0 \/ (a.step = p.step + 1 /\ p.step + 1 < ReadSteps[s])
  <2>1. CASE ReadPending(s, p) /\ outcome # Absent
    <3>1. a = RecordInProgress(p)
      BY <2>1, Zenon DEF Attempted
    <3> HIDE DEF a
    <3> QED BY <1>4, <2>1, <3>1 DEF ReadPending
  <2>2. CASE ~(ReadPending(s, p) /\ outcome # Absent)
    <3>1. a = RecordFailure(p) \/ a = RecordSuccess(p, CompletedRead(outcome))
      BY <2>2 DEF Attempted
    <3> HIDE DEF a
    <3> QED BY <1>2, <1>3, <3>1
  <2> QED BY <2>1, <2>2
<1> HIDE DEF a
<1>6. a.step \in Nat /\ a.step < ReadSteps[s]
  BY <1>1, <1>5
<1> QED BY <1>6 DEF a

LEMMA StepsKept ==
    ASSUME EnergyCounts, NEW outcome, PollSources(outcome), NEW s \in Configured
    PROVE  polls'[s].step \in Nat /\ polls'[s].step < ReadSteps[s]
<1> DEFINE attempt == \E t \in Configured : DueNow(t)
           older == [t \in Configured |-> [polls[t] EXCEPT !.age = Min({@ + 1, LargestAge})]]
           after == IF attempt THEN [older EXCEPT ![NextDue] = Attempted(NextDue, @, outcome)] ELSE older
<1>1. polls' = [t \in Configured |-> [after[t] EXCEPT !.due = Max({@ - 1, 0})]]
  BY DEF PollSources
<1>2. IsPoll(polls[s]) /\ polls[s].step \in Nat /\ polls[s].step < ReadSteps[s]
  BY DEF EnergyCounts, TurnsKept
<1>3. IsPoll(older[s]) /\ older[s].step = polls[s].step
  <2> DEFINE a == Min({polls[s].age + 1, LargestAge})
  <2>1. older[s] = [polls[s] EXCEPT !.age = a]
    OBVIOUS
  <2> HIDE DEF a, older
  <2> QED BY <1>2, <2>1, AgedPoll, StepFields
<1>4. DOMAIN older = Configured
  OBVIOUS
<1> HIDE DEF older, attempt
<1>5. IsPoll(after[s]) /\ after[s].step \in Nat /\ after[s].step < ReadSteps[s]
  <2>1. CASE attempt /\ s = NextDue
    <3>1. after[s] = Attempted(s, older[s], outcome)
      BY <1>4, <2>1
    <3> HIDE DEF after
    <3>2. older[s].step \in Nat /\ older[s].step < ReadSteps[s]
      BY <1>2, <1>3
    <3> QED BY <1>3, <3>1, <3>2, AttemptShape, AttemptSteps
  <2>2. CASE ~(attempt /\ s = NextDue)
    <3>1. after[s] = older[s]
      BY <1>4, <2>2
    <3> QED BY <1>2, <1>3, <3>1
  <2> QED BY <2>1, <2>2
<1> DEFINE d == Max({after[s].due - 1, 0})
<1>6. polls'[s] = [after[s] EXCEPT !.due = d]
  BY <1>1
<1> HIDE DEF after, d
<1>7. polls'[s].step = after[s].step
  BY <1>5, <1>6, StepFields
<1> QED BY <1>5, <1>7

\* The failing samples of the primary are counted up to the failover.
LEMMA InvalidCounted ==
    ASSUME EnergyCounts, NEW gw
    PROVE  Resolved(gw).fusion.invalid \in 0..FailoverSamples
<1> DEFINE f == RecordPrimary([fusion EXCEPT !.last.age = Min({@ + 1, LargestAge})])
           backup == Reading(gw.grid, gw.age)
           usable == BackupUsable(gw)
           counted == [f EXCEPT !.invalid = Min({f.invalid + 1, FailoverSamples})]
           chosen == CASE f.active = "none" -> SelectInitial(f, backup, usable)
                       [] f.active = "primary" -> SelectWhilePrimary(f, backup, usable)
                       [] f.active = "backup" -> SelectWhileBackup(f, backup, usable)
           Ok(g) == IsFusion(g) /\ g.invalid \in 0..FailoverSamples
<1>1. Ok(f) /\ f.active \in {"none", "primary", "backup"}
  <2>1. \A e : IsFusion(RecordPrimary([fusion EXCEPT !.last.age = e]))
               /\ RecordPrimary([fusion EXCEPT !.last.age = e]).invalid = fusion.invalid
    BY DEF EnergyCounts, RecoveryCounted, IsFusion, RecordPrimary
  <2>2. IsFusion(f) /\ f.invalid = fusion.invalid
    BY <2>1
  <2> QED BY <2>2 DEF EnergyCounts, IsFusion
<1>2. Resolved(gw) = Compared(chosen, backup, PrimaryUsable /\ usable)
  BY DEF Resolved
<1>3. 0 \in 0..FailoverSamples /\ FailoverSamples \in Nat
  BY EsAssumption DEF EsAssumption
<1> HIDE DEF f, backup, usable
<1>4. \A g : Ok(g) => /\ Ok(ActivatePrimary(g)) /\ Ok(ActivateBackup(g))
                      /\ Ok([g EXCEPT !.invalid = 0]) /\ Ok(RecordRecovery(g))
  BY <1>3 DEF IsFusion, ActivatePrimary, ActivateBackup, RecordRecovery
<1>5. Ok(counted)
  <2> DEFINE n == Min({f.invalid + 1, FailoverSamples})
  <2>1. n \in 0..FailoverSamples
    <3>1. f.invalid \in 0..FailoverSamples /\ f.invalid + 1 \in Int
      BY <1>1, <1>3
    <3>2. Min({f.invalid + 1, FailoverSamples})
            = IF f.invalid + 1 <= FailoverSamples THEN f.invalid + 1 ELSE FailoverSamples
      BY <1>3, <3>1, MinOfTwo
    <3> QED BY <1>3, <3>1, <3>2
  <2>2. counted = [f EXCEPT !.invalid = n]
    OBVIOUS
  <2> HIDE DEF n, counted
  <2> QED BY <1>1, <2>1, <2>2 DEF IsFusion
<1>6. Ok(chosen.fusion)
  <2> HIDE DEF Ok, counted
  <2>1. Ok(SelectInitial(f, backup, usable).fusion)
    BY <1>1, <1>4 DEF SelectInitial, Selection
  <2>2. Ok(SelectWhilePrimary(f, backup, usable).fusion)
    <3>1. SelectWhilePrimary(f, backup, usable).fusion
            \in {[f EXCEPT !.invalid = 0], counted, ActivateBackup(f), ActivateBackup(counted)}
      BY DEF SelectWhilePrimary, Selection, counted
    <3> QED BY <1>1, <1>4, <1>5, <3>1
  <2>3. Ok(SelectWhileBackup(f, backup, usable).fusion)
    <3>1. SelectWhileBackup(f, backup, usable).fusion
            \in {RecordRecovery(f), ActivatePrimary(RecordRecovery(f))}
      BY DEF SelectWhileBackup, Selection
    <3> QED BY <1>1, <1>4, <3>1
  <2> QED BY <1>1, <2>1, <2>2, <2>3
<1> HIDE DEF chosen, Ok
<1>7. Ok(Compared(chosen, backup, PrimaryUsable /\ usable).fusion)
  <2>1. \A g, n : Ok(g) => Ok([g EXCEPT !.mismatch = n])
    BY DEF Ok, IsFusion
  <2>2. \E n : Compared(chosen, backup, PrimaryUsable /\ usable).fusion
                   = [chosen.fusion EXCEPT !.mismatch = n]
    BY DEF Compared, Selection
  <2> QED BY <1>6, <2>1, <2>2
<1> QED BY <1>2, <1>7 DEF Ok

\* For any sources, reads and gateway values: a read never counts more parts than it
\* has, and the failing and the recovering samples of the primary grid meter are
\* counted at most up to the number that switches (energy/grid_fusion.py).
THEOREM CountsStayInRange == EsSpec => []EsTypeOK
<1>1. EsInit => EnergyCounts
  BY EsAssumption DEF EsInit, EnergyCounts, TurnsKept, RecoveryCounted, EsAssumption, IsPoll,
     PollFields, IsFusion
<1>2. EnergyCounts /\ [EsNext]_esVars => EnergyCounts'
  <2>1. ASSUME EnergyCounts, EnergyCycle PROVE EnergyCounts'
    <3>0. \E gw \in GatewayInputs : \E outcome :
             PollSources(outcome) /\ fusion' = Resolved(gw).fusion /\ SoundCounts
      BY <2>1 DEF EnergyCycle, SoundCounts
    <3>1. PICK gw, outcome : PollSources(outcome) /\ fusion' = Resolved(gw).fusion /\ SoundCounts
      BY <3>0
    <3>2. TurnsKept'
      BY <2>1, <3>1, TurnsStep DEF EnergyCounts
    <3>3. Earned(fusion')
      BY <2>1, <3>1, FusionEarned, EsAssumption DEF EnergyCounts
    <3>4. RecoveryCounted'
      BY <2>1, <3>1, <3>3, SoundSamples, EsAssumption DEF RecoveryCounted, Earned, IsFusion, EnergyCounts
    <3>5. fusion'.invalid \in 0..FailoverSamples
      BY <2>1, <3>1, InvalidCounted
    <3>6. \A s \in Configured : polls'[s].step \in Nat /\ polls'[s].step < ReadSteps[s]
      BY <2>1, <3>1, StepsKept
    <3> QED BY <3>2, <3>4, <3>5, <3>6 DEF EnergyCounts
  <2>2. ASSUME EnergyCounts, UNCHANGED esVars PROVE EnergyCounts'
    BY <2>2 DEF EnergyCounts, TurnsKept, RecoveryCounted, IsFusion, esVars, DueNow, AfterCursor
  <2> QED BY <2>1, <2>2 DEF EsNext
<1>3. EnergyCounts => EsTypeOK
  <2> SUFFICES ASSUME EnergyCounts PROVE EsTypeOK
    OBVIOUS
  <2>1. fusion.recovery \in 0..RecoverySamples
    BY EsAssumption DEF EsAssumption, EnergyCounts, RecoveryCounted, IsFusion
  <2> QED BY <2>1 DEF EnergyCounts, TurnsKept, RecoveryCounted, IsFusion, EsTypeOK
<1> QED BY <1>1, <1>2, <1>3, PTL DEF EsSpec

(***************************************************************************)
(* The health of a cycle: a lockout is a health of its own, and a health   *)
(* leaves the relay nothing but an off.                                    *)
(***************************************************************************)
\* A cycle that finds the lockout, or sets it, has a health to report.
LEMMA LockoutIsAHealth ==
    ASSUME NEW r, NEW m, FaultsAfter(r, m).lockout # ChNone
    PROVE  SwitchHealth(r, m) # ChNone
BY ChAssumption, Zenon DEF SwitchHealth, SafetyFault, ChAssumption

\* A command that is not wanted on is never sent as an on.
LEMMA UnwantedStaysOff ==
    ASSUME NEW outcome
    PROVE  Commanded(outcome, FALSE) # "on"
BY DEF Commanded

LEMMA OnlineKeepsLockout ==
    ASSUME NEW r, OnlineCycle(r)
    PROVE  LockoutHolds'
<1> DEFINE m == ResolvedMeter(r)
           health == SwitchHealth(r, m)
           chargerHealth == ChargerHealth(r, transport)
           desired == r.desire /\ health = ChNone /\ chargerHealth = ChNone
           afterAmps == AfterWrite(AmpsOutcome(r, desired, transport), transport)
           outcome == EnableOutcome(r, desired, m.on, afterAmps)
<1>1. faults' = FaultsAfter(r, m) /\ sent' = Commanded(outcome, desired)
  BY DEF OnlineCycle
<1>2. ASSUME FaultsAfter(r, m).lockout # ChNone
      PROVE  desired = FALSE
  BY <1>2, LockoutIsAHealth, Zenon
<1> HIDE DEF m, desired, outcome
<1>3. FaultsAfter(r, m).lockout # ChNone => Commanded(outcome, desired) # "on"
  BY <1>2, UnwantedStaysOff, Zenon
<1> QED
  BY <1>1, <1>3, Zenon DEF LockoutHolds

\* A locked-out contactor is not switched on by a cycle, for any readings, windows
\* and counts, until the lockout is reset (relay_charger_health.py).
THEOREM LockoutsHold == ChSpec => []LockoutHolds
<1>1. ChInit => LockoutHolds
  BY DEF ChInit, LockoutHolds
<1>2. LockoutHolds /\ [ChNext]_chVars => LockoutHolds'
  <2> SUFFICES ASSUME LockoutHolds, [ChNext]_chVars
               PROVE  LockoutHolds'
    OBVIOUS
  <2>1. ASSUME NEW r \in ChReadings, OfflineCycle(r) PROVE LockoutHolds'
    BY <2>1 DEF OfflineCycle, LockoutHolds
  <2>2. ASSUME NEW r \in ChReadings, OnlineCycle(r) PROVE LockoutHolds'
    BY <2>2, OnlineKeepsLockout
  <2>3. CASE Ages
    BY <2>3 DEF Ages, LockoutHolds
  <2>4. CASE ManualStart
    BY <2>4 DEF ManualStart, LockoutHolds
  <2>5. CASE ResetLockout
    BY <2>5 DEF ResetLockout, LockoutHolds
  <2>6. CASE UNCHANGED chVars
    BY <2>6 DEF chVars, LockoutHolds
  <2> QED
    BY <2>1, <2>2, <2>3, <2>4, <2>5, <2>6 DEF ChNext
<1> QED BY <1>1, <1>2, PTL DEF ChSpec

(***************************************************************************)
(* Contactor health: the accounts of the faults fit together.              *)
(***************************************************************************)
FaultType ==
    [counts : [Reasons -> Nat], active : Reasons \cup {ChNone}, since : Int,
     lockout : Reasons \cup {ChNone}]
FaultAccounts(f, s) ==
    /\ f \in FaultType
    /\ f.active # ChNone => f.counts[f.active] > 0
    /\ f.lockout # ChNone => f.counts[f.lockout] > 0
    /\ f.active # ChNone /\ f.lockout = ChNone => s[f.active] # ChNone
AgesOk(s) == s \in [Reasons -> Int \cup {ChNone}]
HealthInv ==
    /\ FaultAccounts(faults, suspects) /\ AgesOk(suspects)
    /\ sync.expected \in {TRUE, FALSE, ChNone} /\ sync = [expected |-> sync.expected, left |-> sync.left]
    /\ status \in {0, 1, 2, 3, 4, 6}

LEMMA NoneIsNoReason ==
    /\ ChNone \notin Int /\ "open" # ChNone /\ "welded" # ChNone /\ LatchCount \in Nat
    /\ ChSoftFail \in Nat /\ LatchTicks \in Nat
BY ChAssumption DEF ChAssumption

\* A fault that begins or goes on is counted, and only that one locks out.
LEMMA FaultRemembered ==
    ASSUME NEW f, NEW s, NEW old, FaultAccounts(f, old), f.lockout = ChNone,
           NEW reason \in Reasons, s[reason] # ChNone
    PROVE  FaultAccounts(RememberFault(f, reason), s)
<1> DEFINE g == Activated(f, reason)
<1>0. reason # ChNone
  BY NoneIsNoReason DEF Reasons
<1>1. /\ g \in FaultType
      /\ g.active = reason /\ g.counts[reason] > 0 /\ g.lockout = ChNone
  <2>1. CASE f.active = reason
    BY <1>0, <2>1 DEF Activated, FaultAccounts, FaultType
  <2>2. CASE f.active # reason
    <3> DEFINE n == IF f.counts[reason] < ChMax(1, LatchCount) THEN f.counts[reason] + 1
                    ELSE f.counts[reason]
               counts == [f.counts EXCEPT ![reason] = n]
    <3>1. n \in Nat /\ n > 0
      BY NoneIsNoReason DEF FaultAccounts, FaultType, ChMax
    <3>2. g = [f EXCEPT !.active = reason, !.since = 0, !.counts = counts]
      BY <2>2 DEF Activated, FaultAccounts, FaultType
    <3> HIDE DEF n
    <3>3. counts \in [Reasons -> Nat] /\ counts[reason] > 0
      BY <3>1 DEF FaultAccounts, FaultType
    <3> HIDE DEF counts, g
    <3>4. f \in FaultType
      BY DEF FaultAccounts
    <3>5. reason \in Reasons \cup {ChNone} /\ 0 \in Int
      OBVIOUS
    <3> DEFINE h == [f EXCEPT !.active = reason]  i == [h EXCEPT !.since = 0]
    <3>6. h \in FaultType /\ h.active = reason /\ h.lockout = f.lockout
      BY <3>4, <3>5 DEF FaultType
    <3>7. g = [i EXCEPT !.counts = counts]
      BY <3>2
    <3> HIDE DEF h
    <3>8. i \in FaultType /\ i.active = reason /\ i.lockout = f.lockout
      BY <3>5, <3>6 DEF FaultType
    <3> HIDE DEF i
    <3>9. /\ g \in FaultType
          /\ g.active = reason /\ g.counts = counts /\ g.lockout = f.lockout
      BY <3>3, <3>7, <3>8 DEF FaultType
    <3> QED BY <3>3, <3>9
  <2> QED BY <2>1, <2>2
<1> HIDE DEF g
<1>2. RememberFault(f, reason) = g \/ RememberFault(f, reason) = [g EXCEPT !.lockout = reason]
  BY DEF RememberFault, g
<1>3. FaultAccounts(g, s)
  BY <1>1 DEF FaultAccounts, FaultType
<1>4. FaultAccounts([g EXCEPT !.lockout = reason], s)
  BY <1>0, <1>1 DEF FaultAccounts, FaultType
<1> QED BY <1>2, <1>3, <1>4

LEMMA InactiveAccounts ==
    ASSUME NEW f, NEW s, NEW old, FaultAccounts(f, old)
    PROVE  FaultAccounts(Inactive(f), s)
<1> DEFINE g == Inactive(f)  h == [f EXCEPT !.active = ChNone]
<1>1. f \in FaultType
  BY DEF FaultAccounts
<1>2. h \in FaultType /\ h.active = ChNone /\ h.counts = f.counts /\ h.lockout = f.lockout
  BY <1>1 DEF FaultType
<1>3. g = [h EXCEPT !.since = 0]
  BY DEF Inactive
<1> HIDE DEF h
<1>4. /\ g \in FaultType
      /\ g.active = ChNone /\ g.counts = f.counts /\ g.lockout = f.lockout
  BY <1>2, <1>3 DEF FaultType
<1> HIDE DEF g
<1> QED BY <1>4 DEF FaultAccounts, g

LEMMA SuspectsTyped ==
    ASSUME AgesOk(suspects), NEW r, NEW m
    PROVE  AgesOk(SuspectAges(r, m)) /\ AgesOk(SuspectsAfter(r, m))
<1>1. AgesOk(SuspectAges(r, m))
  <2>1. suspects.open \in Int \cup {ChNone} /\ suspects.welded \in Int \cup {ChNone}
    BY DEF AgesOk, Reasons
  <2>2. HeuristicAge(suspects.open, SuspectedOpen(r, m)) \in Int \cup {ChNone}
    BY <2>1 DEF HeuristicAge
  <2>3. HeuristicAge(suspects.welded, SuspectedWelded(r, m)) \in Int \cup {ChNone}
    BY <2>1 DEF HeuristicAge
  <2> QED BY <2>2, <2>3 DEF SuspectAges, AgesOk, Reasons
<1>2. AgesOk([open |-> ChNone, welded |-> ChNone])
  BY DEF AgesOk, Reasons
<1> QED BY <1>1, <1>2 DEF SuspectsAfter

\* The faults of an online cycle.
LEMMA CycleAccounts ==
    ASSUME HealthInv, NEW r, NEW m
    PROVE  FaultAccounts(FaultsAfter(r, m), SuspectsAfter(r, m))
<1>1. CASE SafetyFault(r, m)
  BY <1>1, InactiveAccounts DEF FaultsAfter, HealthInv
<1>2. CASE ~SafetyFault(r, m) /\ faults.lockout # ChNone
  BY <1>2 DEF FaultsAfter, SuspectsAfter, HealthInv
<1>3. CASE ~SafetyFault(r, m) /\ faults.lockout = ChNone
  <2> DEFINE s == SuspectAges(r, m)  reason == SuspectedReason(s)
  <2>1. SuspectsAfter(r, m) = s
    BY <1>3 DEF SuspectsAfter
  <2>2. CASE reason = ChNone
    <3>1. FaultsAfter(r, m) = Inactive(faults)
      BY <1>3, <2>2 DEF FaultsAfter
    <3> QED BY <3>1, InactiveAccounts DEF HealthInv
  <2>3. CASE reason # ChNone
    <3>1. FaultsAfter(r, m) = RememberFault(faults, reason)
      BY <1>3, <2>3 DEF FaultsAfter
    <3>2. reason \in Reasons /\ s[reason] # ChNone
      <4> HIDE DEF s
      <4> QED BY <2>3 DEF SuspectedReason, Reasons
    <3> HIDE DEF s, reason
    <3>3. FaultAccounts(RememberFault(faults, reason), s)
      BY <1>3, <3>2, FaultRemembered DEF HealthInv
    <3> QED BY <2>1, <3>1, <3>3
  <2> QED BY <2>2, <2>3
<1> QED BY <1>1, <1>2, <1>3

\* A status code the service knows.
LEMMA StatusKnown ==
    ASSUME NEW r, NEW health, NEW chargerHealth, NEW on, NEW load
    PROVE  StatusCode(r, health, chargerHealth, on, load) \in {0, 1, 2, 3, 4, 6}
<1>1. \A text, auto : TextStatus(text, auto) \in {ChNone, 2, 3, 4, 6}
  <2> TAKE text, auto
  <2>1. CASE text = "finished"
    BY <2>1 DEF TextStatus
  <2>2. CASE text = "waiting"
    BY <2>2 DEF TextStatus
  <2>3. CASE text = "charging"
    BY <2>3 DEF TextStatus
  <2>4. CASE text \notin {"finished", "waiting", "charging"}
    BY <2>4 DEF TextStatus
  <2> QED BY <2>1, <2>2, <2>3, <2>4
<1> QED BY <1>1 DEF StatusCode

\* Time passing ages what is suspected and the episode that is under way.
LEMMA AgesKeep ==
    ASSUME HealthInv, Ages
    PROVE  FaultAccounts(faults', suspects') /\ AgesOk(suspects')
<1>1. \A age \in Int \cup {ChNone}, cap \in Nat :
         /\ ChOlder(age, cap) \in Int \cup {ChNone}
         /\ ChOlder(age, cap) = ChNone <=> age = ChNone
  BY NoneIsNoReason DEF ChOlder
<1>2. suspects' = [reason \in Reasons |-> ChOlder(suspects[reason], ChSoftFail)]
  BY DEF Ages, HealthInv, AgesOk
<1>3. AgesOk(suspects') /\ \A reason \in Reasons : suspects'[reason] = ChNone <=> suspects[reason] = ChNone
  BY <1>1, <1>2, NoneIsNoReason DEF AgesOk, HealthInv
<1> DEFINE since == IF faults.active = ChNone THEN 0 ELSE ChOlder(faults.since, LatchTicks)
<1>4. faults' = [faults EXCEPT !.since = since]
  BY DEF Ages, HealthInv, FaultAccounts, FaultType
<1>5. since \in Int
  <2>1. faults.since \in Int
    BY DEF HealthInv, FaultAccounts, FaultType
  <2> QED BY <2>1, NoneIsNoReason DEF ChOlder
<1> HIDE DEF since
<1>6. /\ faults' \in FaultType
      /\ faults'.counts = faults.counts /\ faults'.active = faults.active
      /\ faults'.lockout = faults.lockout
  BY <1>4, <1>5 DEF HealthInv, FaultAccounts, FaultType
<1> QED BY <1>3, <1>6 DEF HealthInv, FaultAccounts, FaultType

\* For any readings, timeouts and limits: only a counted fault locks the contactor
\* out, an active fault without lockout is one whose suspicion lasts, and the status
\* is one the service knows (update/relay_charger_health.py:256).
THEOREM FaultsAreCounted == ChSpec => []ChTypeOK
<1>1. ChInit => HealthInv
  <2> SUFFICES ASSUME ChInit PROVE HealthInv
    OBVIOUS
  <2>1. AgesOk(suspects)
    BY DEF ChInit, AgesOk, Reasons
  <2>2. FaultAccounts(faults, suspects)
    BY DEF ChInit, FaultAccounts, FaultType
  <2> QED BY <2>1, <2>2 DEF ChInit, HealthInv, NoSync
<1>2. HealthInv /\ [ChNext]_chVars => HealthInv'
  <2> SUFFICES ASSUME HealthInv, [ChNext]_chVars PROVE HealthInv'
    OBVIOUS
  <2> DEFINE SyncOk(x) == x.expected \in {TRUE, FALSE, ChNone}
                          /\ x = [expected |-> x.expected, left |-> x.left]
  <2>0. SyncOk(sync) /\ SyncOk(NoSync) /\ \A d \in BOOLEAN : SyncOk(SyncRequested(d))
    BY DEF HealthInv, NoSync, SyncRequested
  <2>1. ASSUME NEW r \in ChReadings, OfflineCycle(r) PROVE HealthInv'
    BY <2>1 DEF OfflineCycle, HealthInv
  <2>2. ASSUME NEW r \in ChReadings, OnlineCycle(r) PROVE HealthInv'
    <3> DEFINE m == ResolvedMeter(r)
               desired == r.desire /\ SwitchHealth(r, m) = ChNone
                          /\ ChargerHealth(r, transport) = ChNone
    <3>1. faults' = FaultsAfter(r, m) /\ suspects' = SuspectsAfter(r, m)
      BY <2>2 DEF OnlineCycle
    <3>2. FaultAccounts(faults', suspects') /\ AgesOk(suspects')
      <4> HIDE DEF m
      <4> QED BY <3>1, CycleAccounts, SuspectsTyped DEF HealthInv
    <3>3. \E s, on, confirmed : sync' = SyncAfter(s, on, confirmed) /\ SyncOk(s)
      <4>1. desired \in BOOLEAN
        OBVIOUS
      <4>2. \E on, confirmed : \/ sync' = SyncAfter(SyncRequested(desired), on, confirmed)
                               \/ sync' = SyncAfter(sync, on, confirmed)
        BY <2>2 DEF OnlineCycle
      <4> HIDE DEF desired, SyncOk
      <4> QED BY <2>0, <4>1, <4>2
    <3>4. SyncOk(sync')
      <4> HIDE DEF SyncOk
      <4> QED BY <2>0, <3>3 DEF SyncAfter
    <3>5. \E health, chargerHealth, on, load :
              status' = StatusCode(r, health, chargerHealth, on, load)
      BY <2>2 DEF OnlineCycle
    <3>6. status' \in {0, 1, 2, 3, 4, 6}
      BY <3>5, StatusKnown
    <3> QED BY <3>2, <3>4, <3>6 DEF HealthInv
  <2>3. CASE Ages
    <3>1. SyncOk(sync') /\ status' = status
      BY <2>0, <2>3 DEF Ages
    <3> QED BY <2>3, <3>1, AgesKeep DEF HealthInv
  <2>4. CASE ManualStart
    <3>1. SyncOk(sync')
      <4> HIDE DEF SyncOk
      <4> QED BY <2>0, <2>4 DEF ManualStart
    <3> QED BY <2>4, <3>1 DEF ManualStart, HealthInv
  <2>5. CASE ResetLockout
    <3>1. AgesOk(suspects')
      BY <2>5 DEF ResetLockout, AgesOk, Reasons
    <3>2. FaultAccounts(faults', suspects')
      BY <2>5 DEF ResetLockout, FaultAccounts, FaultType
    <3> QED BY <2>5, <3>1, <3>2 DEF ResetLockout, HealthInv
  <2>6. CASE UNCHANGED chVars
    BY <2>6 DEF chVars, HealthInv, AgesOk
  <2> QED BY <2>1, <2>2, <2>3, <2>4, <2>5, <2>6 DEF ChNext
<1>3. HealthInv => ChTypeOK
  BY DEF HealthInv, FaultAccounts, FaultType, ChTypeOK
<1> QED BY <1>1, <1>2, <1>3, PTL DEF ChSpec

(***************************************************************************)
(* The learned power: "unknown" has no value, so a value becomes stable    *)
(* only from a stable one or by passing the test while it is learned.      *)
(***************************************************************************)
ProfileFields == {"state", "power", "age", "since", "samples", "phase", "volt", "mismatches",
                  "checked", "score"}
IsProfile(p) == DOMAIN p = ProfileFields /\ p = [f \in ProfileFields |-> p[f]]

\* A profile that may be stable only if its value is backed.
Vouched(p, proof) ==
    /\ IsProfile(p)
    /\ p.state \in {"unknown", "learning", "stable", "stale"}
    /\ p.state = "unknown" => p.power = LpNone
    /\ p.state = "stable" => proof

LearningInv == Vouched(profile, backed)

LEMMA ClearedVouched ==
    ASSUME NEW p, NEW proof
    PROVE  Vouched(Cleared(p), proof) /\ Cleared(p).state = "unknown"
BY DEF Cleared, Vouched, IsProfile, ProfileFields

LEMMA StableShape ==
    ASSUME NEW p, IsProfile(p), NEW power, NEW age, NEW phase, NEW volt, NEW mismatches, NEW checked
    PROVE  /\ IsProfile(StablePower(p, power, age, phase, volt, mismatches, checked))
           /\ StablePower(p, power, age, phase, volt, mismatches, checked).state = "stable"
<1>1. \A samples :
        LET q == [p EXCEPT !.state = "stable", !.power = power, !.age = age, !.since = LpNone,
                           !.samples = samples, !.phase = phase,
                           !.volt = volt, !.mismatches = mismatches, !.checked = checked]
        IN  IsProfile(q) /\ q.state = "stable"
  BY DEF IsProfile, ProfileFields
<1> QED
  BY <1>1 DEF StablePower

\* The stored value is refreshed: no value becomes stable by that.
LEMMA RefreshVouches ==
    ASSUME NEW p, NEW proof, Vouched(p, proof)
    PROVE  /\ Vouched(Refreshed(p), proof)
           /\ Refreshed(p).state = "learning" => p.state = "learning"
           /\ Refreshed(p).state = "stable" => p.state = "stable"
<1>1. CASE p.power = LpNone \/ PhaseChanged(p)
  BY <1>1, ClearedVouched DEF Refreshed
<1>2. CASE ~(p.power = LpNone \/ PhaseChanged(p)) /\ Stale(p)
  <2>1. Refreshed(p) = StalePower(p)
    BY <1>2 DEF Refreshed
  <2>2. Vouched(StalePower(p), proof) /\ StalePower(p).state = "stale"
    BY DEF StalePower, Vouched, IsProfile, ProfileFields
  <2> QED BY <2>1, <2>2
<1>3. CASE ~(p.power = LpNone \/ PhaseChanged(p)) /\ ~Stale(p)
  <2>1. p.state # "unknown"
    BY <1>3 DEF Vouched
  <2>2. Refreshed(p) = p \/ Refreshed(p) = [p EXCEPT !.phase = ResolvedPhase(p)]
    BY <1>3, <2>1 DEF Refreshed
  <2>3. \A phase : LET q == [p EXCEPT !.phase = phase]
                   IN  Vouched(q, proof) /\ q.state = p.state
    BY DEF Vouched, IsProfile, ProfileFields
  <2> QED BY <2>2, <2>3
<1> QED BY <1>1, <1>2, <1>3

\* Comparing a stable value with the session keeps it stable or forgets it.
LEMMA ReconcileVouches ==
    ASSUME NEW p, NEW m, NEW proof, Vouched(p, proof)
    PROVE  /\ Vouched(Reconciled(p, m), proof)
           /\ Reconciled(p, m).state = "learning" => p.state = "learning"
<1>1. CASE Reconciled(p, m) = p
  BY <1>1
<1>2. CASE Reconciled(p, m) = Cleared(p)
  BY <1>2, ClearedVouched
<1>3. CASE p.state = "stable" /\ \E count :
             Reconciled(p, m) = StablePower(p, p.power, p.age, ResolvedPhase(p), p.volt, count, TRUE)
  <2>1. PICK count :
          Reconciled(p, m) = StablePower(p, p.power, p.age, ResolvedPhase(p), p.volt, count, TRUE)
    BY <1>3
  <2> DEFINE q == StablePower(p, p.power, p.age, ResolvedPhase(p), p.volt, count, TRUE)
  <2>5. IsProfile(p)
    BY DEF Vouched
  <2>2. IsProfile(q) /\ q.state = "stable"
    BY <2>5, StableShape, Zenon
  <2>4. Reconciled(p, m) = q
    BY <2>1
  <2> HIDE DEF q
  <2>3. IsProfile(Reconciled(p, m)) /\ Reconciled(p, m).state = "stable"
    BY <2>2, <2>4
  <2> QED BY <1>3, <2>3 DEF Vouched
<1> QED
  BY <1>1, <1>2, <1>3, Zenon DEF Reconciled, MismatchCounted

\* What a sample makes of the estimate: stable only if it was, or was learned and
\* has passed the test with this sample.
LEMMA SampleVouches ==
    ASSUME NEW p, NEW power, NEW volt, NEW proof, Vouched(p, proof)
    PROVE  Vouched(SampleApplied(p, power, volt), proof \/ p.state = "learning")
<1> DEFINE won == proof \/ p.state = "learning"
<1>1. Vouched(RestartedLearning(p, power, volt), won)
  BY DEF RestartedLearning, Vouched, IsProfile, ProfileFields
<1>2. ASSUME p.state = "stable"
      PROVE  \A new, at, phase, v, score :
                Vouched([StablePower(p, new, at, phase, v, 0, TRUE) EXCEPT !.score = score], won)
  <2> SUFFICES ASSUME NEW new, NEW at, NEW phase, NEW v, NEW score
               PROVE  Vouched([StablePower(p, new, at, phase, v, 0, TRUE) EXCEPT !.score = score], won)
    OBVIOUS
  <2> DEFINE q == StablePower(p, new, at, phase, v, 0, TRUE)
  <2>1. IsProfile(q) /\ q.state = "stable" /\ proof
    BY <1>2, StableShape DEF Vouched
  <2> HIDE DEF q
  <2>2. IsProfile([q EXCEPT !.score = score]) /\ [q EXCEPT !.score = score].state = "stable"
    BY <2>1 DEF IsProfile, ProfileFields
  <2> QED
    BY <2>1, <2>2 DEF Vouched, q
<1>3. ASSUME p.state = "learning"
      PROVE  Vouched(Progressed(p, power, volt), won)
  <2>1. \A score, samples, new, v :
           Vouched(StablePower([p EXCEPT !.score = score, !.samples = samples],
                               new, 0, lpPhase, v, 0, TRUE), won)
    <3> SUFFICES ASSUME NEW score, NEW samples, NEW new, NEW v
                 PROVE  Vouched(StablePower([p EXCEPT !.score = score, !.samples = samples],
                                            new, 0, lpPhase, v, 0, TRUE), won)
      OBVIOUS
    <3>1. IsProfile([p EXCEPT !.score = score, !.samples = samples])
      BY DEF Vouched, IsProfile, ProfileFields
    <3> DEFINE q == StablePower([p EXCEPT !.score = score, !.samples = samples],
                                new, 0, lpPhase, v, 0, TRUE)
    <3>2. IsProfile(q) /\ q.state = "stable"
      BY <3>1, StableShape
    <3> HIDE DEF q
    <3>3. Vouched(q, won)
      BY <1>3, <3>2 DEF Vouched
    <3> QED BY <3>3 DEF q
  <2>2. \A new, since, samples, v, score :
           Vouched([p EXCEPT !.power = new, !.age = 0, !.since = since,
                             !.samples = samples, !.phase = lpPhase,
                             !.volt = v, !.mismatches = 0,
                             !.checked = FALSE, !.score = score], won)
    <3> SUFFICES ASSUME NEW new, NEW since, NEW samples, NEW v, NEW score
                 PROVE  Vouched([p EXCEPT !.power = new, !.age = 0, !.since = since,
                                          !.samples = samples, !.phase = lpPhase,
                                          !.volt = v, !.mismatches = 0,
                                          !.checked = FALSE, !.score = score], won)
      OBVIOUS
    <3> DEFINE q == [p EXCEPT !.power = new, !.age = 0, !.since = since,
                              !.samples = samples, !.phase = lpPhase, !.volt = v]
    <3>1. IsProfile(q) /\ q.state = "learning"
      BY <1>3 DEF Vouched, IsProfile, ProfileFields
    <3> HIDE DEF q
    <3> DEFINE last == [q EXCEPT !.mismatches = 0, !.checked = FALSE, !.score = score]
    <3>2. IsProfile(last) /\ last.state = "learning"
      BY <3>1 DEF IsProfile, ProfileFields
    <3> HIDE DEF last
    <3>3. Vouched(last, won)
      BY <3>2 DEF Vouched
    <3> QED BY <3>3 DEF q, last
  <2> HIDE DEF won
  <2> QED
    BY <1>1, <2>1, <2>2, Zenon DEF Progressed
<1>4. p.state \in {"unknown", "learning", "stable", "stale"}
  BY DEF Vouched
<1> HIDE DEF won
<1>5. CASE RestartsLearning(p)
  BY <1>1, <1>5, Zenon DEF SampleApplied, won
<1>6. CASE ~RestartsLearning(p) /\ p.state = "stable"
  BY <1>2, <1>6, Zenon DEF SampleApplied, won
<1>7. CASE ~RestartsLearning(p) /\ p.state # "stable"
  <2>1. p.state = "learning"
    BY <1>4, <1>7 DEF RestartsLearning
  <2> QED
    BY <1>3, <1>7, <2>1, Zenon DEF SampleApplied, won
<1> QED BY <1>5, <1>6, <1>7

LEMMA UpdateVouches ==
    ASSUME NEW p, NEW at, NEW m, NEW proof, Vouched(p, proof)
    PROVE  Vouched(Updated(p, at, m), proof \/ p.state = "learning")
<1>1. Vouched(p, proof \/ p.state = "learning")
  BY DEF Vouched
<1>2. Vouched(Cleared(p), proof \/ p.state = "learning")
  BY ClearedVouched
<1>3. Vouched([p EXCEPT !.score = 0], proof \/ p.state = "learning")
  BY DEF Vouched, IsProfile, ProfileFields
<1> QED
  BY <1>1, <1>2, <1>3, SampleVouches, Zenon DEF Updated, NoSample

\* For any measurements, windows and restarts: a stable learned power has passed the
\* stability test since the estimate was started over (update/learning*.py).
THEOREM StableWasTested == LpSpec => []StableIsBacked
<1>1. LpInit => LearningInv
  BY ClearedVouched, Zenon DEF LpInit, LearningInv
<1>2. LearningInv /\ [LpNext]_lpVars => LearningInv'
  <2> SUFFICES ASSUME LearningInv, [LpNext]_lpVars
               PROVE  LearningInv'
    OBVIOUS
  <2>1. ASSUME NEW m \in LpMeters, LearnCycle(m) PROVE LearningInv'
    <3> DEFINE before == Reconciled(Refreshed(profile), m)
               at == SessionAfter(m)
               after == Updated(before, at, m)
    <3>1. Vouched(before, backed) 
      BY RefreshVouches, ReconcileVouches DEF LearningInv
    <3> HIDE DEF before
    <3>2. Vouched(after, backed \/ before.state = "learning")
      BY <3>1, UpdateVouches
    <3>3. /\ profile' = [CheckedHere(after, at) EXCEPT !.age = LpOlder(@), !.since = LpOlder(@)]
          /\ backed' = \/ backed /\ after.state \in {"stable", "stale"}
                       \/ after.state = "stable" /\ before.state = "learning"
      BY <2>1 DEF LearnCycle, before
    <3> HIDE DEF after, at
    <3>4. Vouched(CheckedHere(after, at), backed') /\ IsProfile(CheckedHere(after, at))
      <4>1. Vouched(after, backed')
        BY <3>2, <3>3 DEF Vouched
      <4>2. Vouched([after EXCEPT !.checked = FALSE], backed')
        BY <4>1 DEF Vouched, IsProfile, ProfileFields
      <4> QED BY <4>1, <4>2, Zenon DEF CheckedHere, Vouched
    <3>5. \A a, s : Vouched([CheckedHere(after, at) EXCEPT !.age = a, !.since = s], backed')
      BY <3>4 DEF Vouched, IsProfile, ProfileFields
    <3> QED BY <3>3, <3>5 DEF LearningInv
  <2>2. CASE LearnRestart
    <3>1. \A a, s : Vouched([profile EXCEPT !.score = 0, !.checked = FALSE, !.age = a, !.since = s], backed)
      BY DEF LearningInv, Vouched, IsProfile, ProfileFields
    <3> QED BY <2>2, <3>1 DEF LearnRestart, LearningInv
  <2>3. CASE UNCHANGED lpVars
    BY <2>3 DEF lpVars, LearningInv, Vouched
  <2> QED BY <2>1, <2>2, <2>3 DEF LpNext
<1>3. LearningInv => StableIsBacked
  BY DEF LearningInv, Vouched, StableIsBacked
<1> QED BY <1>1, <1>2, <1>3, PTL DEF LpSpec

(***************************************************************************)
(* The learned profile is well formed.                                     *)
(***************************************************************************)
States_ == {"unknown", "learning", "stable", "stale"}
\* A profile with a value knows when it was learned and for which phase.
Whole(state, power, age, phase) ==
    /\ state \in States_
    /\ power = LpNone <=> state = "unknown"
    /\ state # "unknown" => power \in Int /\ age \in Int /\ phase \in LpPhases
    /\ phase \in LpPhases \cup {LpNone}
    /\ age \in Int \cup {LpNone}
WellFormed(p) ==
    /\ IsProfile(p)
    /\ Whole(p.state, p.power, p.age, p.phase)
    /\ p.mismatches \in 0..(MismatchSessions - 1)
    /\ p.score \in 0..100
ProfileInv == WellFormed(profile) /\ lpPhase \in LpPhases

LEMMA LpConstants ==
    /\ LpNone \notin Int /\ LpNone \notin LpPhases
    /\ 0 \in 0..(MismatchSessions - 1)
    /\ PowerTolerance \in Nat \ {0}
    /\ 0 \in Int /\ 0 \in 0..100
BY LpAssumption DEF LpAssumption

LEMMA ClearedFormed ==
    ASSUME NEW p, p.score \in 0..100
    PROVE  WellFormed(Cleared(p))
<1>1. IsProfile(Cleared(p))
  BY DEF Cleared, IsProfile, ProfileFields
<1> QED BY <1>1, LpConstants DEF Cleared, WellFormed, Whole, States_

\* What is stored as stable has the value, time and phase it was given.
LEMMA StableFormed ==
    ASSUME NEW p, IsProfile(p), p.score \in 0..100, NEW power \in Int, NEW age \in Int,
           NEW phase \in LpPhases, NEW volt, NEW mismatches \in 0..(MismatchSessions - 1), NEW checked
    PROVE  WellFormed(StablePower(p, power, age, phase, volt, mismatches, checked))
<1>1. \A samples :
        LET q == [p EXCEPT !.state = "stable", !.power = power, !.age = age, !.since = LpNone,
                           !.samples = samples, !.phase = phase,
                           !.volt = volt, !.mismatches = mismatches, !.checked = checked]
        IN  /\ IsProfile(q) /\ q.state = "stable" /\ q.power = power /\ q.age = age
            /\ q.phase = phase /\ q.mismatches = mismatches /\ q.score = p.score
  BY DEF IsProfile, ProfileFields
<1> DEFINE s == StablePower(p, power, age, phase, volt, mismatches, checked)
<1>2. /\ IsProfile(s) /\ s.state = "stable" /\ s.power = power /\ s.age = age
      /\ s.phase = phase /\ s.mismatches = mismatches /\ s.score = p.score
  BY <1>1 DEF StablePower
<1> HIDE DEF s
<1>3. WellFormed(s)
  BY <1>2, LpConstants DEF WellFormed, Whole, States_
<1> QED BY <1>3 DEF s

LEMMA RefreshFormed ==
    ASSUME ProfileInv
    PROVE  WellFormed(Refreshed(profile))
<1> DEFINE p == profile
<1>0. WellFormed(p) /\ lpPhase \in LpPhases
  BY DEF ProfileInv
<1> HIDE DEF p
<1>1. CASE p.power = LpNone \/ PhaseChanged(p)
  BY <1>0, <1>1, ClearedFormed DEF Refreshed, WellFormed, p
<1>2. CASE ~(p.power = LpNone \/ PhaseChanged(p)) /\ Stale(p)
  <2>1. /\ IsProfile(StalePower(p)) /\ StalePower(p).state = "stale"
        /\ StalePower(p).power = p.power /\ StalePower(p).age = p.age /\ StalePower(p).phase = p.phase
        /\ StalePower(p).mismatches = p.mismatches /\ StalePower(p).score = p.score
    BY <1>0 DEF StalePower, WellFormed, IsProfile, ProfileFields
  <2>2. WellFormed(StalePower(p))
    BY <1>0, <1>2, <2>1 DEF WellFormed, Whole, States_
  <2> QED BY <1>2, <2>2 DEF Refreshed, p
<1>3. CASE ~(p.power = LpNone \/ PhaseChanged(p)) /\ ~Stale(p)
  <2>1. p.state # "unknown"
    BY <1>0, <1>3 DEF WellFormed, Whole
  <2>2. Refreshed(p) = p \/ Refreshed(p) = [p EXCEPT !.phase = ResolvedPhase(p)]
    BY <1>3, <2>1 DEF Refreshed
  <2>3. ResolvedPhase(p) \in LpPhases
    BY <1>0, <2>1, LpConstants DEF ResolvedPhase, WellFormed, Whole
  <2>4. \A phase \in LpPhases : WellFormed([p EXCEPT !.phase = phase])
    <3> TAKE phase \in LpPhases
    <3> DEFINE q == [p EXCEPT !.phase = phase]
    <3>1. /\ IsProfile(q) /\ q.state = p.state /\ q.power = p.power /\ q.age = p.age /\ q.phase = phase
          /\ q.mismatches = p.mismatches /\ q.score = p.score
      BY <1>0 DEF WellFormed, IsProfile, ProfileFields
    <3> HIDE DEF q
    <3>2. WellFormed(q)
      BY <1>0, <3>1 DEF WellFormed, Whole
    <3> QED BY <3>2 DEF q
  <2> QED BY <1>0, <2>2, <2>3, <2>4 DEF p
<1> QED BY <1>1, <1>2, <1>3

LEMMA ReconcileFormed ==
    ASSUME NEW p, WellFormed(p), lpPhase \in LpPhases, NEW m
    PROVE  WellFormed(Reconciled(p, m))
<1>1. WellFormed(Cleared(p))
  BY ClearedFormed DEF WellFormed
<1>2. CASE p.state # "stable"
  BY <1>2 DEF Reconciled
<1>3. CASE p.state = "stable"
  <2>1. p.power \in Int /\ p.age \in Int /\ ResolvedPhase(p) \in LpPhases
    BY <1>3, LpConstants DEF WellFormed, Whole, ResolvedPhase
  <2>2. \A n \in 0..(MismatchSessions - 1) :
          WellFormed(StablePower(p, p.power, p.age, ResolvedPhase(p), p.volt, n, TRUE))
    BY <2>1, StableFormed DEF WellFormed
  <2>3. WellFormed(MismatchCounted(p, m))
    <3>1. CASE p.mismatches + 1 >= MismatchSessions
      BY <1>1, <3>1 DEF MismatchCounted
    <3>2. CASE ~(p.mismatches + 1 >= MismatchSessions)
      <4>1. p.mismatches + 1 \in 0..(MismatchSessions - 1)
        BY <3>2, LpAssumption DEF LpAssumption, WellFormed
      <4> QED BY <2>2, <3>2, <4>1 DEF MismatchCounted
    <3> QED BY <3>1, <3>2
  <2> QED BY <1>1, <2>2, <2>3, LpConstants DEF Reconciled
<1> QED BY <1>2, <1>3

\* A weighted mean of two percentages is one.
LEMMA WeightedPart ==
    ASSUME NEW x \in 0..100, NEW y \in 0..100
    PROVE  (7 * x + 3 * y) \div 10 \in 0..100
<1> DEFINE n == 7 * x + 3 * y
<1>1. n \in Int /\ 0 <= n /\ n <= 1000
  OBVIOUS
<1> HIDE DEF n
<1>2. n \div 10 \in 0..100
  BY <1>1
<1> QED BY <1>2 DEF n

\* The scores are percentages.
LEMMA ScoresAreParts ==
    ASSUME NEW p, p.power \in Int, p.score \in 0..100, NEW power \in Int
    PROVE  /\ SampleScore(p, power) \in 0..100
           /\ CombinedScore(p, SampleScore(p, power)) \in 0..100
<1> DEFINE a == 100 * LpAbs(power - p.power)  score == SampleScore(p, power)
<1>1. a \in Nat
  BY DEF LpAbs
<1> HIDE DEF a
<1>2. a \div PowerTolerance \in Nat
  BY <1>1, LpConstants
<1>3. score \in 0..100
  <2> DEFINE b == a \div PowerTolerance
  <2>1. SampleScore(p, power) = LpGreater(0, 100 - b)
    BY DEF SampleScore, a
  <2> HIDE DEF b
  <2> QED BY <1>2, <2>1 DEF LpGreater, b
<1> HIDE DEF score
<1>4. (7 * p.score + 3 * score) \div 10 \in 0..100
  BY <1>3, WeightedPart
<1>5. CombinedScore(p, score) \in {score, (7 * p.score + 3 * score) \div 10}
  BY DEF CombinedScore
<1> QED BY <1>3, <1>4, <1>5 DEF score

\* An estimate that starts over, or goes on, has a value, a time and a phase.
LEMMA RestartedFormed ==
    ASSUME NEW p, IsProfile(p), NEW power \in Int, NEW volt, lpPhase \in LpPhases
    PROVE  WellFormed(RestartedLearning(p, power, volt))
<1> DEFINE q == RestartedLearning(p, power, volt)
<1>1. /\ IsProfile(q) /\ q.state = "learning" /\ q.power = power /\ q.age = 0 /\ q.phase = lpPhase
      /\ q.mismatches = 0 /\ q.score = 100
  <2> DEFINE h == [p EXCEPT !.state = "learning", !.power = power, !.age = 0, !.since = 0]
             i == [h EXCEPT !.samples = 1, !.phase = lpPhase, !.volt = volt, !.mismatches = 0]
  <2>1. IsProfile(h) /\ h.state = "learning" /\ h.power = power /\ h.age = 0
    BY DEF IsProfile, ProfileFields
  <2>2. q = [i EXCEPT !.checked = FALSE, !.score = 100]
    BY DEF RestartedLearning
  <2> HIDE DEF h
  <2>3. /\ IsProfile(i) /\ i.state = "learning" /\ i.power = power /\ i.age = 0
        /\ i.phase = lpPhase /\ i.mismatches = 0
    BY <2>1 DEF IsProfile, ProfileFields
  <2> HIDE DEF i, q
  <2> QED BY <2>2, <2>3 DEF IsProfile, ProfileFields
<1> HIDE DEF q
<1>2. WellFormed(q)
  BY <1>1, LpConstants DEF WellFormed, Whole, States_
<1> QED BY <1>2 DEF q

LEMMA ProgressedFormed ==
    ASSUME NEW p, WellFormed(p), p.state = "learning", NEW power \in Int, NEW volt, lpPhase \in LpPhases
    PROVE  WellFormed(Progressed(p, power, volt))
<1> DEFINE since == IF p.since = LpNone THEN 0 ELSE p.since
           samples == LpGreater(1, p.samples) + 1
           score == CombinedScore(p, SampleScore(p, power))
           stable == StablePower([p EXCEPT !.score = score, !.samples = samples],
                         Smoothed(p.power, power), 0, lpPhase, SmoothedVolt(p, volt), 0, TRUE)
           on == [p EXCEPT !.power = Smoothed(p.power, power), !.age = 0, !.since = since,
                       !.samples = LpLesser(samples, StableSamples + 1), !.phase = lpPhase,
                       !.volt = SmoothedVolt(p, volt), !.mismatches = 0,
                       !.checked = FALSE, !.score = score]
<1>1. p.power \in Int /\ p.score \in 0..100 /\ IsProfile(p)
  BY DEF WellFormed, Whole
<1>2. score \in 0..100 /\ Smoothed(p.power, power) \in Int
  BY <1>1, ScoresAreParts DEF Smoothed
<1>3. \/ Progressed(p, power, volt) = RestartedLearning(p, power, volt)
      \/ Progressed(p, power, volt) = stable
      \/ Progressed(p, power, volt) = on
  BY DEF Progressed
<1>4. WellFormed(stable)
  <2> HIDE DEF score, samples
  <2> DEFINE q == [p EXCEPT !.score = score, !.samples = samples]
  <2>1. IsProfile(q) /\ q.score = score
    BY <1>1 DEF IsProfile, ProfileFields
  <2> HIDE DEF q
  <2>2. WellFormed(StablePower(q, Smoothed(p.power, power), 0, lpPhase, SmoothedVolt(p, volt), 0, TRUE))
    BY <1>2, <2>1, LpConstants, StableFormed, Zenon
  <2> QED BY <2>2 DEF q
<1>5. WellFormed(on)
  <2> HIDE DEF score, samples, since
  <2> DEFINE value == Smoothed(p.power, power)  volt2 == SmoothedVolt(p, volt)
             n == LpLesser(samples, StableSamples + 1)
  <2> HIDE DEF value, volt2, n
  <2>1. LET q == [p EXCEPT !.power = value, !.age = 0, !.since = since, !.samples = n,
                           !.phase = lpPhase, !.volt = volt2, !.mismatches = 0, !.checked = FALSE,
                           !.score = score]
        IN  /\ IsProfile(q) /\ q.state = p.state /\ q.power = value /\ q.age = 0
            /\ q.phase = lpPhase /\ q.mismatches = 0 /\ q.score = score
    BY <1>1 DEF IsProfile, ProfileFields
  <2>2. /\ IsProfile(on) /\ on.state = p.state /\ on.power = Smoothed(p.power, power)
        /\ on.age = 0 /\ on.phase = lpPhase /\ on.mismatches = 0 /\ on.score = score
    BY <2>1 DEF value, volt2, n
  <2> HIDE DEF on
  <2> QED BY <1>2, <2>2, LpConstants DEF WellFormed, Whole, States_
<1> HIDE DEF on, stable
<1> QED BY <1>1, <1>3, <1>4, <1>5, RestartedFormed

\* Scoring a profile leaves the rest of it alone.
LEMMA ScoredFormed ==
    ASSUME NEW p, WellFormed(p), NEW n \in 0..100
    PROVE  WellFormed([p EXCEPT !.score = n])
<1> DEFINE q == [p EXCEPT !.score = n]
<1>1. /\ IsProfile(q) /\ q.state = p.state /\ q.power = p.power /\ q.age = p.age /\ q.phase = p.phase
      /\ q.mismatches = p.mismatches /\ q.score = n
  BY DEF WellFormed, IsProfile, ProfileFields
<1> HIDE DEF q
<1>2. WellFormed(q)
  BY <1>1 DEF WellFormed
<1> QED BY <1>2 DEF q

LEMMA UncheckedFormed ==
    ASSUME NEW p, WellFormed(p)
    PROVE  WellFormed([p EXCEPT !.checked = FALSE])
<1> DEFINE q == [p EXCEPT !.checked = FALSE]
<1>1. /\ IsProfile(q) /\ q.state = p.state /\ q.power = p.power /\ q.age = p.age /\ q.phase = p.phase
      /\ q.mismatches = p.mismatches /\ q.score = p.score
  BY DEF WellFormed, IsProfile, ProfileFields
<1> HIDE DEF q
<1>2. WellFormed(q)
  BY <1>1 DEF WellFormed
<1> QED BY <1>2 DEF q

LEMMA UpdateFormed ==
    ASSUME NEW p, WellFormed(p), lpPhase \in LpPhases, NEW at, NEW m, m.power \in Int
    PROVE  WellFormed(Updated(p, at, m))
<1>0. IsProfile(p) /\ p.score \in 0..100 /\ WellFormed(Cleared(p))
  BY ClearedFormed DEF WellFormed
<1>1. WellFormed(NoSample(p, at, m))
  BY <1>0 DEF NoSample
<1>2. WellFormed([p EXCEPT !.score = 0])
  BY LpConstants, ScoredFormed, Zenon
<1>3. WellFormed(SampleApplied(p, m.power, VoltSignature(m)))
  <2> DEFINE volt == VoltSignature(m)
  <2> HIDE DEF volt
  <2>1. CASE RestartsLearning(p)
    BY <1>0, <2>1, RestartedFormed DEF SampleApplied
  <2>2. CASE ~RestartsLearning(p) /\ p.state = "stable"
    <3> DEFINE s == StablePower(p, Smoothed(p.power, m.power), 0, lpPhase, SmoothedVolt(p, volt), 0, TRUE)
    <3>1. p.power \in Int /\ Smoothed(p.power, m.power) \in Int
      BY <2>2 DEF WellFormed, Whole, Smoothed
    <3>2. WellFormed(s)
      BY <1>0, <3>1, LpConstants, StableFormed, Zenon
    <3>3. SampleScore(p, m.power) \in 0..100
      BY <1>0, <3>1, ScoresAreParts
    <3>4. SampleApplied(p, m.power, volt) = [s EXCEPT !.score = SampleScore(p, m.power)]
      BY <2>2 DEF SampleApplied
    <3> HIDE DEF s
    <3> QED BY <3>2, <3>3, <3>4, ScoredFormed DEF volt
  <2>3. CASE ~RestartsLearning(p) /\ p.state # "stable"
    <3>1. p.state = "learning"
      BY <2>3 DEF RestartsLearning, WellFormed, Whole, States_
    <3> QED BY <2>3, <3>1, ProgressedFormed DEF SampleApplied
  <2> QED BY <2>1, <2>2, <2>3
<1> QED BY <1>1, <1>2, <1>3 DEF Updated

\* Time passing ages a profile.
LEMMA OlderFormed ==
    ASSUME NEW p, WellFormed(p), NEW since
    PROVE  WellFormed([p EXCEPT !.age = LpOlder(@), !.since = since])
<1> DEFINE q == [p EXCEPT !.age = LpOlder(@), !.since = since]
<1>1. \A a : LET r == [p EXCEPT !.age = a, !.since = since]
             IN  /\ IsProfile(r) /\ r.state = p.state /\ r.power = p.power /\ r.age = a
                 /\ r.phase = p.phase /\ r.mismatches = p.mismatches /\ r.score = p.score
  BY DEF WellFormed, IsProfile, ProfileFields
<1>2. q = [p EXCEPT !.age = LpOlder(p.age), !.since = since]
  BY DEF WellFormed, IsProfile, ProfileFields
<1>3. /\ IsProfile(q) /\ q.state = p.state /\ q.power = p.power /\ q.age = LpOlder(p.age)
      /\ q.phase = p.phase /\ q.mismatches = p.mismatches /\ q.score = p.score
  <2> HIDE DEF q
  <2> QED BY <1>1, <1>2
<1> HIDE DEF q
<1>4. /\ p.age \in Int => LpOlder(p.age) \in Int
      /\ p.age = LpNone => LpOlder(p.age) = LpNone
  BY LpConstants, LpAssumption DEF LpOlder, LpLesser, LpAssumption
<1>5. WellFormed(q)
  BY <1>3, <1>4 DEF WellFormed, Whole
<1> QED BY <1>5 DEF q

\* For any measurements, phases, windows and restarts: the stored profile has a value
\* exactly when it is not unknown, a value has its time and its phase, the scores are
\* percentages and mismatching sessions stay below the limit (update/learning*.py).
THEOREM ProfileStaysWhole == LpSpec => []LpTypeOK
<1>1. LpInit => ProfileInv
  <2> SUFFICES ASSUME LpInit PROVE ProfileInv
    OBVIOUS
  <2>1. WellFormed(Cleared([score |-> 0]))
    BY ClearedFormed
  <2> QED BY <2>1 DEF LpInit, ProfileInv
<1>2. ProfileInv /\ [LpNext]_lpVars => ProfileInv'
  <2> SUFFICES ASSUME ProfileInv, [LpNext]_lpVars PROVE ProfileInv'
    OBVIOUS
  <2>1. ASSUME NEW m \in LpMeters, LearnCycle(m) PROVE ProfileInv'
    <3> DEFINE before == Reconciled(Refreshed(profile), m)
               at == SessionAfter(m)
               after == Updated(before, at, m)
    <3>1. m.power \in Int /\ lpPhase \in LpPhases
      BY LpAssumption DEF LpAssumption, ProfileInv
    <3>2. WellFormed(before)
      BY <3>1, RefreshFormed, ReconcileFormed
    <3> HIDE DEF before
    <3>3. WellFormed(after)
      BY <3>1, <3>2, UpdateFormed
    <3>4. /\ profile' = [CheckedHere(after, at) EXCEPT !.age = LpOlder(@), !.since = LpOlder(@)]
          /\ lpPhase' = lpPhase
      BY <2>1 DEF LearnCycle, before
    <3> HIDE DEF after, at
    <3> DEFINE c == CheckedHere(after, at)
    <3>5. WellFormed(c)
      BY <3>3, UncheckedFormed DEF CheckedHere
    <3> HIDE DEF c
    <3>6. profile' = [c EXCEPT !.age = LpOlder(@), !.since = LpOlder(c.since)]
      BY <3>4, <3>5 DEF c, WellFormed, IsProfile, ProfileFields
    <3>7. WellFormed(profile')
      BY <3>5, <3>6, OlderFormed
    <3> QED BY <3>1, <3>4, <3>7 DEF ProfileInv
  <2>2. CASE LearnRestart
    <3> DEFINE c == [profile EXCEPT !.score = 0, !.checked = FALSE]
    <3>1. WellFormed(c)
      BY LpConstants, ScoredFormed, UncheckedFormed, Zenon DEF ProfileInv
    <3>2. profile' = [c EXCEPT !.age = LpOlder(@), !.since = LpOlder(c.since)]
      BY <2>2, <3>1 DEF LearnRestart, ProfileInv, WellFormed, IsProfile, ProfileFields
    <3> HIDE DEF c
    <3>3. WellFormed(profile')
      BY <3>1, <3>2, OlderFormed
    <3> QED BY <2>2, <3>3 DEF LearnRestart, ProfileInv
  <2>3. CASE UNCHANGED lpVars
    BY <2>3 DEF lpVars, ProfileInv
  <2> QED BY <2>1, <2>2, <2>3 DEF LpNext
<1>3. ProfileInv => LpTypeOK
  BY LpConstants DEF ProfileInv, WellFormed, Whole, States_, LpTypeOK
<1> QED BY <1>1, <1>2, <1>3, PTL DEF LpSpec

(***************************************************************************)
(* The persistent state: what is saved, and what of it comes back.         *)
(***************************************************************************)
MemFields == {"mode", "override", "cutover", "bypass", "offAt", "lockout", "lockoutAt", "faults",
              "power", "powerAt", "ess"}
IsMem(m) == DOMAIN m = MemFields /\ m = [f \in MemFields |-> m[f]]
IsLearning(e) == e = [profiles |-> e.profiles, tuning |-> e.tuning, suspended |-> e.suspended,
                      safe |-> e.safe]

\* What a saved record would bring back under a configuration that matches it.
Saved(d) == <<d.base.mode, d.base.override, d.base.cutover, d.contactor.lockout, d.contactor.faults,
              d.power.power, d.ess.state>>

\* A state whose learning is well formed and belongs to the place it runs at.
OfSite(state, place) ==
    /\ IsLearning(state.ess)
    /\ \A s \in state.ess.profiles : s.energy = place.energy

StateInv ==
    /\ IsMem(mem) /\ OfSite(mem, configured)
    /\ doc.there => \E state, place, now : doc.state = Build(state, place, now) /\ OfSite(state, place)
    /\ serialized.written =>
         /\ doc.there
         /\ Lasting(Restored(doc.state, configured, wall)) = Saved(serialized)

LEMMA NewMemFacts ==
    IsMem(NewMem) /\ NewMem.ess = NewLearning /\ IsLearning(NewLearning) /\ NewLearning.profiles = {}
<1>1. \A l, stamp, learning :
        LET m == [mode |-> "manual", override |-> 0, cutover |-> FALSE, bypass |-> FALSE,
                  offAt |-> stamp, lockout |-> l, lockoutAt |-> stamp, faults |-> 0,
                  power |-> "unknown", powerAt |-> stamp, ess |-> learning]
        IN  IsMem(m) /\ m.ess = learning
  BY DEF IsMem, MemFields
<1>2. IsMem(NewMem) /\ NewMem.ess = NewLearning
  BY <1>1, Zenon DEF NewMem
<1>3. IsLearning(NewLearning) /\ NewLearning.profiles = {}
  BY DEF IsLearning, NewLearning
<1> QED BY <1>2, <1>3

\* What RestoreBasic assigns.
LEMMA BasicRestored ==
    ASSUME NEW m, IsMem(m), NEW d
    PROVE  LET a == RestoreBasic(m, d)
           IN  /\ IsMem(a) /\ a.mode = d.base.mode /\ a.override = d.base.override
               /\ a.cutover = d.base.cutover /\ a.ess = m.ess
<1> DEFINE q == [m EXCEPT !.mode = d.base.mode, !.override = d.base.override]
           n == [q EXCEPT !.cutover = d.base.cutover, !.bypass = FALSE]
<1>1. RestoreBasic(m, d) = n
  BY SMT DEF RestoreBasic
<1>2. IsMem(q) /\ q.mode = d.base.mode /\ q.override = d.base.override /\ q.ess = m.ess
  BY DEF IsMem, MemFields
<1> HIDE DEF q
<1>3. /\ IsMem(n) /\ n.mode = q.mode /\ n.override = q.override
      /\ n.cutover = d.base.cutover /\ n.ess = q.ess
  BY <1>2 DEF IsMem, MemFields
<1> HIDE DEF n
<1> QED BY <1>1, <1>2, <1>3

\* What SetMode_ assigns.
LEMMA ModeAssigned ==
    ASSUME NEW m, IsMem(m), NEW mode, NEW at
    PROVE  LET n == [m EXCEPT !.mode = mode, !.override = at,
                              !.cutover = mode = "auto", !.bypass = mode = "auto"]
           IN  IsMem(n) /\ n.ess = m.ess
<1> DEFINE q == [m EXCEPT !.mode = mode, !.override = at]
           p == [q EXCEPT !.cutover = mode = "auto"]
           n == [p EXCEPT !.bypass = mode = "auto"]
           whole == [m EXCEPT !.mode = mode, !.override = at,
                              !.cutover = mode = "auto", !.bypass = mode = "auto"]
<1>1. IsMem(q) /\ q.ess = m.ess
  BY DEF IsMem, MemFields
<1>2. whole = n
  BY SMT
<1> HIDE DEF q
<1>3. IsMem(p) /\ p.ess = q.ess
  BY <1>1 DEF IsMem, MemFields
<1> HIDE DEF p
<1>4. IsMem(n) /\ n.ess = p.ess
  BY <1>3 DEF IsMem, MemFields
<1> HIDE DEF n
<1> QED BY <1>1, <1>2, <1>3, <1>4

\* An empty learning takes the whole of a payload's state.
LEMMA LearningRestored ==
    ASSUME NEW payload
    PROVE  RestoreTuning(RestoreLearning(NewLearning, payload), payload)
             = [profiles |-> payload.state.profiles, tuning |-> payload.state.tuning,
                suspended |-> payload.state.suspended, safe |-> payload.state.safe]
<1> DEFINE e == RestoreLearning(NewLearning, payload)
           a == payload.state.tuning
           b == payload.state.suspended
           c == payload.state.safe
<1>1. NewLearning = [profiles |-> {}, tuning |-> "configured", suspended |-> NoStamp,
                     safe |-> NewLearning.safe]
  BY SMT DEF NewLearning
<1>2. e = [profiles |-> payload.state.profiles, tuning |-> "configured", suspended |-> NoStamp,
           safe |-> NewLearning.safe]
  BY <1>1, SMT DEF RestoreLearning
<1> HIDE DEF e, a, b, c
<1> DEFINE q == [e EXCEPT !.tuning = a]
           r == [q EXCEPT !.suspended = b]
           s == [r EXCEPT !.safe = c]
<1>3. RestoreTuning(e, payload) = s
  BY Zenon DEF RestoreTuning, a, b, c
<1>4. q = [profiles |-> payload.state.profiles, tuning |-> a, suspended |-> NoStamp,
           safe |-> NewLearning.safe]
  BY <1>2
<1> HIDE DEF q
<1>5. r = [profiles |-> payload.state.profiles, tuning |-> a, suspended |-> b,
           safe |-> NewLearning.safe]
  BY <1>4
<1> HIDE DEF r
<1>6. s = [profiles |-> payload.state.profiles, tuning |-> a, suspended |-> b, safe |-> c]
  BY <1>5
<1> HIDE DEF s
<1> QED BY <1>3, <1>6 DEF e, a, b, c

LEMMA BuiltFacts ==
    ASSUME NEW state, NEW place, NEW now
    PROVE  /\ Saved(Build(state, place, now)) = Lasting(state)
           /\ Build(state, place, now).written
           /\ Build(state, place, now).ess.key = <<place.source, place.energy>>
           /\ Build(state, place, now).ess.source = place.source
           /\ Build(state, place, now).ess.state = state.ess
BY DEF Build, Saved, Lasting, BaseState, PowerState, ContactorState, EssPayload, TopologyKey

\* What is restored does not depend on the clock, apart from the time stamps.
LEMMA RestoredFacts ==
    ASSUME NEW d, NEW place, NEW now
    PROVE  /\ IsMem(Restored(d, place, now))
           /\ Lasting(Restored(d, place, now)) =
                <<d.base.mode, d.base.override, d.base.cutover, d.contactor.lockout, d.contactor.faults,
                  d.power.power, Restored(d, place, now).ess>>
           /\ Restored(d, place, now).ess =
                IF MatchesTopology(d.ess, place)
                THEN [profiles |-> d.ess.state.profiles, tuning |-> d.ess.state.tuning,
                      suspended |-> d.ess.state.suspended, safe |-> d.ess.state.safe]
                ELSE NewLearning
<1> DEFINE a == RestoreBasic(NewMem, d)
           b == RestoreLearnedPower(a, d, now)
           c == RestoreContactor(b, d, now)
           e == RestoreRelay(c, d, now)
           g == RestoreEss(e, d, place)
<1>0. Restored(d, place, now) = g
  BY Zenon DEF Restored
<1>1. /\ IsMem(a) /\ a.mode = d.base.mode /\ a.override = d.base.override
      /\ a.cutover = d.base.cutover /\ a.ess = NewLearning
  <2>1. /\ IsMem(NewMem) /\ NewMem.ess = NewLearning
    BY NewMemFacts
  <2>2. \A m : IsMem(m) => /\ IsMem(RestoreBasic(m, d)) /\ RestoreBasic(m, d).mode = d.base.mode
                           /\ RestoreBasic(m, d).override = d.base.override
                           /\ RestoreBasic(m, d).cutover = d.base.cutover
                           /\ RestoreBasic(m, d).ess = m.ess
    BY BasicRestored, Zenon
  <2> QED BY <2>1, <2>2, Zenon
<1> HIDE DEF a
<1>2. /\ IsMem(b) /\ b.mode = a.mode /\ b.override = a.override /\ b.cutover = a.cutover
      /\ b.ess = a.ess /\ b.power = d.power.power
  BY <1>1 DEF RestoreLearnedPower, IsMem, MemFields
<1> HIDE DEF b
<1>3. /\ IsMem(c) /\ c.mode = b.mode /\ c.override = b.override /\ c.cutover = b.cutover
      /\ c.ess = b.ess /\ c.power = b.power /\ c.lockout = d.contactor.lockout
      /\ c.faults = d.contactor.faults
  BY <1>2 DEF RestoreContactor, IsMem, MemFields
<1> HIDE DEF c
<1>4. /\ IsMem(e) /\ e.mode = c.mode /\ e.override = c.override /\ e.cutover = c.cutover
      /\ e.ess = c.ess /\ e.power = c.power /\ e.lockout = c.lockout /\ e.faults = c.faults
  BY <1>3 DEF RestoreRelay, IsMem, MemFields
<1> HIDE DEF e
<1> DEFINE taken == [profiles |-> d.ess.state.profiles, tuning |-> d.ess.state.tuning,
                     suspended |-> d.ess.state.suspended, safe |-> d.ess.state.safe]
<1>5. RestoreTuning(RestoreLearning(NewLearning, d.ess), d.ess) = taken
  BY LearningRestored
<1>6. e.ess = NewLearning
  BY <1>1, <1>2, <1>3, <1>4
<1>7. /\ IsMem(g) /\ g.mode = e.mode /\ g.override = e.override /\ g.cutover = e.cutover
      /\ g.power = e.power /\ g.lockout = e.lockout /\ g.faults = e.faults
      /\ g.ess = IF MatchesTopology(d.ess, place) THEN taken ELSE NewLearning
  <2>1. CASE MatchesTopology(d.ess, place)
    <3>1. g = [e EXCEPT !.ess = taken]
      BY <1>5, <1>6, <2>1 DEF RestoreEss
    <3> HIDE DEF g, taken
    <3> QED BY <1>4, <2>1, <3>1 DEF IsMem, MemFields
  <2>2. CASE ~MatchesTopology(d.ess, place)
    BY <1>4, <1>6, <2>2 DEF RestoreEss
  <2> QED BY <2>1, <2>2
<1> HIDE DEF g, taken
<1>8. /\ IsMem(g) /\ g.mode = d.base.mode /\ g.override = d.base.override /\ g.cutover = d.base.cutover
      /\ g.lockout = d.contactor.lockout /\ g.faults = d.contactor.faults /\ g.power = d.power.power
      /\ g.ess = IF MatchesTopology(d.ess, place) THEN taken ELSE NewLearning
  BY <1>1, <1>2, <1>3, <1>4, <1>7
<1> QED BY <1>0, <1>8, Zenon DEF Lasting, taken

\* A state that was built at a place comes back there as it was.
LEMMA BuiltComesBack ==
    ASSUME NEW state, NEW place, NEW now, NEW later, IsLearning(state.ess)
    PROVE  Lasting(Restored(Build(state, place, now), place, later)) = Lasting(state)
<1> DEFINE d == Build(state, place, now)
<1>1. MatchesTopology(d.ess, place)
  BY BuiltFacts DEF MatchesTopology, TopologyKey
<1>2. d.ess.state = state.ess
  BY BuiltFacts
<1>3. Saved(d) = Lasting(state)
  BY BuiltFacts
<1> HIDE DEF d
<1>4. Restored(d, place, later).ess =
        [profiles |-> d.ess.state.profiles, tuning |-> d.ess.state.tuning,
         suspended |-> d.ess.state.suspended, safe |-> d.ess.state.safe]
  BY <1>1, RestoredFacts
<1>5. Restored(d, place, later).ess = d.ess.state
  BY <1>2, <1>4 DEF IsLearning
<1>6. Lasting(Restored(d, place, later)) = Saved(d)
  BY <1>5, RestoredFacts DEF Saved
<1> QED BY <1>3, <1>6 DEF d

\* The clock does not matter to what lasts.
LEMMA ClockDoesNotMatter ==
    ASSUME NEW d, NEW place, NEW now, NEW later
    PROVE  Lasting(Restored(d, place, now)) = Lasting(Restored(d, place, later))
<1>1. Restored(d, place, now).ess = Restored(d, place, later).ess
  BY RestoredFacts, Zenon
<1>2. /\ Lasting(Restored(d, place, now)) =
           <<d.base.mode, d.base.override, d.base.cutover, d.contactor.lockout, d.contactor.faults,
             d.power.power, Restored(d, place, now).ess>>
      /\ Lasting(Restored(d, place, later)) =
           <<d.base.mode, d.base.override, d.base.cutover, d.contactor.lockout, d.contactor.faults,
             d.power.power, Restored(d, place, later).ess>>
  BY RestoredFacts, Zenon
<1> QED BY <1>1, <1>2, Zenon

LEMMA ChangesKeep ==
    ASSUME StateInv, NEW state, Changes(state), IsMem(state), OfSite(state, configured)
    PROVE  StateInv'
<1> DEFINE snapshot == Build(state, configured, wall)
<1>1. /\ mem' = state /\ UNCHANGED <<configured, wall>>
      /\ \/ doc' = [there |-> TRUE, state |-> snapshot] /\ serialized' = snapshot
         \/ UNCHANGED <<doc, serialized>>
  BY DEF Changes, Save
<1>2. CASE UNCHANGED <<doc, serialized>>
  BY <1>1, <1>2 DEF StateInv
<1>3. CASE doc' = [there |-> TRUE, state |-> snapshot] /\ serialized' = snapshot
  <2>1. doc'.there /\ doc'.state = snapshot
    BY <1>3
  <2>2. Lasting(Restored(snapshot, configured, wall)) = Saved(snapshot)
    BY BuiltComesBack, BuiltFacts DEF OfSite
  <2>3. \E st, place, now : doc'.state = Build(st, place, now) /\ OfSite(st, place)
    BY <2>1
  <2> HIDE DEF snapshot
  <2>4. IsMem(mem') /\ OfSite(mem', configured')
    BY <1>1
  <2>5. Lasting(Restored(doc'.state, configured', wall')) = Saved(serialized')
    BY <1>1, <1>3, <2>1, <2>2
  <2> QED BY <2>1, <2>3, <2>4, <2>5 DEF StateInv
<1> QED BY <1>1, <1>2, <1>3

LEMMA RestartRestores ==
    ASSUME StateInv, Restarts
    PROVE  StateInv'
<1>1. PICK place \in Sites, now \in 0 .. RsHorizon :
         configured' = place /\ wall' = now /\ Load(place, now)
  BY DEF Restarts
<1>2. doc' = doc
  BY DEF Restarts
<1>3. CASE ~doc.there
  <2>1. mem' = NewMem /\ serialized' = NoRecord
    BY <1>1, <1>3 DEF Load
  <2>2. ~serialized'.written
    BY <2>1 DEF NoRecord
  <2>3. OfSite(mem', configured') /\ IsMem(mem')
    BY <2>1, NewMemFacts DEF OfSite
  <2> QED BY <1>2, <1>3, <2>2, <2>3 DEF StateInv
<1>4. CASE doc.there
  <2>1. PICK st, origin, at : doc.state = Build(st, origin, at) /\ OfSite(st, origin)
    BY <1>4 DEF StateInv
  <2> DEFINE back == Restored(doc.state, place, now)
  <2>2. mem' = back /\ serialized' = Build(back, place, now)
    BY <1>1, <1>4 DEF Load
  <2>3. IsMem(back)
    BY RestoredFacts
  <2>4. OfSite(back, place)
    <3>1. /\ doc.state.ess.key = <<origin.source, origin.energy>> /\ doc.state.ess.source = origin.source
          /\ doc.state.ess.state = st.ess
      BY <2>1, BuiltFacts
    <3>2. CASE MatchesTopology(doc.state.ess, place)
      <4>1. origin.energy = place.energy
        BY <3>1, <3>2 DEF MatchesTopology, TopologyKey
      <4>2. back.ess = [profiles |-> st.ess.profiles, tuning |-> st.ess.tuning,
                        suspended |-> st.ess.suspended, safe |-> st.ess.safe]
        BY <3>1, <3>2, RestoredFacts
      <4> HIDE DEF back
      <4>3. back.ess = st.ess
        BY <2>1, <4>2 DEF OfSite, IsLearning
      <4> QED BY <2>1, <4>1, <4>3 DEF OfSite
    <3>3. CASE ~MatchesTopology(doc.state.ess, place)
      <4>1. back.ess = NewLearning
        BY <3>3, RestoredFacts
      <4> HIDE DEF back
      <4> QED BY <4>1, NewMemFacts DEF OfSite
    <3> QED BY <3>2, <3>3
  <2>5. Saved(serialized') = Lasting(back)
    BY <2>2, BuiltFacts
  <2>6. IsMem(mem') /\ OfSite(mem', configured')
    BY <1>1, <2>2, <2>3, <2>4, Zenon
  <2>7. Lasting(Restored(doc'.state, configured', wall')) = Saved(serialized')
    BY <1>1, <1>2, <2>5, Zenon
  <2>8. doc'.there /\ \E st_, place_, now_ : doc'.state = Build(st_, place_, now_) /\ OfSite(st_, place_)
    BY <1>2, <1>4, <2>1, Zenon
  <2> QED BY <2>6, <2>7, <2>8, Zenon DEF StateInv
<1> QED BY <1>3, <1>4

LEMMA StateStep == StateInv /\ [RsNext]_rsVars => StateInv'
<1> SUFFICES ASSUME StateInv, [RsNext]_rsVars PROVE StateInv'
  OBVIOUS
<1>0. IsMem(mem) /\ OfSite(mem, configured)
  BY DEF StateInv
<1>s. ASSUME NEW state, IsMem(state), state.ess = mem.ess, Changes(state)
      PROVE  StateInv'
  BY <1>0, <1>s, ChangesKeep DEF OfSite
<1>1. CASE SetMode_
  <2>1. PICK mode \in {"manual", "auto"} :
           Changes([mem EXCEPT !.mode = mode, !.override = wall,
                               !.cutover = mode = "auto", !.bypass = mode = "auto"])
    BY <1>1 DEF SetMode_
  <2> DEFINE n == [mem EXCEPT !.mode = mode, !.override = wall,
                              !.cutover = mode = "auto", !.bypass = mode = "auto"]
  <2>2. IsMem(n) /\ n.ess = mem.ess
    BY <1>0, ModeAssigned, Zenon
  <2> QED BY <1>s, <2>1, <2>2, Zenon
<1>2. CASE RelayOff
  <2>1. LET n == [mem EXCEPT !.offAt = wall, !.cutover = FALSE] IN IsMem(n) /\ n.ess = mem.ess
    BY <1>0 DEF IsMem, MemFields
  <2> QED BY <1>2, <1>s, <2>1, Zenon DEF RelayOff
<1>3. CASE ContactorFault
  <2>1. LET n == [mem EXCEPT !.faults = 1] IN IsMem(n) /\ n.ess = mem.ess
    BY <1>0 DEF IsMem, MemFields
  <2>2. LET n == [mem EXCEPT !.lockout = "contactor-suspected-welded", !.lockoutAt = wall]
        IN  IsMem(n) /\ n.ess = mem.ess
    BY <1>0 DEF IsMem, MemFields
  <2> QED BY <1>3, <1>s, <2>1, <2>2, Zenon DEF ContactorFault
<1>4. CASE ContactorCleared
  <2>1. \A l, stamp : LET n == [mem EXCEPT !.faults = 0, !.lockout = l, !.lockoutAt = stamp]
                      IN  IsMem(n) /\ n.ess = mem.ess
    BY <1>0 DEF IsMem, MemFields
  <2> QED BY <1>4, <1>s, <2>1, Zenon DEF ContactorCleared
<1>5. CASE PowerLearned
  <2>1. LET n == [mem EXCEPT !.power = "stable", !.powerAt = wall] IN IsMem(n) /\ n.ess = mem.ess
    BY <1>0 DEF IsMem, MemFields
  <2> QED BY <1>5, <1>s, <2>1, Zenon DEF PowerLearned
<1>6. CASE EssLearns
  <2>1. CASE Changes([mem EXCEPT !.ess.profiles = @ \cup {configured}])
    <3> DEFINE n == [mem EXCEPT !.ess.profiles = @ \cup {configured}]
    <3>1. IsMem(n) /\ n.ess = [mem.ess EXCEPT !.profiles = @ \cup {configured}]
      BY <1>0 DEF IsMem, MemFields
    <3> HIDE DEF n
    <3>2. OfSite(n, configured)
      BY <1>0, <3>1 DEF OfSite, IsLearning
    <3> QED BY <2>1, <3>1, <3>2, ChangesKeep, Zenon DEF n
  <2>2. CASE Changes([mem EXCEPT !.ess.tuning = "applied"])
    <3> DEFINE n == [mem EXCEPT !.ess.tuning = "applied"]
    <3>1. IsMem(n) /\ n.ess = [mem.ess EXCEPT !.tuning = "applied"]
      BY <1>0 DEF IsMem, MemFields
    <3> HIDE DEF n
    <3>2. OfSite(n, configured)
      BY <1>0, <3>1 DEF OfSite, IsLearning
    <3> QED BY <2>2, <3>1, <3>2, ChangesKeep, Zenon DEF n
  <2>3. CASE Changes([mem EXCEPT !.ess.tuning = "restored", !.ess.suspended = wall, !.ess.safe = TRUE])
    <3> DEFINE n == [mem EXCEPT !.ess.tuning = "restored", !.ess.suspended = wall, !.ess.safe = TRUE]
    <3>1. /\ IsMem(n)
          /\ n.ess = [mem.ess EXCEPT !.tuning = "restored", !.suspended = wall, !.safe = TRUE]
      BY <1>0 DEF IsMem, MemFields
    <3> HIDE DEF n
    <3>2. OfSite(n, configured)
      BY <1>0, <3>1 DEF OfSite, IsLearning
    <3> QED BY <2>3, <3>1, <3>2, ChangesKeep, Zenon DEF n
  <2> QED BY <1>6, <2>1, <2>2, <2>3 DEF EssLearns
<1>7. CASE CycleSaves
  BY <1>0, <1>7, <1>s DEF CycleSaves
<1>8. CASE Restarts
  BY <1>8, RestartRestores
<1>9. CASE WallMoves
  <2>1. UNCHANGED <<mem, doc, serialized, configured>>
    BY <1>9 DEF WallMoves
  <2>2. Lasting(Restored(doc.state, configured, wall')) = Lasting(Restored(doc.state, configured, wall))
    BY ClockDoesNotMatter
  <2> QED BY <2>1, <2>2 DEF StateInv
<1>10. CASE UNCHANGED rsVars
  BY <1>10 DEF rsVars, StateInv
<1> QED
  BY <1>1, <1>2, <1>3, <1>4, <1>5, <1>6, <1>7, <1>8, <1>9, <1>10, Zenon DEF RsNext

LEMMA StateStarts == RsInit => StateInv
<1> SUFFICES ASSUME RsInit PROVE StateInv
  OBVIOUS
<1>1. mem = NewMem /\ ~doc.there /\ ~serialized.written
  BY DEF RsInit, NoDoc, NoRecord
<1> QED BY <1>1, NewMemFacts DEF StateInv, OfSite

\* For any sites, clock, failed writes and restarts: what the service believes to be
\* saved comes back from the file, and no profile is taken back that was learned among
\* other energy sources (controllers/state_persistence.py, state_restore_victron_ess.py).
THEOREM SavedStateComesBack == RsSpec => [](NothingLost /\ LearnedAmongThese)
<1>1. StateInv => NothingLost /\ LearnedAmongThese
  <2> SUFFICES ASSUME StateInv PROVE NothingLost /\ LearnedAmongThese
    OBVIOUS
  <2>1. LearnedAmongThese
    BY DEF StateInv, OfSite, LearnedAmongThese
  <2>2. ASSUME serialized.written, serialized = Build(mem, configured, wall)
        PROVE  doc.there /\ Lasting(Restored(doc.state, configured, wall)) = Lasting(mem)
    <3>1. Saved(serialized) = Lasting(mem)
      BY <2>2, BuiltFacts
    <3> QED BY <2>2, <3>1 DEF StateInv
  <2> QED BY <2>1, <2>2, Zenon DEF NothingLost
<1> QED BY <1>1, StateStarts, StateStep, PTL DEF RsSpec

(***************************************************************************)
(* The schedule: the boost happens in the night before an enabled day.     *)
(***************************************************************************)
\* The day a token names, the settings, and a token as the parser leaves it.
Named(t, n) ==
    \/ t.kind = "day" /\ t.first = n
    \/ /\ t.kind = "range"
       /\ IF t.first <= t.last THEN t.first <= n /\ n <= t.last
                               ELSE t.first <= n \/ n <= t.last
SmSettings ==
    /\ windows \in MonthWindows /\ setting \in DaySettings
    /\ delay \in SmDelays /\ latest \in LatestEnds
TokenOk(t) ==
    /\ t.kind \in {"day", "range"} => t.first \in 0..6
    /\ t.kind = "range" => t.last \in 0..6

\* A range of days, counted on from its first one, is what lies between its ends.
LEMMA RangeIsBetween ==
    ASSUME NEW first \in 0..6, NEW last \in 0..6, NEW n \in Int
    PROVE  n \in WeekdayRangeValues(first, last)
             <=> n \in 0..6 /\ IF first <= last THEN first <= n /\ n <= last
                                                ELSE first <= n \/ n <= last
<1> DEFINE span == (last - first) % 7
<1>1. span \in 0..6 /\ (first <= last => span = last - first) /\ (first > last => span = last - first + 7)
  OBVIOUS
<1>2. ASSUME NEW offset \in 0..6
      PROVE  /\ (first + offset) % 7 \in 0..6
             /\ first + offset <= 6 => (first + offset) % 7 = first + offset
             /\ first + offset > 6 => (first + offset) % 7 = first + offset - 7
  OBVIOUS
<1>3. n \in WeekdayRangeValues(first, last) <=> \E offset \in 0..span : n = (first + offset) % 7
  BY DEF WeekdayRangeValues
<1> HIDE DEF span
<1>4. ASSUME NEW offset \in 0..span, n = (first + offset) % 7
      PROVE  n \in 0..6 /\ IF first <= last THEN first <= n /\ n <= last
                                            ELSE first <= n \/ n <= last
  <2>1. offset \in 0..6
    BY <1>1
  <2> QED BY <1>1, <1>2, <1>4, <2>1
<1>5. ASSUME n \in 0..6, IF first <= last THEN first <= n /\ n <= last
                                          ELSE first <= n \/ n <= last
      PROVE  \E offset \in 0..span : n = (first + offset) % 7
  <2>1. CASE first <= n
    <3>1. n - first \in 0..span /\ n - first \in 0..6
      BY <1>1, <1>5, <2>1
    <3>2. n = (first + (n - first)) % 7
      BY <1>2, <1>5, <3>1
    <3> QED BY <3>1, <3>2
  <2>2. CASE n < first
    <3>1. n - first + 7 \in 0..span /\ n - first + 7 \in 0..6
      BY <1>1, <1>5, <2>2
    <3>2. n = (first + (n - first + 7)) % 7
      BY <1>2, <1>5, <3>1
    <3> QED BY <3>1, <3>2
  <2> QED BY <1>5, <2>1, <2>2
<1> QED BY <1>3, <1>4, <1>5

\* A token stands for the days it names.
LEMMA TokensName ==
    ASSUME NEW t, TokenOk(t), NEW n \in 0..6
    PROVE  n \in WeekdaysOf(t) <=> Named(t, n)
<1>1. CASE t.kind = "range"
  <2>1. WeekdaysOf(t) = WeekdayRangeValues(t.first, t.last) /\ t.first \in 0..6 /\ t.last \in 0..6
    BY <1>1 DEF WeekdaysOf, TokenOk
  <2>2. n \in WeekdayRangeValues(t.first, t.last)
           <=> IF t.first <= t.last THEN t.first <= n /\ n <= t.last ELSE t.first <= n \/ n <= t.last
    BY <2>1, RangeIsBetween
  <2> QED BY <1>1, <2>1, <2>2 DEF Named
<1>2. CASE t.kind # "range"
  BY <1>2 DEF WeekdaysOf, Named
<1> QED BY <1>1, <1>2

\* Its days are days of the week.
LEMMA WeekdaysAreDays ==
    ASSUME NEW t, TokenOk(t), NEW n \in WeekdaysOf(t)
    PROVE  n \in 0..6
<1>1. CASE t.kind = "day"
  BY <1>1 DEF WeekdaysOf, TokenOk
<1>2. CASE t.kind = "range"
  <2>1. PICK offset \in 0..((t.last - t.first) % 7) : n = (t.first + offset) % 7
    BY <1>2 DEF WeekdaysOf, WeekdayRangeValues
  <2>2. t.first \in 0..6 /\ offset \in Int
    BY <1>2, <2>1 DEF TokenOk
  <2> QED BY <2>1, <2>2
<1>3. CASE t.kind \notin {"day", "range"}
  BY <1>3 DEF WeekdaysOf
<1> QED BY <1>1, <1>2, <1>3

\* The enabled days of a setting are the days it selects.
LEMMA SelectedDays ==
    ASSUME setting \in DaySettings, NEW day \in Int
    PROVE  day % 7 \in NormalizeEnabledDays(setting) <=> Selected(day)
<1> DEFINE n == day % 7
           written == ToSet(setting)
           named(k) == \E t \in written : Named(t, k)
           only(word) == Len(setting) = 1 /\ setting[1].kind = word
           days == UNION {WeekdaysOf(t) : t \in written}
<1>1. n \in 0..6
  OBVIOUS
<1>2. \A t \in written : TokenOk(t)
  BY ScheduleAssumption DEF ScheduleAssumption, TokenOk
<1>3. Selected(day) <=> \/ only("all")
                        \/ only("weekend") /\ n \in {5, 6}
                        \/ named(n)
                        \/ /\ n \in FallbackDays
                           /\ ~only("all") /\ ~only("weekend") /\ \A k \in 0..6 : ~named(k)
  BY DEF Selected, Named
<1>4. \A k \in 0..6 : k \in days <=> named(k)
  BY <1>2, TokensName
<1>5. days = {} <=> \A k \in 0..6 : ~named(k)
  <2>1. \A k \in days : k \in 0..6
    BY <1>2, WeekdaysAreDays
  <2> QED BY <1>4, <2>1
<1>6. ASSUME NEW word \in SpecialSelections, only(word)
      PROVE  written = {setting[1]} /\ \A k : ~named(k)
  <2>1. written = {setting[1]}
    BY <1>6, ScheduleAssumption DEF ScheduleAssumption, ToSet
  <2> QED BY <1>6, <2>1 DEF Named, SpecialSelections
<1>7. CASE \E word \in SpecialSelections : only(word)
  <2>1. PICK word \in SpecialSelections : only(word)
    BY <1>7
  <2>2. NormalizeEnabledDays(setting) = SpecialDays(word)
    BY <2>1 DEF NormalizeEnabledDays
  <2>3. \A k : ~named(k)
    BY <1>6, <2>1
  <2>4. word = "all" \/ word = "weekdays" \/ word = "weekend"
    BY DEF SpecialSelections
  <2>5. n \in NormalizeEnabledDays(setting) <=> Selected(day)
    <3> HIDE DEF named, n
    <3> QED BY <1>1, <1>3, <2>1, <2>2, <2>3, <2>4 DEF SpecialDays
  <2> QED BY <2>5
<1>8. CASE ~\E word \in SpecialSelections : only(word)
  <2>1. NormalizeEnabledDays(setting) = IF days = {} THEN FallbackDays ELSE days
    BY <1>8 DEF NormalizeEnabledDays
  <2>2. ~only("all") /\ ~only("weekend")
    BY <1>8 DEF SpecialSelections
  <2>3. n \in NormalizeEnabledDays(setting) <=> Selected(day)
    <3> HIDE DEF named, n, days, only
    <3> QED BY <1>1, <1>3, <1>4, <1>5, <2>1, <2>2
  <2> QED BY <2>3
<1> QED BY <1>7, <1>8

\* A moment is a slot of its day.
LEMMA MomentIsSlotOfDay ==
    ASSUME SmTypeOK
    PROVE  /\ Today \in Int /\ SlotOfDay \in 0..(DaySlots - 1)
           /\ clock = Today * DaySlots + SlotOfDay
           /\ (Today + 1) * DaySlots = Today * DaySlots + DaySlots
           /\ (Today - 1) * DaySlots = Today * DaySlots - DaySlots
           /\ ((Today + 1) - 1) * DaySlots = Today * DaySlots
<1>1. DaySlots \in Nat \ {0} /\ LastDay \in Nat /\ clock \in Int
  BY ScheduleAssumption DEF ScheduleAssumption, SmTypeOK
<1>2. Today \in Int /\ SlotOfDay \in 0..(DaySlots - 1)
  BY <1>1 DEF Today, SlotOfDay
<1>3. clock = Today * DaySlots + SlotOfDay
  BY <1>1 DEF Today, SlotOfDay
<1> QED BY <1>1, <1>2, <1>3

\* The windows and the delays of a night are whole slots.
LEMMA NightsAreSlots ==
    ASSUME SmSettings, NEW day \in Int
    PROVE  /\ WindowFor(day).start \in Int /\ WindowFor(day).end \in Int
           /\ delay \in Nat /\ latest \in Int
BY ScheduleAssumption DEF ScheduleAssumption, SmSettings, WindowFor

\* The night of the target day is the one the clock is in.
LEMMA BoostNights ==
    ASSUME SmTypeOK, SmSettings
    PROVE  BoostIsTheNight
<1> DEFINE begins(day) == (day - 1) * DaySlots + WindowFor(day - 1).end + delay
           boost(day) == /\ Selected(day) /\ begins(day) <= clock
                         /\ clock < day * DaySlots + WindowFor(day).start
                         /\ clock < day * DaySlots + latest
<1> SUFFICES ASSUME \A day \in (Today - 1)..(Today + 1) : Normal(day)
             PROVE  SnapshotState = "night-boost" <=> \E day \in Today..(Today + 1) : boost(day)
  BY DEF BoostIsTheNight
<1>1. /\ Today \in Int /\ SlotOfDay \in 0..(DaySlots - 1) /\ DaySlots \in Nat
      /\ clock = Today * DaySlots + SlotOfDay /\ Today * DaySlots \in Int
      /\ (Today + 1) * DaySlots = Today * DaySlots + DaySlots
      /\ ((Today + 1) - 1) * DaySlots = Today * DaySlots
  BY MomentIsSlotOfDay, ScheduleAssumption DEF ScheduleAssumption
<1>2. TargetDay \in Int /\ (TargetEnabled <=> Selected(TargetDay))
  <2>1. TargetDay \in Int
    BY <1>1 DEF TargetDay
  <2> QED BY <2>1, SelectedDays DEF TargetEnabled, SmSettings
<1>3. /\ WindowFor(Today).start \in Int /\ WindowFor(Today).end \in Int
      /\ WindowFor(Today).start < WindowFor(Today).end
      /\ delay \in Nat /\ Normal(Today)
  <2>1. Normal(Today)
    BY <1>1
  <2> QED BY <1>1, <2>1, NightsAreSlots DEF Normal
<1>4. SnapshotState = "night-boost" <=> ~DaytimeWindowActive /\ boost(TargetDay)
  <2>1. SnapshotState = "night-boost"
          <=> /\ ~DaytimeWindowActive /\ TargetEnabled
              /\ FallbackStart(TargetDay) <= clock /\ clock < NightBoostEnd(TargetDay)
    <3>1. CASE DaytimeWindowActive
      BY <3>1 DEF SnapshotState
    <3>2. CASE ~DaytimeWindowActive /\ ~TargetEnabled
      BY <3>2 DEF SnapshotState
    <3>3. CASE ~DaytimeWindowActive /\ TargetEnabled
      <4>1. SnapshotState = PostNightState
        BY <3>3 DEF SnapshotState
      <4>2. FallbackStart(TargetDay) \in Int /\ clock \in Int
        BY <1>1, <1>2, NightsAreSlots, ScheduleAssumption DEF FallbackStart, ScheduleAssumption
      <4> QED BY <3>3, <4>1, <4>2 DEF PostNightState
    <3> QED BY <3>1, <3>2, <3>3
  <2>2. clock < NightBoostEnd(TargetDay)
          <=> /\ clock < TargetDay * DaySlots + WindowFor(TargetDay).start
              /\ clock < TargetDay * DaySlots + latest
    <3>1. /\ TargetDay * DaySlots \in Int /\ WindowFor(TargetDay).start \in Int
          /\ latest \in Int /\ clock \in Int
      BY <1>1, <1>2, NightsAreSlots
    <3> QED BY <3>1 DEF NightBoostEnd
  <2> QED BY <1>2, <2>1, <2>2 DEF FallbackStart
<1>5. CASE SlotOfDay < WindowFor(Today).end
  <2>1. TargetDay = Today
    BY <1>1, <1>3, <1>5 DEF TargetDay
  <2>2. ~boost(Today + 1)
    BY <1>1, <1>3, <1>5
  <2>3. boost(Today) => ~DaytimeWindowActive
    BY <1>1, <1>3 DEF DaytimeWindowActive
  <2> QED
    <3> HIDE DEF boost
    <3> QED BY <1>1, <1>4, <2>1, <2>2, <2>3
<1>6. CASE SlotOfDay >= WindowFor(Today).end
  <2>1. TargetDay = Today + 1 /\ ~DaytimeWindowActive
    BY <1>1, <1>3, <1>6 DEF TargetDay, DaytimeWindowActive
  <2>2. ~boost(Today)
    BY <1>1, <1>3, <1>6
  <2> QED
    <3> HIDE DEF boost
    <3> QED BY <1>1, <1>4, <2>1, <2>2
<1> QED BY <1>1, <1>3, <1>5, <1>6

\* The snapshot names one of its states.
LEMMA SnapshotNamed ==
    clock \in Int /\ SmSettings
      => SnapshotState \in {"auto-window", "inactive-day", "waiting-fallback",
                           "night-boost", "after-latest-end"}
<1> SUFFICES ASSUME clock \in Int, SmSettings
             PROVE  SnapshotState \in {"auto-window", "inactive-day", "waiting-fallback",
                                      "night-boost", "after-latest-end"}
  OBVIOUS
<1>1. CASE DaytimeWindowActive
  BY <1>1 DEF SnapshotState
<1>2. CASE ~DaytimeWindowActive /\ ~TargetEnabled
  BY <1>2 DEF SnapshotState
<1>3. CASE ~DaytimeWindowActive /\ TargetEnabled
  <2>1. SnapshotState = PostNightState
    BY <1>3 DEF SnapshotState
  <2>2. FallbackStart(TargetDay) \in Int
    <3>1. DaySlots \in Nat /\ Today \in Int
      BY ScheduleAssumption DEF ScheduleAssumption, Today
    <3>2. TargetDay \in Int
      BY <3>1 DEF TargetDay
    <3> QED BY <3>1, <3>2, NightsAreSlots DEF FallbackStart
  <2>3. PostNightState \in {"waiting-fallback", "night-boost", "after-latest-end"}
    BY <2>2 DEF PostNightState
  <2> QED BY <2>1, <2>3
<1> QED BY <1>1, <1>2, <1>3

\* The charger is boosted in the night before an enabled day and at no other
\* time, whatever windows, days and delays are set
\* (core/common_schedule.py:288).
THEOREM BoostIsNight == SmInit /\ [][SmNext]_smVars => [](SmTypeOK /\ BoostIsTheNight)
<1> DEFINE Inv == SmTypeOK /\ SmSettings
<1>1. SmInit => Inv
  <2> SUFFICES ASSUME SmInit PROVE Inv
    OBVIOUS
  <2>1. SmSettings
    BY DEF SmInit, SmSettings
  <2>2. clock \in DaySlots..(LastDay * DaySlots) /\ clock \in Int
    <3>1. DaySlots \in Nat \ {0} /\ LastDay \in Nat \ {0}
      BY ScheduleAssumption DEF ScheduleAssumption
    <3>2. LastDay * DaySlots \in Int /\ LastDay * DaySlots >= DaySlots
      BY <3>1
    <3> QED BY <3>1, <3>2 DEF SmInit
  <2> QED BY <2>1, <2>2, SnapshotNamed DEF SmTypeOK
<1>2. Inv /\ [SmNext]_smVars => Inv'
  <2> SUFFICES ASSUME Inv, [SmNext]_smVars PROVE Inv'
    OBVIOUS
  <2>1. SmSettings'
    BY DEF SmNext, ClockMoves, smVars, SmSettings
  <2>2. clock' \in DaySlots..(LastDay * DaySlots)
    <3>1. LastDay * DaySlots \in Int /\ DaySlots \in Int
      BY ScheduleAssumption DEF ScheduleAssumption
    <3> QED BY <3>1 DEF SmNext, ClockMoves, smVars, SmTypeOK
  <2>3. (SnapshotState \in {"auto-window", "inactive-day", "waiting-fallback",
                            "night-boost", "after-latest-end"})'
    <3>1. clock' \in Int /\ SmSettings'
      <4>1. DaySlots \in Int /\ LastDay * DaySlots \in Int
        BY ScheduleAssumption DEF ScheduleAssumption
      <4> QED BY <2>1, <2>2, <4>1
    <3>2. (clock \in Int /\ SmSettings
             => SnapshotState \in {"auto-window", "inactive-day", "waiting-fallback",
                                  "night-boost", "after-latest-end"})'
      BY SnapshotNamed, PTL
    <3> QED BY <3>1, <3>2
  <2> QED BY <2>1, <2>2, <2>3 DEF SmTypeOK
<1>3. Inv => BoostIsTheNight
  BY BoostNights
<1> QED BY <1>1, <1>2, <1>3, PTL

(***************************************************************************)
(* Learning: what is learned stays within what was observed.               *)
(***************************************************************************)
\* A profile with known and unknown values, and the bounds it keeps.
Profile ==
    [samples : Nat, count : [Kinds -> Nat], most : [Directed -> Known_],
     average : [Directed -> Known_], delta : Known_, delay : Known_, longest : Known_,
     floor : Known_, ceiling : Known_, direction : Directed \cup {"idle"}, active : BOOLEAN,
     sinceIdle : Known_, sinceChange : Known_]
Within(p) ==
    /\ \A d \in Directed : p.average[d] # NotKnown
                              => p.most[d] # NotKnown /\ p.average[d] <= p.most[d]
    /\ p.delay # NotKnown => p.longest # NotKnown /\ p.delay <= p.longest
    /\ p.count["day"] + p.count["night"] = p.count["active"]
    /\ p.count["charge"] + p.count["discharge"] <= p.count["active"]
LearnInv ==
    /\ profiles \in [Batteries -> Profile]
    /\ \A b \in Batteries : Within(profiles[b])

\* A mean of numbers up to a bound does not exceed it.
LEMMA MeanBounded ==
    ASSUME NEW mean \in Int, NEW count \in Nat, NEW candidate \in Int, NEW bound \in Int,
           mean <= bound, candidate <= bound
    PROVE  /\ (mean * count + candidate) \div (count + 1) \in Int
           /\ (mean * count + candidate) \div (count + 1) <= bound
<1>1. mean * count \in Int /\ bound * count \in Int /\ mean * count <= bound * count
  OBVIOUS
<1>2. bound * (count + 1) = bound * count + bound
  OBVIOUS
<1> DEFINE sum == mean * count + candidate
           share == sum \div (count + 1)
<1>3. sum \in Int /\ sum <= bound * (count + 1)
  BY <1>1, <1>2
<1>4. share \in Int /\ (count + 1) * share <= sum
  <2> HIDE DEF sum
  <2> QED BY <1>3
<1>5. share <= bound
  <2> HIDE DEF share, sum
  <2>1. (count + 1) * share <= bound * (count + 1)
    BY <1>3, <1>4
  <2> QED BY <2>1, <1>4
<1> QED BY <1>4, <1>5

\* Averages and extremes of known values are known values.
LEMMA OptionalsTyped ==
    ASSUME NEW a \in Known_, NEW b \in Known_, NEW count \in Nat
    PROVE  /\ MaxOptional(a, b) \in Known_ /\ MinOptional(a, b) \in Known_
           /\ RollingAverage(a, count, b) \in Known_
<1>1. MaxOptional(a, b) \in Known_ /\ MinOptional(a, b) \in Known_
  BY DEF MaxOptional, MinOptional
<1>2. CASE a = NotKnown \/ b = NotKnown
  BY <1>1, <1>2 DEF RollingAverage
<1>3. CASE a # NotKnown /\ b # NotKnown
  <2>1. a \in Int /\ b \in Int /\ a * count \in Int
    BY <1>3 DEF Known_
  <2>2. (a * count + b) \div (count + 1) \in Int
    <3> DEFINE sum == a * count + b
    <3>1. sum \in Int
      BY <2>1
    <3> HIDE DEF sum
    <3>2. sum \div (count + 1) \in Int
      BY <3>1
    <3> QED BY <3>2 DEF sum
  <2> QED BY <1>1, <1>3, <2>2 DEF RollingAverage, Known_
<1> QED BY <1>2, <1>3

\* An average stays below the extreme that takes in the same candidates.
LEMMA AverageBelow ==
    ASSUME NEW mean \in Known_, NEW most \in Known_, NEW count \in Nat, NEW candidate \in Known_,
           NEW seen \in Known_, candidate # NotKnown => candidate = seen,
           mean # NotKnown => most # NotKnown /\ mean <= most
    PROVE  LET average == RollingAverage(mean, count, candidate)
               largest == MaxOptional(most, seen)
           IN  /\ average \in Known_
               /\ average # NotKnown => largest # NotKnown /\ average <= largest
<1> DEFINE average == RollingAverage(mean, count, candidate)
           largest == MaxOptional(most, seen)
<1>1. NotKnown \notin Int
  BY ElAssumption DEF ElAssumption
<1>2. largest \in Known_
  BY OptionalsTyped
<1>3. most # NotKnown => largest # NotKnown /\ most <= largest
  BY <1>1 DEF MaxOptional, Known_
<1>4. seen # NotKnown => largest # NotKnown /\ seen <= largest
  BY <1>1 DEF MaxOptional, Known_
<1>5. CASE candidate = NotKnown
  BY <1>1, <1>2, <1>3, <1>5 DEF RollingAverage, Known_
<1>6. CASE candidate # NotKnown /\ mean = NotKnown
  BY <1>4, <1>6 DEF RollingAverage
<1>7. CASE candidate # NotKnown /\ mean # NotKnown
  <2>1. /\ mean \in Int /\ candidate \in Int /\ largest \in Int
        /\ mean <= largest /\ candidate <= largest /\ largest # NotKnown
    <3> HIDE DEF largest
    <3> QED BY <1>2, <1>3, <1>4, <1>7 DEF Known_
  <2>2. average = (mean * count + candidate) \div (count + 1)
    BY <1>7 DEF RollingAverage
  <2>3. average \in Int /\ average <= largest
    <3> HIDE DEF average, largest
    <3> QED BY <2>1, <2>2, MeanBounded
  <2> HIDE DEF average, largest
  <2>4. average \in Known_ /\ (average # NotKnown => largest # NotKnown /\ average <= largest)
    BY <2>1, <2>3 DEF Known_
  <2> QED BY <2>4 DEF average, largest
<1> QED BY <1>5, <1>6, <1>7

\* What a measurement of a source adds to its counts.
LEMMA CountedKinds ==
    ASSUME NEW p, NEW o, NEW period \in {"day", "night"}
    PROVE  LET counted == CountedAs(p, o, period)
           IN  /\ "active" \in counted <=> ActiveNow(o)
               /\ "day" \in counted <=> ActiveNow(o) /\ period = "day"
               /\ "night" \in counted <=> ActiveNow(o) /\ period = "night"
               /\ "charge" \in counted <=> DirectionOf(o) = "charge"
               /\ "discharge" \in counted <=> DirectionOf(o) = "discharge"
<1> DEFINE counted == CountedAs(p, o, period)
<1>1. \A k \in Kinds : k \in counted
        <=> \/ k \in GridKinds(o) \/ k \in PeriodKinds(o, period)
            \/ k \in Directed /\ k = DirectionOf(o)
            \/ k = "active" /\ ActiveNow(o)
            \/ k = "response" /\ ResponseDelay(p, o) # NotKnown
            \/ k = "smoothing" /\ SmoothingDelta(p, o) # NotKnown
            \/ k = "turns" /\ DirectionChanged(p, DirectionOf(o))
  BY DEF CountedAs
<1>2. \A k \in {"active", "day", "night", "charge", "discharge"} :
         /\ k \in Kinds /\ k \notin GridKinds(o)
         /\ k \in PeriodKinds(o, period) <=> ActiveNow(o) /\ k = period
  BY DEF GridKinds, PeriodKinds, Kinds
<1> HIDE DEF counted
<1>3. /\ "active" \in counted <=> ActiveNow(o)
      /\ "day" \in counted <=> ActiveNow(o) /\ period = "day"
      /\ "night" \in counted <=> ActiveNow(o) /\ period = "night"
      /\ "charge" \in counted <=> DirectionOf(o) = "charge"
      /\ "discharge" \in counted <=> DirectionOf(o) = "discharge"
  BY <1>1, <1>2 DEF Directed
<1> QED BY <1>3 DEF counted

\* The values a measurement contributes.
LEMMA ContributionsTyped ==
    ASSUME NEW p \in Profile, NEW o \in Observed
    PROVE  /\ DirectionOf(o) \in Directed \cup {"idle"} /\ ActiveNow(o) \in BOOLEAN
           /\ \A d \in Directed : PowerIn(o, d) \in Int
           /\ ResponseDelay(p, o) \in Known_ /\ SmoothingDelta(p, o) \in Known_
           /\ o.soc \in Known_
<1>1. /\ o.net \in Int /\ o.ac \in Int /\ o.soc \in Known_
  BY ElAssumption DEF ElAssumption
<1>2. \A d \in Directed : PowerIn(o, d) \in Int
  BY <1>1 DEF PowerIn, PositivePart
<1>3. DirectionOf(o) \in Directed \cup {"idle"} /\ ActiveNow(o) \in BOOLEAN
  BY DEF DirectionOf, ActiveNow, Directed
<1>4. p.average \in [Directed -> Known_] /\ p.sinceIdle \in Known_ /\ p.sinceChange \in Known_
  BY DEF Profile
<1>5. ResponseDelay(p, o) \in Known_
  BY <1>4 DEF ResponseDelay, Known_
<1>6. SmoothingDelta(p, o) \in Known_
  <2>1. CASE DirectionOf(o) \notin Directed \/ p.average[DirectionOf(o)] = NotKnown
    BY <2>1 DEF SmoothingDelta, Known_
  <2>2. CASE DirectionOf(o) \in Directed /\ p.average[DirectionOf(o)] # NotKnown
    <3>1. p.average[DirectionOf(o)] \in Int /\ PowerIn(o, DirectionOf(o)) \in Int
      BY <1>2, <1>4, <2>2 DEF Known_
    <3> QED BY <2>2, <3>1 DEF SmoothingDelta, Distance, Known_
  <2> QED BY <2>1, <2>2
<1> QED BY <1>1, <1>2, <1>3, <1>5, <1>6

\* Time passing changes no more than the two ages.
LEMMA AgedWithin ==
    ASSUME NEW p \in Profile, Within(p)
    PROVE  ElAged(p) \in Profile /\ Within(ElAged(p))
<1>1. \A x \in Int : Min({x + 1, 2}) \in Int
  <2> TAKE x \in Int
  <2>1. Min({x + 1, 2}) = IF x + 1 <= 2 THEN x + 1 ELSE 2
    BY DEF Min
  <2> QED BY <2>1
<1>2. /\ (IF p.sinceIdle = NotKnown THEN p.sinceIdle ELSE Min({p.sinceIdle + 1, 2})) \in Known_
      /\ (IF p.sinceChange = NotKnown THEN p.sinceChange ELSE Min({p.sinceChange + 1, 2})) \in Known_
  BY <1>1 DEF Profile, Known_
<1>3. ElAged(p) = [p EXCEPT !.sinceIdle = ElAged(p).sinceIdle, !.sinceChange = ElAged(p).sinceChange]
      /\ ElAged(p).sinceIdle \in Known_ /\ ElAged(p).sinceChange \in Known_
  BY <1>2 DEF ElAged, Profile
<1>4. /\ ElAged(p).average = p.average /\ ElAged(p).most = p.most /\ ElAged(p).delay = p.delay
      /\ ElAged(p).longest = p.longest /\ ElAged(p).count = p.count
  BY DEF ElAged, Profile
<1>5. ElAged(p) \in Profile
  BY <1>3 DEF Profile
<1> QED BY <1>4, <1>5 DEF Within

\* The profile after a measurement.
LEMMA UpdatedFields ==
    ASSUME NEW p \in Profile, NEW o \in Observed, NEW period
    PROVE  LET q == UpdatedProfile(p, o, period)
           IN  /\ q \in Profile
               /\ q.count = [k \in Kinds |-> IF k \in CountedAs(p, o, period)
                                             THEN p.count[k] + 1 ELSE p.count[k]]
               /\ q.most = [k \in Directed |-> MaxOptional(p.most[k], PowerIn(o, k))]
               /\ q.average = [k \in Directed |->
                                  RollingAverage(p.average[k], p.count[k],
                                      IF k = DirectionOf(o) THEN PowerIn(o, k) ELSE NotKnown)]
               /\ q.delay = RollingAverage(p.delay, p.count["response"], ResponseDelay(p, o))
               /\ q.longest = MaxOptional(p.longest, ResponseDelay(p, o))
<1> DEFINE counts == [k \in Kinds |-> IF k \in CountedAs(p, o, period)
                                      THEN p.count[k] + 1 ELSE p.count[k]]
           sampled == [p EXCEPT !.samples = @ + 1, !.count = counts]
           largest == [k \in Directed |-> MaxOptional(p.most[k], PowerIn(o, k))]
           lowest == MinOptional(p.floor, IF DirectionOf(o) = "discharge" THEN o.soc ELSE NotKnown)
           highest == MaxOptional(p.ceiling, IF DirectionOf(o) = "charge" THEN o.soc ELSE NotKnown)
           observed == [sampled EXCEPT !.most = largest, !.floor = lowest, !.ceiling = highest]
           averages == [k \in Directed |->
                           RollingAverage(p.average[k], p.count[k],
                               IF k = DirectionOf(o) THEN PowerIn(o, k) ELSE NotKnown)]
           strays == RollingAverage(p.delta, p.count["smoothing"], SmoothingDelta(p, o))
           delays == RollingAverage(p.delay, p.count["response"], ResponseDelay(p, o))
           extreme == MaxOptional(p.longest, ResponseDelay(p, o))
           idle == IF ~ActiveNow(o) THEN 0 ELSE p.sinceIdle
           updated == [observed EXCEPT !.average = averages, !.delta = strays, !.delay = delays,
                                       !.longest = extreme, !.direction = DirectionOf(o),
                                       !.active = ActiveNow(o), !.sinceIdle = idle,
                                       !.sinceChange = 0]
<1>1. UpdatedProfile(p, o, period) = ActivityUpdates(p, ObservationUpdates(sampled, o), o)
  BY DEF UpdatedProfile, Profile
<1>2. ObservationUpdates(sampled, o) = observed
  <2>1. sampled.most = p.most /\ sampled.floor = p.floor /\ sampled.ceiling = p.ceiling
    <3> HIDE DEF counts
    <3> QED BY DEF Profile
  <2>2. "most" \in DOMAIN sampled /\ "floor" \in DOMAIN sampled /\ "ceiling" \in DOMAIN sampled
    <3> HIDE DEF counts
    <3> QED BY DEF Profile
  <2> HIDE DEF sampled
  <2> QED BY <2>1, <2>2 DEF ObservationUpdates
<1>3. /\ p.count \in [Kinds -> Nat] /\ p.most \in [Directed -> Known_]
      /\ p.average \in [Directed -> Known_]
      /\ {p.delta, p.delay, p.longest, p.floor, p.ceiling, p.sinceIdle, NotKnown} \subseteq Known_
      /\ "smoothing" \in Kinds /\ "response" \in Kinds /\ Directed \subseteq Kinds
  BY DEF Profile, Kinds, Directed, Known_
<1>4. /\ counts \in [Kinds -> Nat] /\ largest \in [Directed -> Known_]
      /\ averages \in [Directed -> Known_]
  <2>1. \A k \in Directed : PowerIn(o, k) \in Known_ /\ p.count[k] \in Nat
    BY <1>3, ContributionsTyped DEF Known_
  <2>2. \A k \in Directed : largest[k] \in Known_ /\ averages[k] \in Known_
    BY <1>3, <2>1, OptionalsTyped
  <2> QED BY <1>3, <2>2
<1>5. {strays, delays, extreme, lowest, highest, idle} \subseteq Known_
  <2>1. idle \in Known_
    BY <1>3 DEF Known_
  <2>2. strays \in Known_ /\ delays \in Known_ /\ extreme \in Known_
    BY <1>3, ContributionsTyped, OptionalsTyped
  <2>3. lowest \in Known_ /\ highest \in Known_
    BY <1>3, ContributionsTyped, OptionalsTyped
  <2> QED BY <2>1, <2>2, <2>3
<1>6. observed \in Profile /\ observed.longest = p.longest /\ observed.sinceIdle = p.sinceIdle
      /\ observed.count = counts /\ observed.most = largest
  <2> HIDE DEF counts, largest, lowest, highest
  <2>1. sampled \in Profile /\ sampled.longest = p.longest /\ sampled.sinceIdle = p.sinceIdle
        /\ sampled.count = counts
    <3>1. p.samples + 1 \in Nat
      BY DEF Profile
    <3>2. sampled \in Profile
      BY <1>4, <3>1 DEF Profile
    <3>3. sampled.longest = p.longest /\ sampled.sinceIdle = p.sinceIdle
      BY DEF Profile
    <3>4. sampled.count = counts
      BY DEF Profile
    <3> QED BY <3>2, <3>3, <3>4
  <2> HIDE DEF sampled
  <2>2. observed \in Profile
    BY <1>4, <1>5, <2>1 DEF Profile
  <2>3. /\ observed.longest = sampled.longest /\ observed.sinceIdle = sampled.sinceIdle
        /\ observed.count = sampled.count /\ observed.most = largest
    BY <2>1 DEF Profile
  <2> QED BY <2>1, <2>2, <2>3
<1>7. ActivityUpdates(p, observed, o) = updated
  <2>1. "longest" \in DOMAIN observed /\ "sinceIdle" \in DOMAIN observed
    <3> HIDE DEF observed
    <3> QED BY <1>6 DEF Profile
  <2> HIDE DEF observed
  <2> QED BY <1>6, <2>1 DEF ActivityUpdates
<1>8. /\ updated \in Profile /\ updated.count = counts /\ updated.most = largest
      /\ updated.average = averages /\ updated.delay = delays /\ updated.longest = extreme
  <2>1. DirectionOf(o) \in Directed \cup {"idle"} /\ ActiveNow(o) \in BOOLEAN /\ 0 \in Known_
    BY ContributionsTyped DEF Known_
  <2> HIDE DEF observed, counts, largest, averages, strays, delays, extreme, idle
  <2> QED BY <1>4, <1>5, <1>6, <2>1 DEF Profile
<1> QED BY <1>1, <1>2, <1>7, <1>8

\* A measurement keeps what is learned within what was observed.
LEMMA UpdatedWithin ==
    ASSUME NEW p \in Profile, Within(p), NEW o \in Observed, NEW period \in {"day", "night"}
    PROVE  Within(UpdatedProfile(p, o, period))
<1> DEFINE q == UpdatedProfile(p, o, period)
           counted == CountedAs(p, o, period)
<1>1. /\ p.count \in [Kinds -> Nat] /\ p.most \in [Directed -> Known_]
      /\ p.average \in [Directed -> Known_] /\ p.delay \in Known_ /\ p.longest \in Known_
      /\ {"active", "day", "night", "charge", "discharge", "response"} \subseteq Kinds
      /\ Directed \subseteq Kinds
  BY DEF Profile, Kinds, Directed
<1>2. ASSUME NEW d \in Directed, q.average[d] # NotKnown
      PROVE  q.most[d] # NotKnown /\ q.average[d] <= q.most[d]
  <2> DEFINE candidate == IF d = DirectionOf(o) THEN PowerIn(o, d) ELSE NotKnown
  <2>1. /\ q.average[d] = RollingAverage(p.average[d], p.count[d], candidate)
        /\ q.most[d] = MaxOptional(p.most[d], PowerIn(o, d))
    <3>1. /\ q.average = [k \in Directed |->
                             RollingAverage(p.average[k], p.count[k],
                                 IF k = DirectionOf(o) THEN PowerIn(o, k) ELSE NotKnown)]
          /\ q.most = [k \in Directed |-> MaxOptional(p.most[k], PowerIn(o, k))]
      BY UpdatedFields
    <3> HIDE DEF q
    <3> QED BY <3>1
  <2>2. PowerIn(o, d) \in Known_ /\ candidate \in Known_
    BY ContributionsTyped DEF Known_
  <2>3. candidate # NotKnown => candidate = PowerIn(o, d)
    OBVIOUS
  <2> HIDE DEF candidate, q
  <2>4. p.average[d] # NotKnown => p.most[d] # NotKnown /\ p.average[d] <= p.most[d]
    BY DEF Within
  <2>5. p.average[d] \in Known_ /\ p.most[d] \in Known_ /\ p.count[d] \in Nat
    BY <1>1
  <2> QED BY <1>2, <2>1, <2>2, <2>3, <2>4, <2>5, AverageBelow
<1>3. q.delay # NotKnown => q.longest # NotKnown /\ q.delay <= q.longest
  <2>1. /\ q.delay = RollingAverage(p.delay, p.count["response"], ResponseDelay(p, o))
        /\ q.longest = MaxOptional(p.longest, ResponseDelay(p, o))
    BY UpdatedFields
  <2>2. ResponseDelay(p, o) \in Known_ /\ p.count["response"] \in Nat
    BY <1>1, ContributionsTyped
  <2>3. p.delay # NotKnown => p.longest # NotKnown /\ p.delay <= p.longest
    BY DEF Within
  <2> HIDE DEF q
  <2> QED BY <1>1, <2>1, <2>2, <2>3, AverageBelow
<1>4. /\ q.count["day"] + q.count["night"] = q.count["active"]
      /\ q.count["charge"] + q.count["discharge"] <= q.count["active"]
  <2>1. q.count = [k \in Kinds |-> IF k \in counted THEN p.count[k] + 1 ELSE p.count[k]]
    BY UpdatedFields
  <2>2. /\ "active" \in counted <=> ActiveNow(o)
        /\ "day" \in counted <=> ActiveNow(o) /\ period = "day"
        /\ "night" \in counted <=> ActiveNow(o) /\ period = "night"
        /\ "charge" \in counted <=> DirectionOf(o) = "charge"
        /\ "discharge" \in counted <=> DirectionOf(o) = "discharge"
    BY CountedKinds
  <2>3. DirectionOf(o) \in Directed => ActiveNow(o)
    BY DEF ActiveNow
  <2>4. /\ p.count["day"] + p.count["night"] = p.count["active"]
        /\ p.count["charge"] + p.count["discharge"] <= p.count["active"]
    BY DEF Within
  <2>5. {p.count["day"], p.count["night"], p.count["active"], p.count["charge"],
         p.count["discharge"]} \subseteq Nat
    BY <1>1
  <2> HIDE DEF q, counted
  <2> QED BY <1>1, <2>1, <2>2, <2>3, <2>4, <2>5 DEF Directed
<1> QED BY <1>2, <1>3, <1>4 DEF Within

\* No average the learning keeps exceeds the largest value it was taken over, and
\* every active measurement is counted by day or by night
\* (energy/learning_update.py:459).
THEOREM LearnedStaysWithin == ElSpec => []LearnedWithinObserved
<1>1. ElInit => LearnInv
  <2>1. NewProfile \in Profile /\ Within(NewProfile)
    BY DEF NewProfile, Profile, Within, Kinds, Directed, Known_
  <2> QED BY <2>1 DEF ElInit, LearnInv
<1>2. LearnInv /\ [ElNext]_elVars => LearnInv'
  <2> SUFFICES ASSUME LearnInv, [ElNext]_elVars PROVE LearnInv'
    OBVIOUS
  <2>1. ASSUME NEW b \in Batteries, NEW o \in Observed, NEW period \in {"day", "night"},
               Learn(b, o, period)
        PROVE  LearnInv'
    <3>1. ASSUME NEW c \in Batteries
          PROVE  /\ ElAged(profiles[c]) \in Profile /\ Within(ElAged(profiles[c]))
                 /\ UpdatedProfile(ElAged(profiles[c]), o, period) \in Profile
                 /\ Within(UpdatedProfile(ElAged(profiles[c]), o, period))
      <4>1. profiles[c] \in Profile /\ Within(profiles[c])
        BY DEF LearnInv
      <4>2. ElAged(profiles[c]) \in Profile /\ Within(ElAged(profiles[c]))
        BY <4>1, AgedWithin
      <4> QED BY <4>2, UpdatedFields, UpdatedWithin
    <3>2. profiles' = [c \in Batteries |->
                IF c = b THEN UpdatedProfile(ElAged(profiles[c]), o, period) ELSE ElAged(profiles[c])]
      BY <2>1 DEF Learn
    <3> QED BY <3>1, <3>2 DEF LearnInv
  <2>2. ASSUME NEW b \in Batteries, Expires(b)
        PROVE  LearnInv'
    BY <2>2 DEF Expires, LearnInv
  <2>3. CASE UNCHANGED elVars
    BY <2>3 DEF elVars, LearnInv
  <2> QED BY <2>1, <2>2, <2>3 DEF ElNext
<1>3. LearnInv => LearnedWithinObserved
  BY DEF LearnInv, Within, LearnedWithinObserved
<1> QED BY <1>1, <1>2, <1>3, PTL DEF ElSpec
=============================================================================
