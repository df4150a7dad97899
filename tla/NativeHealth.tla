---------------------------- MODULE NativeHealth ----------------------------
(***************************************************************************)
(* The health of the Rust D-Bus adapter: the circuit breaker fed by its    *)
(* bus operations (health.rs, health/evidence.rs), the resource monitor    *)
(* (resources.rs), the service-level objectives (health/slo.rs), the       *)
(* aggregate that recovers late (health/state.rs), and what they decide:   *)
(* the read mode, the queue pressure and the length of the tick            *)
(* (runtime/operation_cycle.rs, runtime/scheduling.rs).                    *)
(***************************************************************************)
EXTENDS Integers, FiniteSets

CONSTANTS
    OpWindow,         \* WINDOW, in ticks
    DegradeAt,        \* DEGRADED_TIMEOUTS
    ProtectAbove,     \* PROTECTIVE_TIMEOUTS
    DegradeTicks,     \* DEGRADED_HOLD
    ProtectTicks,     \* PROTECTIVE_HOLD
    ResourceTicks,    \* recovery hold of the resource monitor
    AggregateTicks,   \* RECOVERY_HOLD of the aggregate
    NhOperations,     \* the kinds of operation, "optional_read" among them
    NhSamples,        \* what the monitor may sample, [NhMetrics -> 0..4 or Unread_]
    NhSlo,            \* what the objectives may observe
    NhDemands,        \* what the tick may have to carry
    ShortTick, LongTick   \* minimum and maximum tick, in hundredths

NhMetrics == {"load", "cpu", "memory"}
Unread_ == -1

ASSUME NhAssumption ==
    /\ DegradeAt \in 1..ProtectAbove
    /\ ShortTick \in 1..LongTick
    /\ {OpWindow, ProtectAbove, DegradeTicks, ProtectTicks, LongTick} \subseteq Nat
    /\ NhDemands \subseteq [reads : Nat, queue : Nat, p95 : Nat, readDeadline : Nat, readAge : Nat,
                            queueDeadline : Nat, queueAge : Nat]
    /\ NhSamples \subseteq [NhMetrics -> Unread_..4]

VARIABLES
    timeouts_,   \* [0..OpWindow -> required operations that timed out so long ago]
    circuit,     \* [protect, degrade: ticks the state still holds]
    trigger,     \* what tripped the breaker last
    streak,      \* consecutive failures of required operations
    resource,    \* [state, target, since, causes, active]
    slo,         \* [violated, pressure]
    overall,     \* [state, target, since]
    tickLength,  \* the adaptive tick
    spent        \* history: required timeouts, by age, independent of pruning

nhVars == <<timeouts_, circuit, trigger, streak, resource, slo, overall, tickLength, spent>>

Severity_(s) == CASE s \in {"protective", "constrained"} -> 2
                  [] s \in {"degraded", "busy"} -> 1 [] OTHER -> 0
Worse(a, b) == IF Severity_(a) >= Severity_(b) THEN a ELSE b
Within(n, low, high) == IF n < low THEN low ELSE IF n > high THEN high ELSE n
NhCap == ProtectAbove + 1

\* How many of the counted timeouts the window still holds.
CountIn(f) ==
    LET upTo[i \in 0..OpWindow] == IF i = 0 THEN f[0] ELSE upTo[i - 1] + f[i]
    IN  upTo[OpWindow]

(***************************************************************************)
(* The circuit breaker.                                                    *)
(***************************************************************************)

NoTrigger == [count |-> 0, kind |-> "none", until |-> 0]

OperationalState == IF circuit.protect > 0 THEN "protective"
                    ELSE IF circuit.degrade > 0 THEN "degraded" ELSE "ok"

Mutant_EveryTimeout(op) == op.result = "timeout"

\* Optional (PV) operations never count against the bus.
CountsAsTimeout(op) == op.result = "timeout" /\ op.kind # "optional_read"

Tripped(op, n) ==
    /\ circuit' = [circuit EXCEPT !.protect = ProtectTicks]
    /\ trigger' = IF circuit.protect = 0 \/ trigger = NoTrigger
                  THEN [count |-> n, kind |-> op.kind, until |-> ProtectTicks]
                  ELSE [trigger EXCEPT !.until = ProtectTicks]

RecordOperation ==
    \E op \in [kind : NhOperations,
               result : {"ok", "error", "timeout"}] :
        LET counts == CountsAsTimeout(op)
            marked == [timeouts_ EXCEPT ![0] = IF counts THEN Within(@ + 1, 0, NhCap) ELSE @]
            n == CountIn(marked)
        IN  /\ timeouts_' = marked
            /\ streak' = IF op.result = "ok" THEN 0
                         ELSE IF op.kind = "optional_read" THEN streak
                         ELSE Within(streak + 1, 0, 2)
            /\ IF counts /\ n > ProtectAbove THEN Tripped(op, n)
               ELSE /\ circuit' = IF counts /\ n >= DegradeAt
                                  THEN [circuit EXCEPT !.degrade = DegradeTicks] ELSE circuit
                    /\ UNCHANGED trigger
            /\ spent' = IF op.result = "timeout" /\ op.kind # "optional_read"
                        THEN [spent EXCEPT ![0] = Within(@ + 1, 0, NhCap)] ELSE spent
            /\ UNCHANGED <<resource, slo, overall, tickLength>>

(***************************************************************************)
(* The resource monitor: rises at once, falls after a hold, and only when  *)
(* every metric is known to be below its exit level.                       *)
(***************************************************************************)

Reads(s, m, level) == s[m] >= level
Classified(s) ==
    IF \A m \in NhMetrics : s[m] = Unread_ THEN "busy"
    ELSE IF \E m \in NhMetrics : s[m] = 4 THEN "constrained"
    ELSE IF \E m \in NhMetrics : Reads(s, m, 2) THEN "busy" ELSE "ok"
NhExitReady(s, level) == \A m \in NhMetrics : s[m] \in 0..level

Candidate(s) ==
    IF resource.state = "constrained" /\ ~NhExitReady(s, 2) THEN "constrained"
    ELSE IF resource.state = "busy" /\ Classified(s) = "ok" /\ ~NhExitReady(s, 0) THEN "busy"
    ELSE Classified(s)

Latched(latch, wanted, hold) ==
    IF Severity_(wanted) >= Severity_(latch.state)
    THEN [latch EXCEPT !.state = wanted, !.target = wanted, !.since = 0]
    ELSE LET since == IF latch.target = wanted /\ latch.state # latch.target
                      THEN latch.since ELSE 0
         IN  IF since >= hold THEN [latch EXCEPT !.state = wanted, !.target = wanted, !.since = 0]
             ELSE [latch EXCEPT !.target = wanted, !.since = since]

ConstrainedCauses(s) == {m \in NhMetrics : s[m] = 4}
IsCritical(causes) == causes \cap {"cpu", "memory"} # {}

\* The evidence is that of the first, or the first critical, sample of a spell.
PressureEvidence(before, after, causes, s) ==
    IF after # "constrained" \/ ConstrainedCauses(s) = {} THEN causes
    ELSE IF before = "constrained" /\ (IsCritical(causes) \/ ~IsCritical(ConstrainedCauses(s)))
    THEN causes ELSE ConstrainedCauses(s)

SampleResources ==
    /\ \E s \in NhSamples :
         LET next == Latched(resource, Candidate(s), ResourceTicks)
         IN  resource' = [next EXCEPT !.causes =
                            PressureEvidence(resource.state, next.state, resource.causes, s)]
    /\ UNCHANGED <<timeouts_, circuit, trigger, streak, slo, overall, tickLength, spent>>

ResourceIsProtective == resource.state = "constrained" /\ IsCritical(resource.causes)

(***************************************************************************)
(* Objectives, the aggregate and the tick, in one publication step.        *)
(***************************************************************************)

\* The objectives that an observation misses.
SloViolated(o) == o.gui > o.guiMax \/ o.missing > 0 \/ o.core > o.coreMax
                  \/ o.nonfresh > 0 \/ o.queue > o.queueMax \/ o.gap > o.gapMax
SloPressure(o) == IF o.queue > 2 * o.queueMax THEN "slow"
                  ELSE IF SloViolated(o) THEN "congested" ELSE "ok"

BackPressure(p) == CASE OperationalState = "protective" -> "protective"
                     [] OperationalState = "degraded" -> "slow" [] OTHER -> p

PerformanceState(violated, p) ==
    IF ResourceIsProtective \/ BackPressure(p) = "protective" THEN "protective"
    ELSE IF violated \/ BackPressure(p) \in {"congested", "slow"} THEN "degraded" ELSE "ok"

NhProtectiveCause ==
    IF overall.state # "protective" THEN ""
    ELSE IF OperationalState = "protective" THEN "circuit-breaker"
    ELSE IF ResourceIsProtective THEN "resource" ELSE "recovery-hold"

\* The queue pressure and the read mode.
PressureState ==
    IF OperationalState = "protective" THEN "protective"
    ELSE IF \/ OperationalState = "degraded" \/ resource.state = "constrained"
            \/ slo.pressure = "slow" THEN "slow"
    ELSE IF resource.state = "busy" \/ slo.pressure = "congested" THEN "congested" ELSE "ok"
MayIntrospect == resource.state # "constrained" /\ OperationalState = "ok"

NhStateBaseline ==
    IF resource.state = "constrained" THEN LongTick
    ELSE IF OperationalState = "degraded"
    THEN Within(IF ShortTick * 5 > 100 THEN (ShortTick * 5) \div 2 ELSE 50, ShortTick, LongTick)
    ELSE IF resource.state = "busy"
    THEN Within(IF ShortTick * 3 > 60 THEN (ShortTick * 3) \div 2 ELSE 30, ShortTick, LongTick)
    ELSE ShortTick

NhServiceFloor(d) == IF resource.state = "ok" \/ d.queue > 0 THEN ShortTick
                   ELSE Within(d.p95, ShortTick, LongTick)

\* Hundredths left before the nearer of the read and queue deadlines.
CriticalDeadline(d) ==
    LET read == IF d.reads > 0 THEN Within(d.readDeadline - d.readAge, 0, 100000) ELSE 100000
        queue == IF d.queue > 0 THEN Within(d.queueDeadline - d.queueAge, 0, 100000) ELSE 100000
    IN  IF read < queue THEN read ELSE queue

TickFor(d) ==
    LET count == d.reads + d.queue
        floor == NhServiceFloor(d)
        base == IF count = 0 \/ NhStateBaseline > floor THEN NhStateBaseline ELSE floor
        left == Within((CriticalDeadline(d) * 8) \div 10 - d.p95 * count, 0, 100000)
        room == Within(left \div (IF count = 0 THEN 1 ELSE count), floor, LongTick)
    IN  IF OperationalState = "protective" THEN LongTick
        ELSE IF count = 0 THEN base ELSE IF room < base THEN room ELSE base

PublishHealth ==
    /\ \E o \in NhSlo, d \in NhDemands :
         LET performance == PerformanceState(SloViolated(o), SloPressure(o))
         IN  /\ slo' = [violated |-> SloViolated(o), pressure |-> SloPressure(o)]
             /\ overall' = Latched(overall, Worse(OperationalState, performance), AggregateTicks)
             /\ tickLength' = TickFor(d)
    /\ UNCHANGED <<timeouts_, circuit, trigger, streak, resource, spent>>

(***************************************************************************)
(* Time: the window slides, holds run down, recoveries ripen.              *)
(***************************************************************************)

Shifted(f) == [i \in 0..OpWindow |-> IF i = 0 THEN 0 ELSE f[i - 1]]

Mutant_NeverPruned(f) == [i \in 0..OpWindow |->
    IF i = 0 THEN 0 ELSE IF i = OpWindow THEN Within(f[i - 1] + f[i], 0, NhCap) ELSE f[i - 1]]

Pruned(f) == Shifted(f)

Fewer(n) == Within(n - 1, 0, n + 1)
NhTick ==
    /\ timeouts_' = Pruned(timeouts_)
    /\ spent' = Shifted(spent)
    /\ circuit' = [circuit EXCEPT !.protect = Fewer(@), !.degrade = Fewer(@)]
    /\ trigger' = [trigger EXCEPT !.until = Fewer(@)]
    /\ resource' = [resource EXCEPT !.since = Within(@ + 1, 0, ResourceTicks)]
    /\ overall' = [overall EXCEPT !.since = Within(@ + 1, 0, AggregateTicks)]
    /\ UNCHANGED <<streak, slo, tickLength>>

NhInit ==
    /\ timeouts_ = [i \in 0..OpWindow |-> 0] /\ spent = timeouts_
    /\ circuit = [protect |-> 0, degrade |-> 0] /\ trigger = NoTrigger /\ streak = 0
    /\ resource = [state |-> "ok", target |-> "ok", since |-> 0, causes |-> {}]
    /\ slo = [violated |-> FALSE, pressure |-> "ok"]
    /\ overall = [state |-> "ok", target |-> "ok", since |-> 0]
    /\ tickLength = ShortTick

NhNext == RecordOperation \/ SampleResources \/ PublishHealth \/ NhTick

NhSpec == NhInit /\ [][NhNext]_nhVars

(***************************************************************************)
(* Properties.                                                             *)
(***************************************************************************)

NhTypeOK ==
    /\ \A i \in 0..OpWindow : timeouts_[i] \in 0..NhCap
    /\ circuit.protect \in 0..ProtectTicks /\ circuit.degrade \in 0..DegradeTicks
    /\ resource.state \in {"ok", "busy", "constrained"}
    /\ overall.state \in {"ok", "degraded", "protective"}
    /\ tickLength \in ShortTick..LongTick

\* The breaker turns protective, or is prolonged, only when more required
\* operations than the limit timed out inside the window, however pauses,
\* optional reads and earlier trips interleave; and what it names as the
\* trigger lasts exactly as long as the state it explains.
TripEarned ==
    [][/\ circuit'.protect > circuit.protect =>
            CountIn(spent') > ProtectAbove /\ trigger'.count > ProtectAbove
       /\ OperationalState' = "protective" => trigger'.until = circuit'.protect]_nhVars
=============================================================================
