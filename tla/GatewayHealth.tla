--------------------------- MODULE GatewayHealth ---------------------------
(***************************************************************************)
(* What the DBus gateway concludes about its own health and how it throt-  *)
(* tles itself: the circuit breaker (dbus_adapter/rate.py), the resource   *)
(* latch (resource_pressure.py), the service level checks (health/slo.py), *)
(* the aggregated state (health/state.py), the regulation of budgets       *)
(* (process/health_regulation.py) and the length of the work tick          *)
(* (tick_policy.py). One step is one work tick; measurements are chosen.   *)
(***************************************************************************)
EXTENDS Integers, Sequences, SequencesExt, FiniteSets, FiniteSetsExt

CONSTANTS
    Metrics,            \* measured dimensions, among "load", "cpu", "memory"
    TimeoutWindow,      \* ticks for which a timeout counts
    DegradedTimeouts,   \* timeouts in the window that degrade the circuit
    ProtectiveTimeouts, \* more than so many make it protective
    DegradedTicks, ProtectiveTicks,  \* how long each lasts
    ResourceHold,       \* ticks of better readings before the latch follows
    HealthHold,         \* ticks of a better state before it is published
    SnapshotTicks,      \* a control snapshot is reused for so many ticks
    BaseBurst,          \* local_publish_burst_limit
    MinTick, MaxTick,   \* tick bounds, in tenths of a second
    SloTenths,          \* the core read deadline, in tenths of a second
    Samples,            \* resource readings, functions of Metrics
    Levels,             \* [violated, queue]: service level observations
    Demands             \* [reads, queue, age, p95]: what the tick is for

ASSUME HealthAssumption ==
    /\ Metrics \subseteq {"load", "cpu", "memory"}
    /\ {TimeoutWindow, DegradedTicks, ProtectiveTicks, BaseBurst, MinTick, HealthHold} \subseteq Nat \ {0}
    /\ {ProtectiveTimeouts, ResourceHold, SnapshotTicks, SloTenths} \subseteq Nat
    /\ MaxTick \in Nat /\ MaxTick >= MinTick
    /\ Samples \subseteq [Metrics -> -1 .. 4]
    /\ Demands \subseteq [reads : Nat, queue : Nat, age : Nat, p95 : Nat]

VARIABLES
    timeouts,    \* ages of the timeouts in the window, oldest first
    circuitLeft, \* ticks left of the degraded and of the protective deadline
    healthTrigger,     \* protective_until of the recorded trigger, in ticks, or -1
    resourceLatch,    \* ResourceStateLatch: state, recovery target and its age
    healthEvidence,    \* causes of the last constrained evidence
    healthEpisode,     \* history: causes measured since the latch became constrained
    health,      \* GatewayHealthStateLatch: state, recovery target and its age
    calm,        \* history: ticks since the aggregate was last wanted this high
    snap,        \* the control snapshot and its age
    budget,      \* queue class budgets of the write scheduler
    pace         \* tick_seconds

healthVars == <<timeouts, circuitLeft, healthTrigger, resourceLatch, healthEvidence, healthEpisode,
                health, calm, snap, budget, pace>>

(***************************************************************************)
(* Circuit breaker: only timeouts of required operations count             *)
(***************************************************************************)
CircuitState(left) ==
    IF left.protective > 0 THEN "protective" ELSE IF left.degraded > 0 THEN "degraded" ELSE "ok"

Latest(a, b) == IF a > b THEN a ELSE b
\* the oldest leave the window first
Prune(ages) ==
    LET gone == Cardinality({i \in DOMAIN ages : ages[i] + 1 >= TimeoutWindow})
    IN  [i \in 1 .. Len(ages) - gone |-> ages[gone + i] + 1]

\* deadlines are extended, never shortened
RecordTimeout(left, count) ==
    IF count > ProtectiveTimeouts
    THEN [left EXCEPT !.protective = Latest(@, ProtectiveTicks)]
    ELSE IF count >= DegradedTimeouts
    THEN [left EXCEPT !.degraded = Latest(@, DegradedTicks)] ELSE left

\* a new trigger when the circuit opens, its deadline follows while it is open
\* mutant: the deadline of the running trigger is not extended
Mutant_TriggerKept(left, count, old) == IF count > ProtectiveTimeouts /\ old <= 0 THEN left.protective ELSE old
RecordTrigger(left, count, old) == IF count > ProtectiveTimeouts THEN left.protective ELSE old

RunDown(n) == IF n > 0 THEN n - 1 ELSE n

(***************************************************************************)
(* Resource latch. A reading is 0 below the busy exit threshold, 1 below   *)
(* busy, 2 below the constrained exit, 3 below constrained, 4 above, -1    *)
(* when it could not be taken.                                             *)
(***************************************************************************)
ResourceRank == [ok |-> 0, busy |-> 1, constrained |-> 2]
ExitReady(r, limit) == \A m \in Metrics : r[m] \in 0 .. limit

ResourceState(r) ==
    IF \A m \in Metrics : r[m] = -1 THEN "busy"
    ELSE IF \E m \in Metrics : r[m] = 4 THEN "constrained"
    ELSE IF \E m \in Metrics : r[m] >= 2 THEN "busy" ELSE "ok"

Causes(r) == {m \in Metrics : r[m] = 4}
Critical == {"cpu", "memory"}

\* leaving a state needs every dimension known and below its exit threshold
CandidateState(state, r) ==
    IF state = "constrained" /\ ~ExitReady(r, 2) THEN "constrained"
    ELSE IF state = "busy" /\ ResourceState(r) = "ok" /\ ~ExitReady(r, 0) THEN "busy"
    ELSE ResourceState(r)

\* the recovery keeps its age when its target improves from busy to ok
Recovery(latch, to) ==
    IF latch.target = to \/ (latch.target = "busy" /\ to = "ok") THEN latch.age ELSE 0

Settled(state) == [state |-> state, target |-> "none", age |-> 0]
ObserveResource(latch, r) ==
    LET to == CandidateState(latch.state, r)
    IN  IF ResourceRank[to] >= ResourceRank[latch.state] THEN Settled(to)
        ELSE IF Recovery(latch, to) >= ResourceHold THEN Settled(to)
        ELSE [latch EXCEPT !.target = to, !.age = Recovery(latch, to)]

\* evidence is replaced when the state is entered and when a critical cause
\* appears for the first time; it is kept when the state is left
\* mutant: evidence with a critical cause is never replaced
Mutant_EvidenceKept(before, after, r) ==
    IF after = "constrained" /\ Causes(r) # {} /\ healthEvidence \cap Critical = {} THEN Causes(r) ELSE healthEvidence
CaptureEvidence(before, after, r) ==
    IF /\ after = "constrained" /\ Causes(r) # {}
       /\ before # "constrained" \/ (healthEvidence \cap Critical = {} /\ Causes(r) \cap Critical # {})
    THEN Causes(r) ELSE healthEvidence

(***************************************************************************)
(* Service levels and the aggregated state                                 *)
(***************************************************************************)
HealthRank == [ok |-> 0, degraded |-> 1, protective |-> 2]
PressureRank == [ok |-> 0, congested |-> 1, slow |-> 2, protective |-> 3]

\* queue is the age of the oldest command: 0 in time, 1 late, 2 twice as late
Backpressure(circuit, violated, queue) ==
    IF circuit = "protective" THEN "protective"
    ELSE IF circuit = "degraded" \/ queue = 2 THEN "slow"
    ELSE IF queue = 1 \/ violated \cap {"gui_fresh", "core_reads_fresh"} # {} THEN "congested"
    ELSE "ok"

RuntimePressure(res, back) ==
    LET own == IF res = "constrained" THEN "slow" ELSE IF res = "busy" THEN "congested" ELSE "ok"
    IN  IF PressureRank[own] > PressureRank[back] THEN own ELSE back

ResourceProtective(res, causes) == res = "constrained" /\ causes \cap Critical # {}

Performance(violated, queue, back, protective) ==
    IF protective \/ back = "protective" THEN "protective"
    ELSE IF violated # {} \/ queue > 0 \/ back # "ok" THEN "degraded" ELSE "ok"

Higher(a, b) == IF HealthRank[a] >= HealthRank[b] THEN a ELSE b

\* up at once, down after the same lower state was wanted for the whole hold
\* mutant: a change of the wanted state does not restart the hold
Mutant_AnyCalm(latch, desired) == latch.age
StableFor(latch, desired) == IF latch.target = desired THEN latch.age ELSE 0
ObserveHealth(latch, desired) ==
    IF HealthRank[desired] >= HealthRank[latch.state] THEN Settled(desired)
    ELSE IF StableFor(latch, desired) >= HealthHold THEN Settled(desired)
    ELSE [latch EXCEPT !.target = desired, !.age = StableFor(latch, desired)]

ProtectiveCause(state, circuit, back, protective) ==
    IF state # "protective" THEN "none"
    ELSE IF circuit = "protective" THEN "circuit-breaker"
    ELSE IF back = "protective" THEN "backpressure"
    ELSE IF protective THEN "resource" ELSE "recovery-hold"

(***************************************************************************)
(* Regulation                                                              *)
(***************************************************************************)
Least(a, b) == IF a < b THEN a ELSE b
PressureBurst(burst, pressure) ==
    Latest(1, CASE pressure = "protective" -> 1
                [] pressure = "slow"       -> Least(burst, Latest(1, BaseBurst \div 4))
                [] pressure = "congested"  -> Least(burst, Latest(1, BaseBurst \div 2))
                [] pressure = "ok"         -> burst)
RegulatedBurst(queue, gap, pressure) ==
    LET raised == IF queue > 0 THEN Least(Latest(3 * BaseBurst, BaseBurst + 4), 50) ELSE BaseBurst
    IN  PressureBurst(IF gap THEN Least(raised, Latest(1, BaseBurst \div 2)) ELSE raised, pressure)

\* advisory classes get no budget at all under pressure
QueueBudgets(burst, pressure) ==
    LET gui == CASE pressure = "ok" -> Latest(BaseBurst, burst)
                 [] pressure = "congested" -> Latest(1, BaseBurst \div 2)
                 [] pressure = "slow" -> Latest(1, BaseBurst \div 4)
                 [] pressure = "protective" -> 1
    IN  [gui |-> gui, advisory |-> IF pressure = "ok" THEN 1 ELSE 0,
         burst |-> IF pressure = "ok" THEN burst ELSE Least(burst, gui)]

\* tick_policy: demand is [reads, queue, age, p95] in operations and tenths
Clamp(v, lo, hi) == Least(hi, Latest(lo, v))
StateBaseline(circuit, res) ==
    IF res = "constrained" THEN MaxTick
    ELSE IF circuit = "degraded" THEN Clamp(Latest((MinTick * 5) \div 2, 5), MinTick, MaxTick)
    ELSE IF res = "busy" THEN Clamp(Latest((MinTick * 3) \div 2, 3), MinTick, MaxTick)
    ELSE MinTick
ServiceFloor(res, demand) ==
    IF res = "ok" \/ demand.queue > 0 THEN MinTick ELSE Clamp(demand.p95, MinTick, MaxTick)
Deadline(demand) ==
    Latest(0, SloTenths - demand.age)
AdaptiveTick(circuit, res, demand) ==
    LET count == demand.reads + demand.queue
        floor == ServiceFloor(res, demand)
        spare == Latest(0, (Deadline(demand) * 8) \div 10 - demand.p95 * count)
    IN  IF circuit = "protective" THEN MaxTick
        ELSE IF count = 0 THEN StateBaseline(circuit, res)
        ELSE Least(Latest(StateBaseline(circuit, res), floor), Clamp(spare \div count, floor, MaxTick))

(***************************************************************************)
(* Steps                                                                   *)
(***************************************************************************)
\* control_snapshot: observe everything, then publish one consistent picture
Snapshot(left, r, violated, queue, demand) ==
    LET circuit == CircuitState(left)
        res == ObserveResource(resourceLatch, r)
        causes == CaptureEvidence(resourceLatch.state, res.state, r)
        back == Backpressure(circuit, violated, queue)
        protective == ResourceProtective(res.state, causes)
        desired == Higher(circuit, Performance(violated, queue, back, protective))
        now == ObserveHealth(health, desired)
        pressure == RuntimePressure(res.state, back)
        burst == RegulatedBurst(queue, "mainloop_gap_ok" \in violated, pressure)
    IN  /\ resourceLatch' = [res EXCEPT !.age = IF res.target = "none" THEN 0 ELSE Least(@ + 1, ResourceHold)]
        /\ healthEvidence' = causes
        /\ healthEpisode' = IF res.state # "constrained" THEN {}
                      ELSE (IF resourceLatch.state = "constrained" THEN healthEpisode ELSE {}) \cup Causes(r)
        /\ health' = [now EXCEPT !.age = IF now.target = "none" THEN 0 ELSE Least(@ + 1, HealthHold)]
        /\ calm' = IF desired = now.state THEN 0 ELSE Least(calm + 1, HealthHold + 1)
        /\ budget' = QueueBudgets(burst, pressure)
        /\ pace' = AdaptiveTick(circuit, IF res.state = "ok" /\ "mainloop_gap_ok" \in violated
                                         THEN "busy" ELSE res.state, demand)
        /\ snap' = [age |-> 0, desired |-> desired, pressure |-> pressure,
                    cause |-> ProtectiveCause(now.state, circuit, back, protective)]

\* one tick: time passes, an operation may have timed out, and the snapshot is
\* taken again once it is too old; a snapshot is applied once only
HealthTick ==
    \E timedOut \in BOOLEAN :
        LET ages == IF timedOut THEN Append(Prune(timeouts), 0) ELSE Prune(timeouts)
            aged == [degraded |-> RunDown(circuitLeft.degraded), protective |-> RunDown(circuitLeft.protective)]
            left == IF timedOut THEN RecordTimeout(aged, Len(ages)) ELSE aged
        IN  /\ timeouts' = IF Len(ages) > ProtectiveTimeouts + 1 THEN Tail(ages) ELSE ages
            /\ circuitLeft' = left
            /\ healthTrigger' = IF timedOut THEN RecordTrigger(left, Len(ages), RunDown(healthTrigger)) ELSE RunDown(healthTrigger)
            /\ IF snap.age + 1 < SnapshotTicks
               THEN /\ snap' = [snap EXCEPT !.age = @ + 1]
                    /\ UNCHANGED <<resourceLatch, healthEvidence, healthEpisode, health, calm, budget, pace>>
               ELSE \E r \in Samples, level \in Levels, demand \in Demands :
                        Snapshot(left, r, level.violated, level.queue, demand)

HealthInit ==
    /\ timeouts = <<>> /\ circuitLeft = [degraded |-> 0, protective |-> 0] /\ healthTrigger = -1
    /\ resourceLatch = Settled("ok") /\ healthEvidence = {} /\ healthEpisode = {}
    /\ health = Settled("ok") /\ calm = 0
    /\ snap = [age |-> SnapshotTicks, desired |-> "ok", pressure |-> "ok", cause |-> "none"]
    /\ budget = QueueBudgets(BaseBurst, "ok") /\ pace = MinTick

HealthNext == HealthTick
HealthSpec == HealthInit /\ [][HealthNext]_healthVars

(***************************************************************************)
(* Properties                                                              *)
(***************************************************************************)
HealthTypeOK ==
    /\ Len(timeouts) <= ProtectiveTimeouts + 1
    /\ circuitLeft \in [degraded : 0 .. DegradedTicks, protective : 0 .. ProtectiveTicks]
    /\ healthTrigger \in -1 .. ProtectiveTicks
    /\ healthEvidence \subseteq Metrics /\ healthEpisode \subseteq Metrics
    /\ budget.gui >= 1 /\ budget.burst >= 1 /\ pace \in MinTick .. MaxTick
    \* while the circuit is protective its trigger carries its deadline
    /\ circuitLeft.protective > 0 => healthTrigger = circuitLeft.protective

\* The cause that is published with a protective state is true: resources are
\* blamed only for a critical cause measured in the episode that is going on,
\* and a state nothing asks for any more is called a recovery hold.
ProtectiveCauseHolds ==
    /\ snap.cause = "resource" => resourceLatch.state = "constrained" /\ healthEpisode \cap Critical # {}
    /\ snap.cause = "recovery-hold" => snap.desired # "protective" /\ health.target # "none"
    /\ snap.cause = "none" <=> health.state # "protective"

\* Why: evidence of a critical cause is evidence of the episode that goes on, and
\* the latch's recovery is no older than the calm it rests on.
HealthFollows ==
    /\ resourceLatch.state = "constrained" /\ healthEvidence \cap Critical # {}
         => healthEpisode \cap Critical # {}
    /\ health.target # "none" => health.age <= calm

\* The published state falls only to a state that was wanted in every snapshot
\* of the hold: one worse snapshot in between restarts it.
RecoveryNeedsCalm ==
    [][HealthRank[health'.state] < HealthRank[health.state] =>
         health.target = health'.state /\ health.age >= HealthHold /\ calm >= HealthHold]_healthVars
=============================================================================
