---------------------------- MODULE EnergySources ----------------------------
(***************************************************************************)
(* The energy sources of the auto-input helper (inputs/helper/external_*,  *)
(* sources.py, gateway_battery.py, energy/connectors*, aggregate.py,       *)
(* grid_fusion.py). One cycle attempts one configured source that is due,  *)
(* takes what the gateway measured, combines both to a state of charge, a  *)
(* PV power and a grid power, and lets the grid value fail over between a  *)
(* primary source and the gateway. A read may take several attempts, one   *)
(* field or inverter each. A cycle is the unit of time.                    *)
(***************************************************************************)
EXTENDS Integers, FiniteSets, FiniteSetsExt

CONSTANTS
    SourceCount,     \* configured sources, in their order 1..SourceCount
    ReadSteps,       \* per source: attempts a complete read takes
    PrimaryGrid,     \* the source that measures the grid connection
    Payloads,        \* per source: what a completed read may have received
    GatewayInputs,   \* what the gateway's energy snapshot may say
    PollTicks, BackoffBase, BackoffMax,   \* ExternalPollingPolicy
    GoodMaxAge,      \* last_good_max_age_seconds, also the gateway's
    RetryTicks,      \* gateway_error_retry_seconds
    UseCombinedSoc,  \* use_combined_battery_soc
    PvPolicy,        \* PvProjectionPolicy.name
    PrimaryMaxAge, FailoverHold, FailoverSamples, RecoverySamples, MismatchSamples,
    MismatchWatts,   \* GridFusionConfig
    Absent           \* no value

Configured == 1..SourceCount

ASSUME EsAssumption ==
    /\ {SourceCount, PollTicks, BackoffBase, FailoverSamples, RecoverySamples, MismatchSamples}
            \subseteq Nat \ {0}
    /\ BackoffMax \in Nat /\ BackoffMax >= BackoffBase
    /\ {GoodMaxAge, PrimaryMaxAge, FailoverHold, MismatchWatts} \subseteq Nat
    /\ PrimaryGrid \in Configured
    /\ \A s \in Configured : ReadSteps[s] \in Nat \ {0}

VARIABLES
    polls,     \* per source: _SourceState and the connector's read progress
    cursor,    \* ExternalSourceScheduler._cursor
    fusion,    \* GridMeasurementFusion
    energy,    \* pv, soc and grid as written to the snapshot, with their ages
    asked,     \* per measurement: cycles until its refresh may be asked for again
    overdue,   \* per source: cycles it was due and not attempted
    sound      \* cycles in a row in which the primary grid measurement was usable

esVars == <<polls, cursor, fusion, energy, asked, overdue, sound>>

Reading(value, age) == [value |-> value, age |-> age]
Missing == Reading(Absent, 0)
Has(reading) == reading.value # Absent
OldestAge(readings) == Max({r.age : r \in readings})
LargestAge == GoodMaxAge + PrimaryMaxAge + FailoverHold + 1

(***************************************************************************)
(* The scheduler                                                           *)
(***************************************************************************)
DueNow(s) == polls[s].due = 0
AfterCursor(s) == (s - 1 - cursor + SourceCount) % SourceCount
NextDue == CHOOSE s \in Configured : DueNow(s) /\ \A t \in Configured : DueNow(t) => AfterCursor(s) <= AfterCursor(t)

Backoff(failures) == Min({BackoffMax, BackoffBase * 2 ^ (failures - 1)})

RecordFailure(p) ==
    LET failures == Min({p.fails + 1, 3})
    IN  [p EXCEPT !.fails = failures, !.step = 0, !.due = Backoff(failures)]
RecordSuccess(p, report) ==
    [p EXCEPT !.good = report, !.age = 0, !.fails = 0, !.step = 0, !.due = PollTicks]
RecordInProgress(p) == [p EXCEPT !.step = @ + 1, !.due = 0]

(***************************************************************************)
(* The connectors: what a payload comes to                                 *)
(***************************************************************************)
SocValue(raw) == IF raw.soc # Absent /\ (raw.soc < 0 \/ raw.soc > 10) THEN Absent ELSE raw.soc
UsableCapacity(raw) ==
    IF raw.capacity = Absent THEN raw.configured ELSE IF raw.capacity <= 0 THEN Absent ELSE raw.capacity
\* template_http, command_json and modbus map fields one to one
FieldReport(raw) ==
    [online |-> raw.online, soc |-> SocValue(raw), capacity |-> UsableCapacity(raw), power |-> raw.power,
     pv |-> raw.pv, grid |-> raw.grid, scope |-> raw.scope, trusted |-> raw.trusted,
     physical |-> raw.physical, priority |-> raw.priority]

\* opendtu_http: inverters that are reachable with fresh data are summed; a field
\* of unreachable ones that do not produce is idle unless the radio has failed
InvertersOnline(raw) == {i \in raw.inverters : i.reachable /\ i.fresh}
PlausibleIdle(raw) ==
    /\ raw.inverters # {} /\ InvertersOnline(raw) = {} /\ ~raw.radioProblem
    /\ \A i \in raw.inverters : ~i.reachable /\ ~i.producing
OpenDtuReport(raw) ==
    LET up == InvertersOnline(raw)
        idle == PlausibleIdle(raw)
    IN  [online |-> up # {} \/ idle, soc |-> Absent, capacity |-> Absent,
         power |-> IF idle THEN 0 ELSE Absent,
         pv |-> IF up = {} THEN Absent ELSE MapThenSumSet(LAMBDA i : i.dc, up),
         grid |-> Absent, scope |-> "", physical |-> "", priority |-> 0,
         trusted |-> idle \/ 2 * Cardinality(up) >= Cardinality(raw.inverters)]
CompletedRead(raw) == IF raw.kind = "opendtu" THEN OpenDtuReport(raw) ELSE FieldReport(raw)

HasContributingValue(r) == {r.soc, r.power, r.pv, r.grid} # {Absent}
ConfirmsMeasurement(r) == r.online /\ HasContributingValue(r)

\* a connector reads one field or inverter per attempt; an error drops its progress
ReadPending(s, p) == p.step + 1 < ReadSteps[s]

\* _attempt: outcome is Absent when the connector raises
Attempted(s, p, outcome) ==
    IF outcome = Absent THEN RecordFailure(p)
    ELSE IF ReadPending(s, p) THEN RecordInProgress(p)
    ELSE IF ConfirmsMeasurement(CompletedRead(outcome)) THEN RecordSuccess(p, CompletedRead(outcome))
    ELSE RecordFailure(p)

Mutant_CursorKept(s) == cursor
CursorAfter(s) == s % SourceCount

\* what the connector of the attempted source may deliver
Received == IF \E s \in Configured : DueNow(s) THEN Payloads[NextDue] ELSE {}

\* poll: at most one attempt
PollSources(outcome) ==
    LET attempt == \E s \in Configured : DueNow(s)
        older == [s \in Configured |-> [polls[s] EXCEPT !.age = Min({@ + 1, LargestAge})]]
        after == IF attempt THEN [older EXCEPT ![NextDue] = Attempted(NextDue, @, outcome)] ELSE older
    IN  /\ polls' = [s \in Configured |-> [after[s] EXCEPT !.due = Max({@ - 1, 0})]]
        /\ cursor' = IF attempt THEN CursorAfter(NextDue) ELSE cursor
        /\ overdue' = [s \in Configured |->
                IF DueNow(s) /\ s # NextDue THEN overdue[s] + 1 ELSE 0]

(***************************************************************************)
(* What the sources and the gateway say together                           *)
(***************************************************************************)
Contributing == {s \in Configured : polls'[s].good # Absent /\ polls'[s].age <= GoodMaxAge}
\* _valid_measurement: fresh or stale, and not too old
GatewayValue(gw, value) == IF gw.age <= GoodMaxAge THEN value ELSE Absent
\* measured, configured or estimated before, or inferred from a full LFP battery
GatewayCapacity(gw) ==
    IF gw.capacity # Absent THEN gw.capacity
    ELSE IF gw.configured # Absent THEN gw.configured
    ELSE IF gw.soc # Absent /\ gw.soc >= 9 /\ gw.ah # Absent THEN gw.ah
    ELSE Absent
\* the gateway's battery, when it measured one, is a source of its own
GatewayBattery(gw) ==
    IF GatewayValue(gw, gw.soc) = Absent /\ GatewayValue(gw, gw.power) = Absent THEN {}
    ELSE {[id |-> 0, soc |-> gw.soc, capacity |-> GatewayCapacity(gw), age |-> gw.age,
           physical |-> gw.physical, priority |-> 0]}
ExternalBatteries ==
    {[id |-> s, soc |-> polls'[s].good.soc, capacity |-> polls'[s].good.capacity,
      age |-> polls'[s].age, physical |-> polls'[s].good.physical,
      priority |-> polls'[s].good.priority] : s \in Contributing}

\* unique_weighted_soc_sources: of one physical battery the better source counts
Better(a, b) == a.priority > b.priority \/ (a.priority = b.priority /\ a.id > b.id)
UniqueBatteries(sources) ==
    {a \in sources : ~\E b \in sources : a.physical # "" /\ b.physical = a.physical /\ Better(b, a)}
Weighted(sources) ==
    {a \in UniqueBatteries(sources) : a.soc # Absent /\ a.capacity # Absent /\ a.capacity > 0}
WeightedSoc(sources) ==
    MapThenSumSet(LAMBDA a : a.soc * a.capacity, Weighted(sources))
        \div MapThenSumSet(LAMBDA a : a.capacity, Weighted(sources))

FirstSoc(sources) ==
    LET known == {a \in sources : a.soc # Absent}
    IN  IF known = {} THEN {} ELSE {CHOOSE a \in known : \A b \in known : a.id <= b.id}
\* the combined value is as old as the oldest source it may rest on
SelectedSoc(external, gateway) ==
    LET all == external \cup gateway
        fallback == IF FirstSoc(external) # {} THEN FirstSoc(external) ELSE FirstSoc(gateway)
    IN  IF UseCombinedSoc /\ Weighted(all) # {}
        THEN Reading(WeightedSoc(all), OldestAge(UniqueBatteries(all)))
        ELSE IF fallback = {} THEN Missing
        ELSE LET a == CHOOSE a \in fallback : TRUE IN Reading(a.soc, a.age)

\* _sum_scoped_values: what two sources measure at the same place counts once
CountedOnce(sources) ==
    {s \in sources : ~\E t \in sources : t < s /\ polls'[s].good.scope # ""
                                          /\ polls'[t].good.scope = polls'[s].good.scope}
MeasuringPv == {s \in Contributing : polls'[s].good.pv # Absent /\ polls'[s].good.pv >= 0}
ExternalPv ==
    IF MeasuringPv = {} THEN Missing
    ELSE Reading(MapThenSumSet(LAMBDA s : polls'[s].good.pv, CountedOnce(MeasuringPv)),
                 Max({polls'[s].age : s \in MeasuringPv}))
\* _projection_quality: fresh before stale, trusted before doubtful
ExternalQuality ==
    (IF \A s \in MeasuringPv : polls'[s].fails = 0 THEN 2 ELSE 0)
        + (IF \A s \in MeasuringPv : polls'[s].good.trusted THEN 1 ELSE 0)
GatewayQuality == 3
\* _select_pv_projection: the policy's order decides among equals
SelectedPv(gw) ==
    LET gateway == Reading(GatewayValue(gw, gw.pv), gw.age)
        first(a, b, aQuality, bQuality) == IF Has(a) /\ (~Has(b) \/ aQuality >= bQuality) THEN a ELSE b
    IN  CASE PvPolicy = "gateway_only" -> gateway
          [] PvPolicy = "external_only" -> ExternalPv
          [] PvPolicy = "gateway_preferred" -> first(gateway, ExternalPv, GatewayQuality, ExternalQuality)
          [] PvPolicy = "external_preferred" -> first(ExternalPv, gateway, ExternalQuality, GatewayQuality)

\* request_refresh: a missing measurement is asked for, but not in every cycle
Requested(missing) ==
    [m \in DOMAIN asked |-> IF m \in missing /\ asked[m] = 0 THEN RetryTicks
                            ELSE Max({asked[m] - 1, 0})]
MissingValues(gw) ==
    {m \in {"pv", "grid", "battery"} :
        \/ m = "pv" /\ ~Has(SelectedPv(gw)) /\ PvPolicy # "external_only"
        \/ m = "grid" /\ GatewayValue(gw, gw.grid) = Absent
        \/ m = "battery" /\ GatewayValue(gw, gw.soc) = Absent}

(***************************************************************************)
(* GridMeasurementFusion.resolve                                           *)
(***************************************************************************)
PrimaryMeasurement ==
    IF polls'[PrimaryGrid].good = Absent THEN Missing
    ELSE Reading(polls'[PrimaryGrid].good.grid, polls'[PrimaryGrid].age)
PrimaryUsable ==
    /\ Has(PrimaryMeasurement) /\ PrimaryMeasurement.age <= PrimaryMaxAge
    /\ polls'[PrimaryGrid].good.trusted
BackupUsable(gw) == GatewayValue(gw, gw.grid) # Absent

ActivatePrimary(f) == [f EXCEPT !.active = "primary", !.invalid = 0, !.recovery = 0]
ActivateBackup(f) == [f EXCEPT !.active = "backup", !.invalid = 0, !.recovery = 0]
RecordPrimary(f) == IF PrimaryUsable THEN [f EXCEPT !.last = PrimaryMeasurement] ELSE f

Selection(f, reading) == [fusion |-> f, reading |-> reading]

SelectInitial(f, backup, backupUsable) ==
    IF PrimaryUsable THEN Selection(ActivatePrimary(f), PrimaryMeasurement)
    ELSE IF backupUsable THEN Selection(ActivateBackup(f), backup)
    ELSE Selection(f, Missing)

\* a failing primary is held for a few samples before the backup takes over
SelectWhilePrimary(f, backup, backupUsable) ==
    LET counted == [f EXCEPT !.invalid = Min({@ + 1, FailoverSamples})]
        held == f.last.age <= PrimaryMaxAge + FailoverHold
    IN  IF PrimaryUsable THEN Selection([f EXCEPT !.invalid = 0], PrimaryMeasurement)
        ELSE IF counted.invalid < FailoverSamples /\ held THEN Selection(counted, f.last)
        ELSE IF backupUsable THEN Selection(ActivateBackup(f), backup)
        ELSE Selection(counted, Missing)

Mutant_RecoveryKept(f) == IF PrimaryUsable THEN [f EXCEPT !.recovery = @ + 1] ELSE f
RecordRecovery(f) == [f EXCEPT !.recovery = IF PrimaryUsable THEN @ + 1 ELSE 0]

\* a recovering primary must prove itself before it is followed again
SelectWhileBackup(f, backup, backupUsable) ==
    LET counted == RecordRecovery(f)
    IN  IF PrimaryUsable /\ counted.recovery >= RecoverySamples
        THEN Selection(ActivatePrimary(counted), PrimaryMeasurement)
        ELSE IF backupUsable THEN Selection(counted, backup)
        ELSE Selection(counted, IF PrimaryUsable THEN PrimaryMeasurement ELSE Missing)

\* _plausibility and _apply_disagreement_limit: the larger import, the older time
Compared(chosen, backup, comparable) ==
    LET a == PrimaryMeasurement.value
        apart == comparable /\ (a - backup.value > MismatchWatts \/ backup.value - a > MismatchWatts)
        mismatch == IF apart THEN Min({chosen.fusion.mismatch + 1, MismatchSamples}) ELSE 0
        f == [chosen.fusion EXCEPT !.mismatch = mismatch]
    IN  IF mismatch >= MismatchSamples
        THEN Selection(f, Reading(Max({a, backup.value}), Max({PrimaryMeasurement.age, backup.age})))
        ELSE Selection(f, chosen.reading)

Resolved(gw) ==
    LET f == RecordPrimary([fusion EXCEPT !.last.age = Min({@ + 1, LargestAge})])
        backup == Reading(gw.grid, gw.age)
        usable == BackupUsable(gw)
        chosen == CASE f.active = "none" -> SelectInitial(f, backup, usable)
                    [] f.active = "primary" -> SelectWhilePrimary(f, backup, usable)
                    [] f.active = "backup" -> SelectWhileBackup(f, backup, usable)
    IN  Compared(chosen, backup, PrimaryUsable /\ usable)

(***************************************************************************)
(* One cycle: prepare_cycle, the sources' getters and the fusion           *)
(***************************************************************************)
EnergyCycle ==
    \E outcome \in Received \cup {Absent}, gw \in GatewayInputs :
        /\ PollSources(outcome)
        /\ LET grid == Resolved(gw)
           IN  /\ fusion' = grid.fusion
               /\ energy' = [pv |-> SelectedPv(gw), grid |-> grid.reading,
                             soc |-> SelectedSoc(ExternalBatteries, GatewayBattery(gw))]
        /\ asked' = Requested(MissingValues(gw))
        /\ sound' = IF PrimaryUsable THEN Min({sound + 1, RecoverySamples}) ELSE 0

EsInit ==
    /\ polls = [s \in Configured |-> [due |-> 0, fails |-> 0, good |-> Absent, age |-> 0, step |-> 0]]
    /\ cursor = 0
    /\ fusion = [active |-> "none", invalid |-> 0, recovery |-> 0, mismatch |-> 0, last |-> Missing]
    /\ energy = [pv |-> Missing, soc |-> Missing, grid |-> Missing]
    /\ asked = [m \in {"pv", "grid", "battery"} |-> 0]
    /\ overdue = [s \in Configured |-> 0]
    /\ sound = 0

EsNext == EnergyCycle
EsSpec == EsInit /\ [][EsNext]_esVars

(***************************************************************************)
(* Properties                                                              *)
(***************************************************************************)
EsTypeOK ==
    /\ cursor \in 0..(SourceCount - 1)
    /\ fusion.active \in {"none", "primary", "backup"}
    /\ fusion.invalid \in 0..FailoverSamples /\ fusion.recovery \in 0..RecoverySamples
    /\ \A s \in Configured : polls[s].step < ReadSteps[s]

\* One attempt per cycle starves no source: whatever the others' outcomes, their
\* retries and their reads that take several attempts, a source that is due is
\* attempted before every other source has had a second turn.
NoSourceStarves == \A s \in Configured : overdue[s] < SourceCount

\* The grid value returns from the backup to the primary source only after the
\* primary has been usable for RecoverySamples cycles in a row.
GridReturnEarned ==
    [][fusion.active = "backup" /\ fusion'.active = "primary" => sound' >= RecoverySamples]_esVars
=============================================================================
