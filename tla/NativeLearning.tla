---------------------------- MODULE NativeLearning ----------------------------
(***************************************************************************)
(* The native helper's learning, forecast and battery payload              *)
(* (rust/auto-input-helper learning.rs, forecast.rs, external.rs), run     *)
(* side by side with the Python domain model of EnergyLearning on the same *)
(* measurements.  Only one of the two helpers runs in an installation; the *)
(* composition compares what they would publish.  The Python helper takes  *)
(* the hour of a measurement in local time, the native one in UTC.         *)
(***************************************************************************)
EXTENDS EnergyLearning

CONSTANTS
    NlPeriods,   \* pairs of a measurement's period in local time and in UTC
    Writable     \* the sources whose profile has an (experimental) control

ASSUME NlAssumption == Writable \subseteq Batteries

VARIABLES
    native,      \* per source: the native EnergyLearningProfile
    npayload     \* battery_payload of the last cycle

nlVars == <<elVars, native, npayload>>

(***************************************************************************)
(* One measurement                                                         *)
(***************************************************************************)
SourceMetrics(o) ==
    LET direction == CASE o.net <= -ActiveLevel -> "charge"
                       [] o.net >= ActiveLevel -> "discharge"
                       [] OTHER -> "idle"
    IN  [direction |-> direction,
         active |-> direction # "idle" \/ o.ac >= ActiveLevel \/ -o.ac >= ActiveLevel,
         power |-> [charge |-> PositivePart(-o.net), discharge |-> PositivePart(o.net)],
         importing |-> o.grid >= GridLevel, exporting |-> -o.grid >= GridLevel, soc |-> o.soc]

NativeChanged(p, m) == m.direction \in Directed /\ p.direction \in Directed /\ p.direction # m.direction

\* activation_response_delay: since the last idle measurement, which decides
\* alone once the source was idle
NativeDelay(p, m) ==
    CASE ~m.active -> NotKnown
      [] m.active /\ ~p.active -> p.sinceIdle
      [] m.active /\ p.active /\ NativeChanged(p, m) -> p.sinceChange
      [] OTHER -> NotKnown

NativeDelta(p, m) ==
    IF m.direction \in Directed /\ p.average[m.direction] # NotKnown
    THEN Distance(m.power[m.direction], p.average[m.direction]) ELSE NotKnown

\* rolling_average: no candidate, no average (candidate?)
NativeRolling(mean, count, candidate) ==
    CASE candidate = NotKnown -> NotKnown
      [] candidate # NotKnown /\ mean = NotKnown -> candidate
      [] OTHER -> (mean * count + candidate) \div (count + 1)

UpdateAverages(p, m, delay, delta) ==
    [p EXCEPT !.average = [d \in Directed |->
                  IF d = m.direction THEN NativeRolling(@[d], p.count[d], m.power[d]) ELSE @[d]],
              !.delta = NativeRolling(@, p.count["smoothing"], delta),
              !.delay = NativeRolling(@, p.count["response"], delay)]

UpdateGridCounts(m) ==
    {k \in Kinds : \/ k = "import_support" /\ m.direction = "discharge" /\ m.importing
                   \/ k = "import_charge" /\ m.direction = "charge" /\ m.importing
                   \/ k = "export_charge" /\ m.direction = "charge" /\ m.exporting
                   \/ k = "export_discharge" /\ m.direction = "discharge" /\ m.exporting
                   \/ k = "export_idle" /\ m.direction = "idle" /\ m.exporting}

UpdatePeriodCounts(m, utc) ==
    {k \in Kinds : \/ k = utc /\ m.active
                   \/ k = "day_charge" /\ utc = "day" /\ m.direction = "charge"
                   \/ k = "night_charge" /\ utc = "night" /\ m.direction = "charge"
                   \/ k = "day_discharge" /\ utc = "day" /\ m.direction = "discharge"
                   \/ k = "night_discharge" /\ utc = "night" /\ m.direction = "discharge"}

UpdateCounts(p, m, delay, delta, utc) ==
    LET raised == UpdateGridCounts(m) \cup UpdatePeriodCounts(m, utc)
                  \cup (Directed \cap {m.direction})
                  \cup (IF m.active THEN {"active"} ELSE {})
                  \cup (IF delay # NotKnown THEN {"response"} ELSE {})
                  \cup (IF delta # NotKnown THEN {"smoothing"} ELSE {})
    IN  [p EXCEPT !.samples = @ + 1,
                  !.count = [k \in Kinds |-> IF k \in raised THEN @[k] + 1 ELSE @[k]]]

Mutant_FloorWhenIdle(p, m) ==
    [p EXCEPT !.most = [d \in Directed |-> MaxOptional(@[d], m.power[d])],
              !.floor = IF m.direction # "charge" THEN MinOptional(@, m.soc) ELSE @,
              !.ceiling = MaxOptional(@, m.soc)]

UpdateObservations(p, m) ==
    [p EXCEPT !.most = [d \in Directed |-> MaxOptional(@[d], m.power[d])],
              !.floor = IF m.direction = "discharge" THEN MinOptional(@, m.soc) ELSE @,
              !.ceiling = IF m.direction = "charge" THEN MaxOptional(@, m.soc) ELSE @]

UpdateActivityMarkers(p, m, changed) ==
    [p EXCEPT !.count["turns"] = IF changed THEN @ + 1 ELSE @,
              !.direction = m.direction, !.active = m.active,
              !.sinceIdle = IF m.active THEN @ ELSE 0, !.sinceChange = 0]

\* update_learning_profile
UpdateLearningProfile(p, o, utc) ==
    LET m == SourceMetrics(o)
        changed == NativeChanged(p, m)
        delay == NativeDelay(p, m)
        delta == NativeDelta(p, m)
    IN  UpdateActivityMarkers(
            UpdateObservations(
                UpdateCounts(UpdateAverages(p, m, delay, delta), m, delay, delta, utc), m),
            m, changed)

(***************************************************************************)
(* summarize, over all profiles                                            *)
(***************************************************************************)
NativeSum(ps, kind) == MapThenSumSet(LAMBDA b : ps[b].count[kind], DOMAIN ps)
NativeKnown(values) == {b \in DOMAIN values : values[b] # NotKnown}
NativeWeighted(values, weights) ==
    LET known == NativeKnown(values)
        total == MapThenSumSet(LAMBDA b : weights[b], known)
    IN  IF known = {} \/ total = 0 THEN NotKnown
        ELSE MapThenSumSet(LAMBDA b : values[b] * weights[b], known) \div total
SmoothingRatio(p) ==
    LET means == {d \in Directed : p.average[d] # NotKnown /\ p.average[d] > 0}
    IN  IF p.delta = NotKnown \/ means = {} THEN NotKnown
        ELSE 100 - Percentage(p.delta * Cardinality(means),
                              MapThenSumSet(LAMBDA d : p.average[d], means))
Summarize(ps) ==
    LET S == DOMAIN ps
        Most(d) == NativeKnown([b \in S |-> ps[b].most[d]])
        floors == {ps[b].floor : b \in S} \ {NotKnown}
        ceilings == {ps[b].ceiling : b \in S} \ {NotKnown}
        charged == NativeSum(ps, "export_charge")
        discharged == NativeSum(ps, "export_discharge")
        helps == BiasFromCounts(NativeSum(ps, "import_support"), NativeSum(ps, "import_charge"))
        smoothing == NativeWeighted([b \in S |-> SmoothingRatio(ps[b])],
                                    [b \in S |-> ps[b].count["smoothing"]])
    IN  [most |-> [d \in Directed |-> IF Most(d) = {} THEN NotKnown
                    ELSE MapThenSumSet(LAMBDA b : ps[b].most[d], Most(d))],
         average |-> [d \in Directed |->
                    NativeWeighted([b \in S |-> ps[b].average[d]], [b \in S |-> ps[b].count[d]])],
         delay |-> NativeWeighted([b \in S |-> ps[b].delay], [b \in S |-> 1]),
         export |-> PositiveBias(BiasFromCounts(charged, discharged)),
         batteryFirst |-> PositiveBias(BiasFromCounts(charged, discharged + NativeSum(ps, "export_idle"))),
         support |-> PositiveBias(IF helps # NotKnown THEN helps
                        ELSE BiasFromCounts(NativeSum(ps, "discharge"), NativeSum(ps, "charge"))),
         smoothing |-> IF smoothing = NotKnown THEN 0 ELSE smoothing,
         floor |-> IF floors = {} THEN NotKnown ELSE Max(floors),
         ceiling |-> IF ceilings = {} THEN NotKnown ELSE Min(ceilings)]

(***************************************************************************)
(* derive_energy_forecast                                                  *)
(***************************************************************************)
NativeLimit(c, s, d) ==
    LET first == CASE c.limit # NotKnown -> c.limit
                   [] c.limit = NotKnown /\ s.most[d] # NotKnown -> s.most[d]
                   [] c.limit = NotKnown /\ s.most[d] = NotKnown /\ s.average[d] # NotKnown ->
                        (5 * s.average[d]) \div 4
                   [] OTHER -> NotKnown
    IN  CASE first # NotKnown -> Max({first, c.power[d]})
          [] first = NotKnown /\ c.power[d] > 0 -> c.power[d]
          [] OTHER -> NotKnown
NativeScale(soc, distance) == IF soc = NotKnown THEN 100 ELSE Percentage(distance, SocBand)
ChargeSocScale(c, s) == IF s.ceiling = NotKnown \/ c.soc = NotKnown THEN 100
                        ELSE NativeScale(c.soc, s.ceiling - c.soc)
DischargeSocScale(c, s) == IF s.floor = NotKnown \/ c.soc = NotKnown THEN 100
                           ELSE NativeScale(c.soc, c.soc - s.floor)
NativeHeadroom(limit, current_, scale) ==
    IF limit = NotKnown THEN NotKnown ELSE (PositivePart(limit - current_) * scale) \div 100
NativeWeight(s) == IF s.delay = NotKnown THEN 100 ELSE (100 * ResponseScale) \div (ResponseScale + s.delay)
ChargeSaturation(headroom, limit, charge) ==
    CASE charge <= 0 -> 0
      [] charge > 0 /\ headroom # NotKnown /\ limit # NotKnown /\ limit > 0 ->
           100 - Percentage(headroom, limit)
      [] OTHER -> 100
ExpectedExport(c, s, headroom, limit) ==
    LET charge == c.power["charge"]
        risk == (((charge * s.export * NativeWeight(s)) \div 100)
                    * (50 + ChargeSaturation(headroom, limit, charge) \div 2) * (200 - s.smoothing)) \div 2000000
        capture == (charge * s.batteryFirst * NativeWeight(s) * (25 + (3 * s.smoothing) \div 4)) \div 1000000
    IN  PositivePart(PositivePart(-c.grid) + risk - capture)
ExpectedImport(c, s) ==
    LET relief == (((c.power["discharge"] * s.support * NativeWeight(s)) \div 100)
                      * DischargeSocScale(c, s) * (400 - s.smoothing)) \div 4000000
    IN  PositivePart(PositivePart(c.grid) - relief)
DeriveForecast(c, s) ==
    LET limit == NativeLimit(c, s, "charge")
        headroom == NativeHeadroom(limit, c.power["charge"], ChargeSocScale(c, s))
    IN  [charge |-> headroom,
         discharge |-> NativeHeadroom(NativeLimit(c, s, "discharge"), c.power["discharge"],
                                      DischargeSocScale(c, s)),
         exports |-> ExpectedExport(c, s, headroom, limit), imports |-> ExpectedImport(c, s)]

(***************************************************************************)
(* discharge_balance, discharge_control and the payload                    *)
(***************************************************************************)
EligibleWeight(o, p) ==
    LET available == IF o.capacity = NotKnown \/ o.capacity < 0 \/ o.soc = NotKnown THEN 0
                     ELSE o.capacity * PositivePart(o.soc - (IF p.floor = NotKnown THEN 0 ELSE PositivePart(p.floor)))
    IN  CASE available > 0 -> available
          [] available = 0 /\ o.capacity # NotKnown /\ o.capacity > 0 -> o.capacity
          [] OTHER -> 1
DischargeBalance(sources, ps) ==
    LET S == DOMAIN sources
        actual(b) == PositivePart(sources[b].net)
        weight(b) == EligibleWeight(sources[b], ps[b])
        target(b) == (MapThenSumSet(actual, S) * weight(b)) \div MapThenSumSet(weight, S)
    IN  [b \in S |-> [target |-> target(b), error |-> actual(b) - target(b)]]
DischargeControl(sources) == DOMAIN sources \cap Writable

ClusterPayload(c, ps) == DeriveForecast(c, Summarize(ps))
SourceCounts(sources) ==
    [all |-> Cardinality(DOMAIN sources),
     soc |-> Cardinality({b \in DOMAIN sources : sources[b].soc # NotKnown /\ sources[b].capacity # NotKnown})]
BatteryPayload(c, sources, ps) ==
    [forecast |-> ClusterPayload(c, ps), shares |-> DischargeBalance(sources, ps),
     ready |-> DischargeControl(sources), counts |-> SourceCounts(sources)]

\* collect_cycle, after the same measurement as the Python helper's cycle
NativeCycle(b, o, utc) ==
    /\ native' = [c \in Batteries |->
                    LET aged == [native[c] EXCEPT !.sinceIdle = IF @ = NotKnown THEN @ ELSE Min({@ + 1, 2}),
                                                  !.sinceChange = IF @ = NotKnown THEN @ ELSE Min({@ + 1, 2})]
                    IN  IF c = b THEN UpdateLearningProfile(aged, o, utc) ELSE aged]
    /\ npayload' = BatteryPayload(Cluster, [c \in ElPresent |-> current'[c]], native')

\* the last measurement of a source no longer contributes
NativeExpires ==
    /\ UNCHANGED native
    /\ npayload' = BatteryPayload(Cluster, [c \in ElPresent |-> current'[c]], native)

NativeProfile ==
    [samples |-> 0, count |-> [k \in Kinds |-> 0], most |-> [d \in Directed |-> NotKnown],
     average |-> [d \in Directed |-> NotKnown], delta |-> NotKnown, delay |-> NotKnown,
     floor |-> NotKnown, ceiling |-> NotKnown, direction |-> "idle",
     active |-> FALSE, sinceIdle |-> NotKnown, sinceChange |-> NotKnown]

NlInit ==
    /\ ElInit
    /\ native = [b \in Batteries |-> NativeProfile]
    /\ npayload = [forecast |-> forecast, shares |-> <<>>, ready |-> {},
                   counts |-> [all |-> 0, soc |-> 0]]

NlNext ==
    \E b \in Batteries :
        \/ \E o \in Observed, when \in NlPeriods : Learn(b, o, when[1]) /\ NativeCycle(b, o, when[2])
        \/ Expires(b) /\ NativeExpires

----------------------------------------------------------------------------
\* The native helper publishes the headroom and the discharge shares that the
\* Python domain model derives from the same measurements, in whatever order
\* the sources were measured, turned, went idle or expired (forecast.rs
\* derive_energy_forecast, external.rs discharge_balance).
NativeHeadroomAgrees ==
    /\ npayload.forecast.charge = forecast.charge
    /\ npayload.forecast.discharge = forecast.discharge
    /\ npayload.shares = shares

\* The native helper derives the same near-term forecast as the maintained
\* Python domain model (forecast.rs:32).
NativeForecastAgrees ==
    /\ npayload.forecast.exports = forecast.exports
    /\ npayload.forecast.imports = forecast.imports
===============================================================================
