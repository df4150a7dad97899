---------------------------- MODULE EnergyLearning ----------------------------
(***************************************************************************)
(* What the helper learns from the sources it reads and forecasts from it  *)
(* (energy/learning_update.py, learning_summary.py, forecast.py and the    *)
(* discharge balance of aggregate.py). Each newly observed measurement     *)
(* updates the profile of its source; the summary of the profiles and the  *)
(* cluster's present powers give the battery's headroom, the near-term     *)
(* import and export, and each battery's share of the discharge.           *)
(* Shares, biases and scales are in percent.                               *)
(***************************************************************************)
EXTENDS Integers, FiniteSets, FiniteSetsExt

CONSTANTS
    Batteries,      \* the sources that are learned about
    Observed,       \* measurements: net (+ discharge, - charge), ac, grid, soc, limit, capacity
    ActiveLevel,    \* _ACTIVE_POWER_THRESHOLD_W
    GridLevel,      \* _GRID_ACTIVITY_THRESHOLD_W
    SocBand,        \* reserve band over which the headroom is scaled down
    ResponseScale,  \* delay that halves the response weight
    MaxSamples,     \* measurements of one source that are looked at
    NotKnown

Known_ == Int \cup {NotKnown}
ASSUME ElAssumption ==
    /\ {ActiveLevel, GridLevel, SocBand, ResponseScale, MaxSamples} \subseteq Nat \ {0}
    /\ NotKnown \notin Int
    /\ Observed \subseteq [net : Int, ac : Int, grid : Int,
                           soc : Known_, limit : Known_, capacity : Known_]

VARIABLES
    profiles,    \* per source: EnergyLearningProfile
    current,    \* per source: its contributing measurement, or NotKnown
    forecast,   \* derive_energy_forecast of the last cycle
    shares      \* derive_discharge_balance_metrics: per source target and error

elVars == <<profiles, current, forecast, shares>>

Directed == {"charge", "discharge"}
Kinds == {"active", "charge", "discharge", "import_support", "import_charge", "export_charge",
          "export_discharge", "export_idle", "day", "night", "day_charge", "night_charge",
          "day_discharge", "night_discharge", "response", "smoothing", "turns"}

PositivePart(x) == IF x > 0 THEN x ELSE 0
Distance(a, b) == IF a > b THEN a - b ELSE b - a
MaxOptional(a, b) == IF b = NotKnown THEN a ELSE IF a = NotKnown \/ b > a THEN b ELSE a
Percentage(part, whole) == Min({100, Max({0, (100 * part) \div whole})})
MinOptional(a, b) == IF b = NotKnown THEN a ELSE IF a = NotKnown \/ b < a THEN b ELSE a

(***************************************************************************)
(* One measurement                                                         *)
(***************************************************************************)
DirectionOf(o) ==
    IF o.net <= -ActiveLevel THEN "charge" ELSE IF o.net >= ActiveLevel THEN "discharge" ELSE "idle"
ActiveNow(o) == DirectionOf(o) \in Directed \/ Distance(o.ac, 0) >= ActiveLevel
PowerIn(o, direction) == PositivePart(IF direction = "charge" THEN -o.net ELSE o.net)

DirectionChanged(p, d) == d \in Directed /\ p.direction \in Directed /\ p.direction # d

\* _activation_response_delay: since the last idle measurement, or since the last
\* measurement when the direction turns
ResponseDelay(p, o) ==
    IF ~ActiveNow(o) THEN NotKnown
    ELSE IF ~p.active /\ p.sinceIdle # NotKnown /\ p.sinceIdle > 0 THEN p.sinceIdle
    ELSE IF DirectionChanged(p, DirectionOf(o)) THEN p.sinceChange
    ELSE NotKnown

SmoothingDelta(p, o) ==
    LET d == DirectionOf(o)
    IN  IF d \notin Directed \/ p.average[d] = NotKnown THEN NotKnown
        ELSE Distance(PowerIn(o, d), p.average[d])

\* what a measurement is counted as
GridKinds(o) ==
    LET d == DirectionOf(o)
        imports == o.grid >= GridLevel
        exports == -o.grid >= GridLevel
    IN  {k \in Kinds :
            \/ k = "import_support" /\ imports /\ d = "discharge"
            \/ k = "import_charge" /\ imports /\ d = "charge"
            \/ k = "export_charge" /\ exports /\ d = "charge"
            \/ k = "export_discharge" /\ exports /\ d = "discharge"
            \/ k = "export_idle" /\ exports /\ d = "idle"}
PeriodKinds(o, period) ==
    IF ~ActiveNow(o) THEN {}
    ELSE {k \in Kinds :
            \/ k = period
            \/ k = "day_charge" /\ period = "day" /\ DirectionOf(o) = "charge"
            \/ k = "night_charge" /\ period = "night" /\ DirectionOf(o) = "charge"
            \/ k = "day_discharge" /\ period = "day" /\ DirectionOf(o) = "discharge"
            \/ k = "night_discharge" /\ period = "night" /\ DirectionOf(o) = "discharge"}
CountedAs(p, o, period) ==
    GridKinds(o) \cup PeriodKinds(o, period)
        \cup (Directed \cap {DirectionOf(o)})
        \cup {k \in {"active", "response", "smoothing", "turns"} :
                \/ k = "active" /\ ActiveNow(o)
                \/ k = "response" /\ ResponseDelay(p, o) # NotKnown
                \/ k = "smoothing" /\ SmoothingDelta(p, o) # NotKnown
                \/ k = "turns" /\ DirectionChanged(p, DirectionOf(o))}

Mutant_SumKept(mean, count, candidate) ==
    IF candidate = NotKnown THEN mean ELSE IF mean = NotKnown THEN candidate
    ELSE (mean * count + candidate) \div count

RollingAverage(mean, count, candidate) ==
    IF candidate = NotKnown THEN mean
    ELSE IF mean = NotKnown THEN candidate
    ELSE (mean * count + candidate) \div (count + 1)

\* the band only widens: the lowest charge seen discharging, the highest charging
ObservationUpdates(p, o) ==
    LET d == DirectionOf(o)
    IN  [p EXCEPT !.most = [k \in Directed |-> MaxOptional(@[k], PowerIn(o, k))],
                  !.floor = MinOptional(@, IF d = "discharge" THEN o.soc ELSE NotKnown),
                  !.ceiling = MaxOptional(@, IF d = "charge" THEN o.soc ELSE NotKnown)]

ActivityUpdates(p, q, o) ==
    LET d == DirectionOf(o)
    IN  [q EXCEPT !.average = [k \in Directed |->
                      RollingAverage(p.average[k], p.count[k], IF k = d THEN PowerIn(o, k) ELSE NotKnown)],
                  !.delta = RollingAverage(p.delta, p.count["smoothing"], SmoothingDelta(p, o)),
                  !.delay = RollingAverage(p.delay, p.count["response"], ResponseDelay(p, o)),
                  !.longest = MaxOptional(@, ResponseDelay(p, o)),
                  !.direction = d, !.active = ActiveNow(o),
                  !.sinceIdle = IF ~ActiveNow(o) THEN 0 ELSE @,
                  !.sinceChange = 0]

UpdatedProfile(p, o, period) ==
    LET sampled == [p EXCEPT !.samples = @ + 1,
                             !.count = [k \in Kinds |-> IF k \in CountedAs(p, o, period) THEN @[k] + 1 ELSE @[k]]]
    IN  ActivityUpdates(p, ObservationUpdates(sampled, o), o)

(***************************************************************************)
(* The summary of the profiles                                             *)
(***************************************************************************)
Total(kind) == MapThenSumSet(LAMBDA b : profiles'[b].count[kind], Batteries)
BiasFromCounts(positive, negative) ==
    IF positive + negative = 0 THEN NotKnown ELSE (100 * (positive - negative)) \div (positive + negative)
SumKnown(values(_)) ==
    LET known == {b \in Batteries : values(b) # NotKnown}
    IN  IF known = {} THEN NotKnown ELSE MapThenSumSet(values, known)
WeightedAverage(values, weights) ==
    LET known == {b \in Batteries : values[b] # NotKnown /\ weights[b] > 0}
    IN  IF known = {} THEN NotKnown
        ELSE MapThenSumSet(LAMBDA b : values[b] * weights[b], known)
                \div MapThenSumSet(LAMBDA b : weights[b], known)
MostSummed(d) == SumKnown(LAMBDA b : profiles'[b].most[d])
AverageSummed(d) ==
    WeightedAverage([b \in Batteries |-> profiles'[b].average[d]], [b \in Batteries |-> profiles'[b].count[d]])
DelaySummed ==
    WeightedAverage([b \in Batteries |-> profiles'[b].delay], [b \in Batteries |-> 1])
\* _normalized_smoothing_ratio: how little the power strays from its average
SmoothingOf(p) ==
    LET means == {p.average[d] : d \in Directed} \ {NotKnown, 0}
    IN  IF p.delta = NotKnown \/ means = {} THEN NotKnown
        ELSE 100 - Percentage(p.delta * Cardinality(means), MapThenSumSet(LAMBDA x : x, means))
SmoothingSummed ==
    LET ratio == WeightedAverage([b \in Batteries |-> SmoothingOf(profiles'[b])],
                                 [b \in Batteries |-> profiles'[b].count["smoothing"]])
    IN  IF ratio = NotKnown THEN 0 ELSE ratio
\* the band that all sources keep: the highest floor and the lowest ceiling
FloorSummed ==
    LET known == {profiles'[b].floor : b \in Batteries} \ {NotKnown}
    IN  IF known = {} THEN NotKnown ELSE Max(known)
CeilingSummed ==
    LET known == {profiles'[b].ceiling : b \in Batteries} \ {NotKnown}
    IN  IF known = {} THEN NotKnown ELSE Min(known)

(***************************************************************************)
(* The forecast                                                            *)
(***************************************************************************)
\* aggregate_energy_sources, as far as the forecast uses it
ElPresent == {b \in Batteries : current'[b] # NotKnown}
Cluster ==
    LET weighted == {b \in ElPresent : current'[b].soc # NotKnown /\ current'[b].capacity # NotKnown}
        limited == {b \in ElPresent : current'[b].limit # NotKnown}
    IN  [power |-> [d \in Directed |-> MapThenSumSet(LAMBDA b : PowerIn(current'[b], d), ElPresent)],
         grid |-> MapThenSumSet(LAMBDA b : current'[b].grid, ElPresent),
         limit |-> IF limited = {} THEN NotKnown ELSE MapThenSumSet(LAMBDA b : current'[b].limit, limited),
         soc |-> IF weighted = {} THEN NotKnown
                 ELSE MapThenSumSet(LAMBDA b : current'[b].soc * current'[b].capacity, weighted)
                          \div MapThenSumSet(LAMBDA b : current'[b].capacity, weighted)]

HeadroomLimit(c, d) ==
    LET limits == <<c.limit, MostSummed(d), AverageSummed(d)>>
        first == IF limits[1] # NotKnown THEN limits[1]
                 ELSE IF limits[2] # NotKnown THEN limits[2]
                 ELSE IF limits[3] # NotKnown THEN (5 * limits[3]) \div 4 ELSE NotKnown
    IN  IF first # NotKnown THEN Max({first, c.power[d]})
        ELSE IF c.power[d] > 0 THEN c.power[d] ELSE NotKnown

SocScale(soc, bound, sign) ==
    IF soc = NotKnown \/ bound = NotKnown THEN 100 ELSE Percentage(sign * (soc - bound), SocBand)
ChargeScale(c) == SocScale(c.soc, CeilingSummed, -1)
DischargeScale(c) == SocScale(c.soc, FloorSummed, 1)
ScaledHeadroom(limit, power, scale) ==
    IF limit = NotKnown THEN NotKnown ELSE (PositivePart(limit - power) * scale) \div 100

PositiveBias(bias) == IF bias = NotKnown THEN 0 ELSE PositivePart(bias)
ResponseWeight == IF DelaySummed = NotKnown THEN 100
                  ELSE (100 * ResponseScale) \div (ResponseScale + DelaySummed)
Saturation(headroom, limit, power) ==
    IF power = 0 THEN 0
    ELSE IF limit = NotKnown \/ limit = 0 \/ headroom = NotKnown THEN 100
    ELSE 100 - Percentage(headroom, limit)

NearTermExport(c, headroom, limit) ==
    LET power == c.power["charge"]
        bias == PositiveBias(BiasFromCounts(Total("export_charge"), Total("export_discharge")))
        first == PositiveBias(BiasFromCounts(Total("export_charge"),
                                             Total("export_discharge") + Total("export_idle")))
        risk == (((power * bias * ResponseWeight) \div 100) * (50 + Saturation(headroom, limit, power) \div 2)
                    * (200 - SmoothingSummed)) \div 2000000
        credit == (power * first * ResponseWeight * (25 + (3 * SmoothingSummed) \div 4)) \div 1000000
    IN  PositivePart(PositivePart(-c.grid) + risk - credit)
NearTermImport(c) ==
    LET supports == BiasFromCounts(Total("import_support"), Total("import_charge"))
        bias == IF supports # NotKnown THEN supports
                ELSE BiasFromCounts(Total("discharge"), Total("charge"))
        relief == (((c.power["discharge"] * PositiveBias(bias) * ResponseWeight) \div 100) * DischargeScale(c)
                        * (400 - SmoothingSummed)) \div 4000000
    IN  PositivePart(PositivePart(c.grid) - relief)

Forecast(c) ==
    LET charge == HeadroomLimit(c, "charge")
        headroom == ScaledHeadroom(charge, c.power["charge"], ChargeScale(c))
    IN  [charge |-> headroom,
         discharge |-> ScaledHeadroom(HeadroomLimit(c, "discharge"), c.power["discharge"], DischargeScale(c)),
         exports |-> NearTermExport(c, headroom, charge), imports |-> NearTermImport(c)]

(***************************************************************************)
(* The discharge balance                                                   *)
(***************************************************************************)
AvailableEnergy(o, b) ==
    IF o.capacity = NotKnown \/ o.capacity <= 0 \/ o.soc = NotKnown THEN NotKnown
    ELSE o.capacity * PositivePart(o.soc - (IF profiles'[b].floor = NotKnown THEN 0 ELSE profiles'[b].floor))
BalanceWeight(o, b) ==
    IF AvailableEnergy(o, b) # NotKnown /\ AvailableEnergy(o, b) > 0 THEN AvailableEnergy(o, b)
    ELSE IF o.capacity # NotKnown /\ o.capacity > 0 THEN o.capacity ELSE 1
Balance ==
    LET total == MapThenSumSet(LAMBDA b : PowerIn(current'[b], "discharge"), ElPresent)
        weight == MapThenSumSet(LAMBDA b : BalanceWeight(current'[b], b), ElPresent)
        target(b) == (total * BalanceWeight(current'[b], b)) \div weight
    IN  [b \in ElPresent |->
            [target |-> target(b), error |-> PowerIn(current'[b], "discharge") - target(b)]]

(***************************************************************************)
(* The cycle                                                               *)
(***************************************************************************)
ElAged(p) == [p EXCEPT !.sinceIdle = IF @ = NotKnown THEN @ ELSE Min({@ + 1, 2}),
                     !.sinceChange = IF @ = NotKnown THEN @ ELSE Min({@ + 1, 2})]

\* collect_cycle: one source has been newly observed
Learn(b, o, period) ==
    /\ profiles[b].samples < MaxSamples
    /\ profiles' = [c \in Batteries |->
                    IF c = b THEN UpdatedProfile(ElAged(profiles[c]), o, period) ELSE ElAged(profiles[c])]
    /\ current' = [current EXCEPT ![b] = o]
    /\ forecast' = Forecast(Cluster)
    /\ shares' = Balance

\* a source's last measurement has become too old to contribute
Expires(b) ==
    /\ current[b] # NotKnown
    /\ current' = [current EXCEPT ![b] = NotKnown]
    /\ UNCHANGED profiles
    /\ forecast' = Forecast(Cluster)
    /\ shares' = Balance

NewProfile ==
    [samples |-> 0, count |-> [k \in Kinds |-> 0], most |-> [d \in Directed |-> NotKnown],
     average |-> [d \in Directed |-> NotKnown], delta |-> NotKnown, delay |-> NotKnown,
     longest |-> NotKnown, floor |-> NotKnown, ceiling |-> NotKnown, direction |-> "idle",
     active |-> FALSE, sinceIdle |-> NotKnown, sinceChange |-> NotKnown]

ElInit ==
    /\ profiles = [b \in Batteries |-> NewProfile]
    /\ current = [b \in Batteries |-> NotKnown]
    /\ forecast = [charge |-> NotKnown, discharge |-> NotKnown, exports |-> 0, imports |-> 0]
    /\ shares = <<>>

ElNext ==
    \E b \in Batteries :
        \/ \E o \in Observed, period \in {"day", "night"} : Learn(b, o, period)
        \/ Expires(b)
ElSpec == ElInit /\ [][ElNext]_elVars

(***************************************************************************)
(* Properties                                                              *)
(***************************************************************************)
\* What is learned stays within what was observed: no average exceeds the largest
\* value it was taken over, whatever mixture of charging, discharging and idling
\* the measurements came in, and every active measurement is counted by day or night.
LearnedWithinObserved ==
    \A b \in Batteries :
        LET p == profiles[b] IN
        /\ \A d \in Directed : p.average[d] # NotKnown => p.average[d] <= p.most[d]
        /\ p.delay # NotKnown => p.delay <= p.longest
        /\ p.count["day"] + p.count["night"] = p.count["active"]
        /\ p.count["charge"] + p.count["discharge"] <= p.count["active"]
===============================================================================
