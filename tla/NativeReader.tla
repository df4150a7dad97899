---------------------------- MODULE NativeReader ----------------------------
(***************************************************************************)
(* The energy reader of the Rust D-Bus adapter (rust/dbus-adapter/src/     *)
(* reader*.rs), the measurements it hands out (energy.rs) and the cache    *)
(* that shows them (cache.rs).  One aggregate is read at a time, a member  *)
(* per bus operation; the pressure on the gateway (NativeHealth) chooses   *)
(* the read mode.  Time is relative: countdowns run to a deadline, ages    *)
(* count up and stop at a cap.  A deadline that is missing sorts first.    *)
(***************************************************************************)
EXTENDS Integers, Sequences, FiniteSets

CONSTANTS
    NrOrder,        \* the configured read keys in priority order
    NrInterval,     \* [key -> ticks between two cycles]
    GridPaths,      \* how many grid phases are read
    AcServices,     \* the AC inverter names, sorted, the first MaxPvServices
    DcService,      \* the DC source, or NoService
    Aggregate,      \* the PV override, or NoService
    AggregatePaths, \* how many paths the override sums
    Batteries,      \* the battery names, sorted
    ServiceTicks,   \* discovery interval while a validated source is there
    MissingTicks,   \* discovery interval otherwise, and after an error
    FreshTicks,     \* core_read_max_age
    TickReserve,    \* maximum_tick
    FailTicks,      \* first delay after a failed cycle
    FailCap,        \* the longest one
    FailLimit,      \* how far the failure count goes
    HoldTicks,      \* PV_HOLD_SECONDS
    ProbeTicks,     \* ERROR_BACKOFF
    DormantTicks,   \* EVIDENCE_TTL
    KeepTicks,      \* OBSERVATION_RETENTION
    MaxSources,     \* MAX_OBSERVATIONS
    StaleTicks_,    \* stale_after_seconds of the cache
    MaxGeneration,  \* cap of the topology generation
    NrHorizon,      \* how many ticks the model runs
    MaxRefresh      \* how many refresh commands arrive

NoService == "no service"
InSeq(q) == {q[i] : i \in 1..Len(q)}

ASSUME ReaderAssumption ==
    /\ NrOrder \in Seq(DOMAIN NrInterval)
    /\ \A k \in DOMAIN NrInterval : NrInterval[k] \in Nat \ {0}
    /\ AcServices \in Seq(InSeq(AcServices)) /\ {GridPaths, AggregatePaths} \subseteq Nat
    /\ MissingTicks <= ServiceTicks
    /\ {FreshTicks, TickReserve, FailCap, KeepTicks} \subseteq Nat
    /\ {FailTicks, MaxSources} \subseteq Nat \ {0}
    /\ FailLimit \in 1 .. 31                  \* the doubled delay is 32 bits wide

VARIABLES
    mode,       \* the read mode the gateway's pressure allows
    names,      \* the advertised services, as of the last discovery
    topo,       \* [generation, changed, discovered, scan]
    due,        \* [key -> ticks to the next cycle; Missing_ when unset]
    failures,   \* [key -> consecutive failed cycles]
    reading,    \* the aggregate under way, or NoRead
    atBus,      \* the operation the broker executes
    lastGood,   \* [PV member -> the hold of its last good value]
    seen,       \* [PV source -> availability evidence]
    validated,  \* the PV members once validated
    measured,   \* [key -> measurement]
    cached,     \* [key -> the cache's observation]
    sinceAll,   \* history: ticks since every member of a key last answered
    nrNow,      \* ticks since the start
    refreshes   \* refresh commands so far

nrVars == <<mode, names, topo, due, failures, reading, atBus, lastGood, seen,
            validated, measured, cached, sinceAll, nrNow, refreshes>>

Keys_ == {NrOrder[i] : i \in 1..Len(NrOrder)}
Modes_ == {"normal", "degraded", "protective"}
CoreKeys == {"grid", "pv", "soc"}

Overdue_ == -2
Missing_ == -3
AgeCap_ == StaleTicks_ + 2
Down(n) == IF n <= Overdue_ THEN n ELSE n - 1
Up(n, cap) == IF n >= cap THEN cap ELSE n + 1
Smaller(a, b) == IF a < b THEN a ELSE b
Larger(a, b) == IF a < b THEN b ELSE a

NoRead == [key |-> "none", members |-> <<>>, index |-> 0, answered |-> {},
           confidence |-> 0, held |-> FALSE, failed |-> FALSE, factor |-> 1, ops |-> 0]
AtRest == [op |-> "none", member |-> <<>>]

(***************************************************************************)
(* Which services a key is read from (topology.rs).                        *)
(***************************************************************************)

SourceId(kind, s) == <<kind, s>>
Member(s, path, source) == [service |-> s, path |-> path, source |-> source]

\* What stands at the given places of a sequence, in its order.
Filtered(q, places) ==
    [n \in 1..Cardinality(places) |->
        q[CHOOSE i \in places : Cardinality({j \in places : j <= i}) = n]]

\* The override replaces the discovered sources while it is advertised.
PvCandidates(ns) ==
    IF Aggregate # NoService /\ Aggregate \in ns
    THEN [p \in 1..AggregatePaths |-> Member(Aggregate, p, SourceId("pv-ac", Aggregate))]
    ELSE LET ac == Filtered(AcServices, {i \in DOMAIN AcServices : AcServices[i] \in ns})
         IN  [i \in 1..Len(ac) |-> Member(ac[i], 1, SourceId("pv-ac", ac[i]))]
             \o (IF DcService # NoService /\ DcService \in ns
                 THEN <<Member(DcService, 2, SourceId("pv-dc", DcService))>> ELSE <<>>)

ActiveSources(ns) == {m.source : m \in InSeq(PvCandidates(ns))}
Descriptors == InSeq(PvCandidates(names))
               \cup {m \in validated : m.source \notin ActiveSources(names)}

BatteryService ==
    LET there == {i \in DOMAIN Batteries : Batteries[i] \in names}
    IN  IF there = {} THEN NoService ELSE Batteries[CHOOSE i \in there : \A j \in there : i <= j]

ProbeAllowed_(os, source) == source \in DOMAIN os => os[source].probe <= 0

MembersOf(k, os) ==
    CASE k = "grid" -> [p \in 1..GridPaths |-> Member("system", p, "grid-primary")]
      [] k = "pv"   -> LET all == PvCandidates(names)
                       IN  Filtered(all, {i \in DOMAIN all : ProbeAllowed_(os, all[i].source)})
      [] k = "battery_power" -> <<Member("system", 9, SourceId("battery", BatteryService))>>
      [] OTHER -> IF BatteryService = NoService THEN <<>>
                  ELSE <<Member(BatteryService, 1, SourceId("battery", BatteryService))>>

SourceIds(k, os) == IF k = "pv" THEN {m.source : m \in Descriptors}
                    ELSE {m.source : m \in InSeq(MembersOf(k, os))}

\* What the topology file says of each source.
Advertised(s) == IF ~topo.discovered THEN "unknown"
                 ELSE IF s \in names THEN "online" ELSE "offline"
SourceDescriptors ==
    {[id |-> "grid-primary", state |-> Advertised("system")]}
    \cup {[id |-> m.source, state |-> Advertised(m.service)] : m \in Descriptors}
    \cup {[id |-> SourceId("battery", BatteryService), state |-> Advertised(BatteryService)] :
             s \in {BatteryService} \ {NoService}}

(***************************************************************************)
(* Availability evidence of PV sources (pv_dormancy.rs, pv_tracking.rs).   *)
(***************************************************************************)

NotSeen == [validated |-> FALSE, available |-> FALSE, reason |-> "", dormant |-> FALSE,
            dormantFor |-> 0, idle |-> 0, probe |-> 0]

\* At capacity the inactive, then the longest unheard source gives way.
Trimmed_(os, source) ==
    IF source \in DOMAIN os \/ Cardinality(DOMAIN os) < MaxSources THEN os
    ELSE LET rest == IF DOMAIN os \ ActiveSources(names) = {} THEN DOMAIN os
                     ELSE DOMAIN os \ ActiveSources(names)
             out == CHOOSE s \in rest : \A t \in rest : os[t].idle <= os[s].idle
         IN  [s \in DOMAIN os \ {out} |-> os[s]]

WithSource(os, source, entry) ==
    LET kept == Trimmed_(os, source)
    IN  [s \in DOMAIN kept \cup {source} |-> IF s = source THEN entry ELSE kept[s]]
EntryOf(os, source) == IF source \in DOMAIN os THEN os[source] ELSE NotSeen

NrRecordValue(os, source) ==
    WithSource(os, source, [EntryOf(os, source) EXCEPT
        !.validated = TRUE, !.available = TRUE, !.reason = "", !.dormant = FALSE,
        !.idle = 0, !.probe = 0])

NrRecordError(os, source, error) ==
    LET e == [EntryOf(os, source) EXCEPT !.available = FALSE, !.idle = 0, !.probe = ProbeTicks]
    IN  WithSource(os, source,
            IF error = "dormant"
            THEN [e EXCEPT !.validated = TRUE, !.reason = "", !.dormant = TRUE, !.dormantFor = 0]
            ELSE IF e.dormant THEN e
            ELSE [e EXCEPT !.reason = "source-path-unreadable"])

\* Old evidence of sleep lapses; a source that left is forgotten after a while.
NrMaintained(os, ns) ==
    LET lapsed == [s \in DOMAIN os |->
                     IF os[s].dormant /\ os[s].dormantFor >= DormantTicks
                     THEN [os[s] EXCEPT !.dormant = FALSE, !.reason = "source-path-unreadable"]
                     ELSE os[s]]
    IN  [s \in {t \in DOMAIN os : t \in ActiveSources(ns) \/ os[t].idle < KeepTicks} |-> lapsed[s]]
StillValidated(os) == {m \in validated : m.source \in DOMAIN os /\ os[m.source].validated}

HasValidPv(os, ns) == \E m \in InSeq(PvCandidates(ns)) : m.source \in DOMAIN os
                                                 /\ os[m.source].validated

\* Sleep confirmed, for the health file, and the reason a source gives nothing.
DormancyEvidence == {s \in DOMAIN seen \cap {m.source : m \in Descriptors} :
                       seen[s].validated /\ ~seen[s].available /\ seen[s].dormant}
PvReasons ==
    [m \in Descriptors |->
        IF m.source \in DormancyEvidence THEN "pv-sleep-confirmed"
        ELSE IF m.service \notin names THEN "source-not-advertising"
        ELSE EntryOf(seen, m.source).reason]

(***************************************************************************)
(* Cadence (policy.rs, scheduling.rs).                                     *)
(***************************************************************************)

AllowsOptional(md) == md # "protective"
AllowsDiscovery(md) == md = "normal"
IntervalFactor(md) == CASE md = "normal" -> 1 [] md = "degraded" -> 3 [] OTHER -> 5

\* A core key is never slowed beyond what keeps its value fresh.
SuccessDelay(k, factor, ops) ==
    LET asked == NrInterval[k] * factor
        fresh == Larger(NrInterval[k], FreshTicks - TickReserve * Larger(ops, 1))
    IN  IF k \in CoreKeys THEN Smaller(asked, fresh) ELSE asked

FailureDelay(n) == Smaller(FailTicks * 2 ^ (n - 1), FailCap)

\* Longest due first; the configured order breaks ties.
DueKeys(md) == {k \in Keys_ : due[k] <= 0 /\ (k = "pv" => AllowsOptional(md))}
Rank_(k) == CHOOSE i \in 1..Len(NrOrder) : NrOrder[i] = k
NextDueKey(md) ==
    CHOOSE k \in DueKeys(md) : \A j \in DueKeys(md) :
        due[k] < due[j] \/ (due[k] = due[j] /\ Rank_(k) <= Rank_(j))

(***************************************************************************)
(* Measurements.                                                           *)
(***************************************************************************)

Unknown_ == [value |-> FALSE, status |-> "unknown", age |-> AgeCap_, confidence |-> 0,
             sources |-> {}, reason |-> "not-observed"]
Unavailable_(sources, why) == [Unknown_ EXCEPT !.status = "unavailable", !.sources = sources,
                                               !.reason = why]
Observed_(status, confidence, sources, why) ==
    [value |-> TRUE, status |-> status, age |-> 0, confidence |-> confidence,
     sources |-> sources, reason |-> why]

\* Tenths of confidence left after a hold has lasted `age`.
HoldConfidence(age) == (8 * Larger(HoldTicks - age, 0)) \div HoldTicks

NoHold == -1
HeldMembers == {m \in InSeq(PvCandidates(names)) \cap DOMAIN lastGood :
                  lastGood[m] # NoHold /\ HoldConfidence(lastGood[m]) > 0}

\* With no PV member to ask: what is still held, or zero at low confidence.
EmptyPv(sources) ==
    IF HeldMembers # {}
    THEN Observed_("stale",
             CHOOSE c \in {HoldConfidence(lastGood[m]) : m \in HeldMembers} :
                 \A m \in HeldMembers : c <= HoldConfidence(lastGood[m]),
             sources, "transient-hold")
    ELSE Observed_("fresh", 2, sources, "optional-source-unavailable")

Completed_(r) ==
    IF ~r.failed \/ r.key = "pv"
    THEN Observed_(IF r.held THEN "stale" ELSE "fresh", r.confidence, r.answered,
                   IF r.held THEN "transient-hold"
                   ELSE IF r.failed THEN "optional-source-unavailable" ELSE "")
    ELSE [Unknown_ EXCEPT !.status = "error", !.reason = "source-error",
                          !.sources = {m.source : m \in InSeq(r.members)}]

(***************************************************************************)
(* One step of the reader: the next operation it wants.                    *)
(***************************************************************************)

\* An aggregate under way comes first; a PV aggregate waits out protection,
\* and every other key with it.
ContinueCycle ==
    /\ reading # NoRead
    /\ reading.key = "pv" => AllowsOptional(mode)
    /\ atBus' = [op |-> "read", member |-> reading.members[reading.index]]
    /\ UNCHANGED <<topo, due, reading, seen, validated, measured>>

StartDiscovery ==
    /\ reading = NoRead
    /\ AllowsDiscovery(mode) /\ topo.scan <= 0
    /\ topo' = [topo EXCEPT !.scan = topo.interval]
    /\ atBus' = [op |-> "names", member |-> <<>>]
    /\ UNCHANGED <<due, reading, seen, validated, measured>>

\* start_cycle; a key with no member is settled at once.
StartCycle ==
    /\ reading = NoRead
    /\ ~(AllowsDiscovery(mode) /\ topo.scan <= 0)
    /\ DueKeys(mode) # {}
    /\ LET k == NextDueKey(mode)
           os == IF k = "pv" THEN NrMaintained(seen, names) ELSE seen
           members == MembersOf(k, os)
       IN  /\ seen' = os
           /\ validated' = IF k = "pv" THEN StillValidated(os) ELSE validated
           /\ due' = [due EXCEPT ![k] = SuccessDelay(k, IntervalFactor(mode), Len(members))]
           /\ IF members = <<>>
              THEN /\ measured' = [measured EXCEPT ![k] =
                        IF k = "pv" THEN EmptyPv(SourceIds(k, os))
                        ELSE Unavailable_(SourceIds(k, os), "source-unavailable")]
                   /\ UNCHANGED <<reading, atBus>>
              ELSE /\ reading' = [NoRead EXCEPT !.key = k, !.members = members, !.index = 1,
                                    !.confidence = 10, !.factor = IntervalFactor(mode)]
                   /\ atBus' = [op |-> "read", member |-> members[1]]
                   /\ UNCHANGED measured
    /\ UNCHANGED topo

NextOperation ==
    /\ atBus = AtRest
    /\ ContinueCycle \/ StartDiscovery \/ StartCycle
    /\ UNCHANGED <<nrNow, refreshes, mode, names, failures, lastGood, cached, sinceAll>>

(***************************************************************************)
(* Results (handle_names, handle_read_member, complete_cycle).             *)
(***************************************************************************)

NamesFailed ==
    /\ topo' = [topo EXCEPT !.scan = MissingTicks, !.interval = MissingTicks]
    /\ UNCHANGED <<names, seen, validated>>

NamesListed(found) ==
    LET os == NrMaintained(seen, found)
        wait == IF HasValidPv(os, found) THEN ServiceTicks ELSE MissingTicks
    IN  /\ names' = found
        /\ seen' = os
        /\ validated' = StillValidated(os)
        /\ topo' = [topo EXCEPT !.discovered = TRUE,
                               !.generation = IF found = names THEN @ ELSE Up(@, MaxGeneration),
                               !.changed = @ \/ found # names,
                               !.interval = wait, !.scan = wait]

HandleNames ==
    /\ atBus.op = "names"
    /\ \/ NamesFailed
       \/ \E found \in SUBSET (InSeq(AcServices) \cup InSeq(Batteries)
                               \cup ({DcService, Aggregate} \ {NoService})) : NamesListed(found)
    /\ atBus' = AtRest
    /\ UNCHANGED <<nrNow, refreshes, mode, due, failures, reading, lastGood, measured, cached, sinceAll>>

BusAnswers == {"value", "garbage", "timeout", "refused", "dormant"}

\* A timeout may be bridged by the last good value, other errors forget it.
MayHold(m, answer) == /\ answer = "timeout" /\ m \in DOMAIN lastGood
                      /\ (lastGood[m] # NoHold => HoldConfidence(lastGood[m]) > 0)
HoldOf(m) == IF lastGood[m] = NoHold THEN 0 ELSE lastGood[m]

HoldsAfter(m, answer) ==
    CASE answer = "value" -> [n \in DOMAIN lastGood \cup {m} |->
                                 IF n = m THEN NoHold ELSE lastGood[n]]
      [] answer = "timeout" /\ m \in DOMAIN lastGood -> [lastGood EXCEPT ![m] = HoldOf(m)]
      [] answer \in {"refused", "dormant"} -> [n \in DOMAIN lastGood \ {m} |-> lastGood[n]]
      [] OTHER -> lastGood

\* The aggregate after one member's answer; slow PV sources lengthen the cycle.
ReadAfter(r, answer, slow) ==
    LET m == r.members[r.index]
        pv == r.key = "pv"
        stepped == [r EXCEPT !.index = @ + 1, !.ops = @ + 1,
                             !.factor = IF pv THEN Larger(@, slow) ELSE @]
    IN  IF answer = "value" THEN [stepped EXCEPT !.answered = @ \cup {m.source}]
        ELSE IF pv /\ MayHold(m, answer)
        THEN [stepped EXCEPT !.held = TRUE,
                             !.confidence = Smaller(@, HoldConfidence(HoldOf(m))),
                             !.answered = @ \cup {SourceId("pv-ac", m.service)}]
        ELSE [stepped EXCEPT !.failed = TRUE,
                             !.confidence = IF pv THEN Smaller(@, 2) ELSE @]

\* A failed core key backs off; PV is optional and keeps its cadence.
Rescheduled(r) ==
    IF r.key = "pv" \/ ~r.failed
    THEN /\ failures' = [failures EXCEPT ![r.key] = 0]
         /\ due' = [due EXCEPT ![r.key] = SuccessDelay(r.key, r.factor, r.ops)]
    ELSE /\ failures' = [failures EXCEPT ![r.key] = Smaller(@ + 1, FailLimit)]
         /\ due' = [due EXCEPT ![r.key] = FailureDelay(failures'[r.key])]

CompleteCycle(r) ==
    /\ Rescheduled(r)
    /\ measured' = [measured EXCEPT ![r.key] = Completed_(r)]
    /\ sinceAll' = [sinceAll EXCEPT ![r.key] = IF r.failed \/ r.held THEN @ ELSE 0]
    /\ reading' = NoRead

HandleRead ==
    /\ atBus.op = "read"
    /\ atBus' = AtRest
    /\ \E answer \in BusAnswers, slow \in {1, 3, 5} :
         LET m == atBus.member
             r == ReadAfter(reading, answer, slow)
             pv == reading.key = "pv"
         IN  /\ pv \/ (slow = 1 /\ answer # "dormant")
             /\ lastGood' = IF pv THEN HoldsAfter(m, answer) ELSE lastGood
             /\ seen' = IF ~pv THEN seen
                        ELSE IF answer = "value" THEN NrRecordValue(seen, m.source)
                        ELSE NrRecordError(seen, m.source, answer)
             /\ validated' = IF pv /\ seen'[m.source].validated
                             THEN {n \in validated : n.source # m.source} \cup {m}
                             ELSE validated
             /\ IF r.index <= Len(r.members)
                THEN /\ reading' = r
                     /\ UNCHANGED <<due, failures, measured, sinceAll>>
                ELSE CompleteCycle(r)
    /\ UNCHANGED <<nrNow, refreshes, mode, names, topo, cached>>

(***************************************************************************)
(* The cache (cache.rs) and its snapshots (runtime.rs, storage.rs).        *)
(***************************************************************************)

\* Metadata that is not positive is withdrawn; battery power changes sign.
Published_(k, positive) ==
    IF k \in {"capacity", "voltage"} /\ measured[k].value /\ ~positive
    THEN Unavailable_(measured[k].sources, "invalid-non-positive")
    ELSE measured[k]

Mutant_ConfirmedOnCapture(old, m) ==
    [value |-> m.value, status |-> m.status, sources |-> m.sources, reason |-> m.reason,
     confirmed |-> 0]

\* A measurement without a time keeps the time of the previous confirmation.
RememberMeasurement(old, m) ==
    [value |-> m.value, status |-> m.status, sources |-> m.sources, reason |-> m.reason,
     confirmed |-> IF m.status \in {"fresh", "stale"} THEN m.age ELSE old.confirmed]

ProjectedStatus(c) ==
    IF c.status = "fresh" /\ StaleTicks_ > 0 /\ c.confirmed > StaleTicks_ THEN "stale" ELSE c.status
CriticalNonfresh == {k \in CoreKeys \cap Keys_ : ProjectedStatus(cached[k]) # "fresh"}

PublishSnapshots ==
    /\ \E positive \in BOOLEAN :
         cached' = [k \in Keys_ |-> RememberMeasurement(cached[k], Published_(k, positive))]
    /\ topo' = [topo EXCEPT !.changed = FALSE]
    /\ UNCHANGED <<nrNow, refreshes, mode, names, due, failures, reading, atBus, lastGood, seen, validated,
                   measured, sinceAll>>

\* A refresh command makes the keys of its scope due at once.
ScopeKeys(scope) ==
    CASE scope = "grid" -> {"grid"} [] scope = "pv" -> {"pv"}
      [] scope = "battery" -> Keys_ \ {"grid", "pv"} [] OTHER -> Keys_
RequestRefresh ==
    /\ refreshes < MaxRefresh
    /\ refreshes' = refreshes + 1
    /\ \E scope \in {"grid", "pv", "battery", "all"} :
         due' = [k \in Keys_ |-> IF k \in ScopeKeys(scope) THEN Missing_ ELSE due[k]]
    /\ UNCHANGED <<nrNow, mode, names, topo, failures, reading, atBus, lastGood, seen, validated,
                   measured, cached, sinceAll>>

(***************************************************************************)
(* The surroundings: time, and the pressure that sets the mode.            *)
(***************************************************************************)

NrTick ==
    /\ nrNow < NrHorizon
    /\ nrNow' = nrNow + 1
    /\ topo' = [topo EXCEPT !.scan = Larger(@ - 1, 0)]
    /\ due' = [k \in Keys_ |-> Down(due[k])]
    /\ lastGood' = [m \in DOMAIN lastGood |->
                      IF lastGood[m] = NoHold THEN NoHold ELSE Up(lastGood[m], HoldTicks)]
    /\ seen' = [s \in DOMAIN seen |->
                  [seen[s] EXCEPT !.probe = Larger(@ - 1, 0), !.idle = Up(@, KeepTicks),
                                  !.dormantFor = IF seen[s].dormant THEN Up(@, DormantTicks)
                                                 ELSE 0]]
    /\ measured' = [k \in Keys_ |-> [measured[k] EXCEPT !.age = Up(@, AgeCap_)]]
    /\ cached' = [k \in Keys_ |-> [cached[k] EXCEPT !.confirmed = Up(@, AgeCap_)]]
    /\ sinceAll' = [k \in Keys_ |-> Up(sinceAll[k], AgeCap_)]
    /\ mode' \in Modes_
    /\ UNCHANGED <<refreshes, names, failures, reading, atBus, validated>>

NrInit ==
    /\ nrNow = 0 /\ refreshes = 0 /\ mode = "normal" /\ names = {} /\ reading = NoRead /\ atBus = AtRest
    /\ topo = [generation |-> 0, changed |-> TRUE, discovered |-> FALSE, scan |-> 0,
               interval |-> MissingTicks]
    /\ due = [k \in Keys_ |-> Missing_] /\ failures = [k \in Keys_ |-> 0]
    /\ lastGood = <<>> /\ seen = <<>> /\ validated = {}
    /\ measured = [k \in Keys_ |-> Unknown_]
    /\ cached = [k \in Keys_ |-> [value |-> FALSE, status |-> "unknown", sources |-> {},
                                  reason |-> "", confirmed |-> AgeCap_]]
    /\ sinceAll = [k \in Keys_ |-> AgeCap_]

NrNext == NextOperation \/ HandleNames \/ HandleRead \/ PublishSnapshots \/ RequestRefresh
          \/ NrTick

NrSpec == NrInit /\ [][NrNext]_nrVars

(***************************************************************************)
(* Properties.                                                             *)
(***************************************************************************)

NrTypeOK ==
    /\ mode \in Modes_
    /\ \A k \in Keys_ : due[k] \in Missing_..Larger(5 * NrInterval[k], FailCap)
                        /\ failures[k] \in 0..FailLimit
    /\ Cardinality(DOMAIN seen) <= MaxSources
    /\ reading # NoRead => reading.index \in 1..Len(reading.members)
    /\ atBus.op = "read" => atBus.member = reading.members[reading.index]

\* A grid or battery value the cache shows as fresh was answered, by every
\* member of its aggregate, no longer ago than the cache allows: neither a
\* failed cycle, a snapshot repeated without a new reading, a mode that stops
\* reading nor a source that left lets an old value pass for a new one.
FreshIsAnswered ==
    \A k \in Keys_ \ {"pv"} :
        ProjectedStatus(cached[k]) = "fresh" => sinceAll[k] <= StaleTicks_
=============================================================================
