----------------------------- MODULE PvSources -----------------------------
(***************************************************************************)
(* The PV total of the gateway (dbus_adapter/read): one optional aggregate *)
(* read that asks the advertised PV sources one after the other.           *)
(*  - PvDormancyTracker remembers per source whether it was validated,     *)
(*    reachable, or confirmed asleep, and when it may be probed again;     *)
(*  - PvLastGoodWindow bridges a timeout with a decaying estimate;         *)
(*  - AggregateState is the round in progress, one member per bus call;    *)
(*  - DbusEnergyDiscoveryManager publishes the topology with a generation  *)
(*    number, which a reader compares instead of the content.              *)
(* Powers are abstracted to the list of sources that entered the sum, the  *)
(* estimate to what is left of the hold window.                            *)
(***************************************************************************)
EXTENDS Integers, FiniteSets, Sequences, SequencesExt

CONSTANTS
    PvMembers,        \* the PV sources, numbered in the order of their names
    ErrorBackoff,     \* error_backoff_seconds
    EvidenceTtl,      \* evidence_ttl_seconds
    Retention,        \* observation_retention_seconds
    HoldWindow,       \* window_seconds of the last-good window
    MaxObservations,  \* max_observations
    PvHorizon         \* bound on the monotonic clock

ASSUME PvAssumption ==
    /\ PvMembers \subseteq Nat /\ IsFiniteSet(PvMembers)
    /\ {ErrorBackoff, EvidenceTtl, Retention, HoldWindow, PvHorizon} \subseteq Nat
    /\ EvidenceTtl <= Retention
    /\ MaxObservations \in Nat \ {0}

VARIABLES
    pvNow,        \* the monotonic clock
    configured,   \* the members are configured, not discovered
    advertised,   \* _service_names, here those that carry PV sources
    obs,          \* _observations of the tracker
    targets,      \* _validated_targets of the registry
    evidence,     \* _evidence_cache with its key
    samples,      \* _samples of the last-good window: when the hold began
    round,        \* the AggregateState of the PV key, or NoRound
    candidates,   \* _candidates_by_key of the PV key
    asked,        \* the members whose bus call is in flight
    pvTotal,      \* the total this step published, NoTotal when it published none
    topology,     \* the last published topology, whether its generation number
                  \* still is the current one and was that of the one before
    lostAt        \* history: when a confirmed source first failed to answer

pvVars == <<pvNow, configured, advertised, obs, targets, evidence, samples,
            round, candidates, asked, pvTotal, topology, lostAt>>

NoRound == [members |-> <<>>, index |-> 0, sources |-> <<>>, held |-> {}]
Never == -1
PvTimes == 0 .. PvHorizon

Observation ==
    [validated : BOOLEAN, available : {"unknown", "yes", "no"},
     failed : BOOLEAN, dormant : BOOLEAN,
     dormantAt : PvTimes, seenAt : PvTimes, probeAt : 0 .. PvHorizon + ErrorBackoff]
NewObservation ==
    [validated |-> FALSE, available |-> "unknown", failed |-> FALSE,
     dormant |-> FALSE, dormantAt |-> 0, seenAt |-> 0, probeAt |-> 0]
SemanticState(o) == <<o.validated, o.available, o.failed, o.dormant>>

(***************************************************************************)
(* PvDormancyTracker                                                       *)
(***************************************************************************)
\* the observation given up for a new one: inactive before active, then the
\* longest unseen, then the first by name
Evicted(os, active) ==
    CHOOSE m \in DOMAIN os : \A x \in DOMAIN os \ {m} :
        \/ m \notin active /\ x \in active
        \/ /\ (m \in active) = (x \in active)
           /\ \/ os[m].seenAt < os[x].seenAt
              \/ os[m].seenAt = os[x].seenAt /\ m < x

TrimToCapacity(os, active) ==
    IF Cardinality(DOMAIN os) < MaxObservations THEN os
    ELSE [m \in DOMAIN os \ {Evicted(os, active)} |-> os[m]]

WithObservation(os, m, active) ==
    IF m \in DOMAIN os THEN os
    ELSE LET kept == TrimToCapacity(os, active)
         IN  [x \in DOMAIN kept \cup {m} |-> IF x = m THEN NewObservation ELSE kept[x]]

RecordValue(os, m, active) ==
    [WithObservation(os, m, active) EXCEPT ![m] =
        [@ EXCEPT !.validated = TRUE, !.available = "yes", !.failed = FALSE,
                  !.dormant = FALSE, !.dormantAt = 0, !.seenAt = pvNow, !.probeAt = 0]]

\* the two outcomes of explicit_dormancy_error on the message of an error
RecordError(os, m, active, asleep) ==
    [WithObservation(os, m, active) EXCEPT ![m] =
        LET o == [@ EXCEPT !.available = "no", !.seenAt = pvNow,
                           !.probeAt = pvNow + ErrorBackoff]
        IN  IF asleep
            THEN [o EXCEPT !.validated = TRUE, !.failed = FALSE,
                           !.dormant = TRUE, !.dormantAt = pvNow]
            ELSE [o EXCEPT !.failed = ~o.dormant]]

\* mutant: a change of reachability alone does not count as a change
Mutant_OnlyDormancy(before, after, m) ==
    after[m].dormant # (m \in DOMAIN before /\ before[m].dormant)
\* whether a recording changed the meaning of an observation, as the tracker
\* compares it: against the observation it found or has just created
Recorded(before, after, m) ==
    SemanticState(after[m]) # SemanticState(IF m \in DOMAIN before THEN before[m]
                                            ELSE NewObservation)

ExpireDormancy(os) ==
    [m \in DOMAIN os |->
        IF os[m].dormant /\ pvNow - os[m].dormantAt >= EvidenceTtl
        THEN [os[m] EXCEPT !.dormant = FALSE, !.dormantAt = 0, !.failed = TRUE] ELSE os[m]]

PruneInactive(os, active) ==
    [m \in {x \in DOMAIN os : x \in active \/ pvNow - os[x].seenAt < Retention} |-> os[m]]

ProbeAllowed(os, m) == m \in DOMAIN os => pvNow >= os[m].probeAt

\* _observation_evidence over the validated targets
DormantIds(os, ids) ==
    {m \in DOMAIN os \cap ids : os[m].validated /\ os[m].available = "no" /\ os[m].dormant}

(***************************************************************************)
(* PvSourceRegistry: which sources are candidates, what a change means     *)
(***************************************************************************)
CandidateTargets == advertised
ActiveSourceIds(services) == services

\* maintain: expire, prune, and forget targets without an observation; the
\* result also says whether the revision moved
Maintain(os, ts, active) ==
    LET kept == PruneInactive(ExpireDormancy(os), active)
    IN  [obs |-> kept, targets |-> {m \in ts \cap DOMAIN kept : kept[m].validated},
         changed |-> kept # os]

\* record_value and record_error of the registry; a source that is no longer
\* advertised is ignored
AfterRecord(os, ts, m, after) ==
    IF m \notin CandidateTargets THEN [obs |-> os, targets |-> ts, changed |-> FALSE]
    ELSE LET now == IF after[m].validated THEN ts \cup {m} ELSE ts
         IN  [obs |-> after, targets |-> now,
              changed |-> Recorded(os, after, m) \/ now # ts]

\* the tracker's and the registry's revision, and with them the generation:
\* only whether they moved since they were last read is kept, and a result of
\* an older revision is not looked at again
NoEvidence == [current |-> FALSE, targets |-> {}, ids |-> {}]
NoTopology == [current |-> FALSE, same |-> FALSE, sources |-> <<>>]
Moved(changed) ==
    /\ evidence' = IF changed THEN NoEvidence ELSE evidence
    /\ topology' = IF changed THEN NoTopology ELSE topology

SourceState(m, os, dormant) ==
    IF m \in dormant \/ m \notin advertised \/ os[m].available = "no"
    THEN "offline" ELSE "online"

(***************************************************************************)
(* PvLastGoodWindow                                                        *)
(***************************************************************************)
RetainMembers(ss, ms) == [m \in DOMAIN ss \cap ms |-> ss[m]]
ConfirmedSample(ss, m) == [x \in DOMAIN ss \cup {m} |-> IF x = m THEN Never ELSE ss[x]]
DropSample(ss, m) == [x \in DOMAIN ss \ {m} |-> ss[x]]

\* mutant: every timeout restarts the hold
Mutant_HoldRestarts(ss, m, timeout) ==
    IF ~timeout THEN DropSample(ss, m)
    ELSE IF m \in DOMAIN ss THEN [ss EXCEPT ![m] = pvNow] ELSE ss
\* record_error: a timeout starts the hold once, any other error ends it
FailedSample(ss, m, timeout) ==
    IF ~timeout THEN DropSample(ss, m)
    ELSE IF m \in DOMAIN ss /\ ss[m] = Never THEN [ss EXCEPT ![m] = pvNow] ELSE ss

\* _estimate: the members whose estimate still has a confidence above zero
Estimates(ss, ms) ==
    {m \in DOMAIN ss \cap ms : ss[m] # Never /\ pvNow - ss[m] < HoldWindow}

(***************************************************************************)
(* PvAggregateContinuity                                                   *)
(***************************************************************************)
\* add_estimates: the advertised candidates of the key whose hold is running
AvailableEstimates(ss, cs) == Estimates(ss, cs \cap advertised)

AddEstimates(r, ss, cs) ==
    LET es == AvailableEstimates(ss, cs)
    IN  [r EXCEPT !.held = es, !.sources = @ \o SetToSeq(es)]

\* complete: publish the sum, as a stale hold when an estimate entered it
Published(r) ==
    [sources |-> r.sources, held |-> r.held,
     status |-> IF r.held # {} THEN "transient-hold" ELSE "confirmed"]

NoTotal == [sources |-> <<>>, held |-> {}, status |-> "none"]

\* _mark_optional_zero of the executor
OptionalZero == [sources |-> <<>>, held |-> {}, status |-> "optional-zero"]

Complete(r, ss, cs) ==
    /\ pvTotal' = Published(AddEstimates(r, ss, cs))
    /\ samples' = RetainMembers(ss, cs \cap advertised)
    /\ round' = NoRound
    /\ candidates' = {}

\* history: only a source with a confirmed sample can be held
Lost(since) == [m \in PvMembers |-> IF m \in DOMAIN samples' THEN since[m] ELSE Never]

(***************************************************************************)
(* DbusReadExecutor: one step of the PV aggregate                          *)
(***************************************************************************)
\* configured_pv_aggregate_members, or the maintained candidates
PlanCandidates == IF configured THEN PvMembers ELSE CandidateTargets

Ascending(ms) == CHOOSE s \in [1 .. Cardinality(ms) -> ms] : \A i, j \in DOMAIN s : i < j => s[i] < s[j]

PlanMembers(os) ==
    IF round # NoRound THEN round.members
    ELSE IF configured THEN Ascending(PvMembers)
    ELSE Ascending({m \in CandidateTargets : ProbeAllowed(os, m)})

Maintained ==
    IF configured THEN [obs |-> obs, targets |-> targets, changed |-> FALSE]
    ELSE Maintain(obs, targets, CandidateTargets)

\* _poll_aggregate_step: the broker may refuse the read of the next member;
\* the round is kept for the next attempt
SubmitMember(members) ==
    /\ round' = IF round # NoRound THEN round ELSE [NoRound EXCEPT !.members = members]
    /\ asked' \in {{}, {members[round.index + 1]}}

\* poll_read_spec of the PV key: plan, then submit the next member's read
PollPv ==
    /\ asked = {}
    /\ LET m == Maintained
           members == PlanMembers(m.obs)
           kept == RetainMembers(samples, PlanCandidates)
       IN  /\ obs' = m.obs /\ targets' = m.targets /\ Moved(m.changed)
           /\ \/ /\ members # <<>>
                 /\ samples' = kept
                 /\ candidates' = PlanCandidates
                 /\ SubmitMember(members)
                 /\ pvTotal' = NoTotal
              \/ /\ members = <<>>
                 /\ AvailableEstimates(kept, PlanCandidates) # {}
                 /\ Complete(NoRound, kept, PlanCandidates)
                 /\ UNCHANGED asked
              \/ /\ members = <<>>
                 /\ AvailableEstimates(kept, PlanCandidates) = {}
                 /\ pvTotal' = OptionalZero
                 /\ samples' = RetainMembers(kept, advertised)
                 /\ round' = NoRound
                 /\ candidates' = {}
                 /\ UNCHANGED asked
    /\ lostAt' = Lost(lostAt)
    /\ UNCHANGED <<pvNow, configured, advertised>>

\* _aggregate_step_outcome: the next member, or the end of the round
Advance(r, ss) ==
    IF r.index >= Len(r.members) THEN Complete(r, ss, candidates)
    ELSE round' = r /\ samples' = ss /\ pvTotal' = NoTotal /\ UNCHANGED candidates

\* _complete_aggregate_member with a number
MemberAnswers ==
    \E m \in asked :
        /\ LET rec == AfterRecord(obs, targets, m, RecordValue(obs, m, ActiveSourceIds(advertised)))
           IN  IF configured THEN UNCHANGED <<obs, targets, evidence, topology>>
               ELSE obs' = rec.obs /\ targets' = rec.targets /\ Moved(rec.changed)
        /\ Advance([round EXCEPT !.index = @ + 1, !.sources = Append(@, m)],
                   ConfirmedSample(samples, m))
        /\ lostAt' = Lost([lostAt EXCEPT ![m] = Never])
        /\ asked' = {}
        /\ UNCHANGED <<pvNow, configured, advertised>>

\* _complete_aggregate_member with an answer that is no finite number: it ends the hold
\* and teaches the tracker nothing; NaN enters the sum, an empty answer does not
MemberUnusable ==
    \E m \in asked : \E added \in {<<>>, <<m>>} :
        /\ Advance([round EXCEPT !.index = @ + 1, !.sources = @ \o added], DropSample(samples, m))
        /\ lostAt' = Lost(lostAt)
        /\ asked' = {}
        /\ UNCHANGED <<pvNow, configured, advertised, obs, targets, evidence, topology>>

\* _complete_aggregate_error: a timeout, a dormant device, another error; and
\* an answer that cannot be added, whose callback fails into the error path
MemberFails ==
    \E m \in asked, kind \in {"timeout", "asleep", "error"} :
        /\ LET rec == AfterRecord(obs, targets, m,
                          RecordError(obs, m, ActiveSourceIds(advertised), kind = "asleep"))
           IN  IF configured THEN UNCHANGED <<obs, targets, evidence, topology>>
               ELSE obs' = rec.obs /\ targets' = rec.targets /\ Moved(rec.changed)
        /\ Advance([round EXCEPT !.index = @ + 1],
                   FailedSample(samples, m, kind = "timeout"))
        /\ lostAt' = Lost([lostAt EXCEPT ![m] = IF @ = Never THEN pvNow ELSE @])
        /\ asked' = {}
        /\ UNCHANGED <<pvNow, configured, advertised>>

(***************************************************************************)
(* DbusEnergyDiscoveryManager                                              *)
(***************************************************************************)
UpdateServices ==
    \E names \in SUBSET PvMembers :
        /\ names # advertised
        /\ advertised' = names
        /\ LET m == Maintain(obs, targets, ActiveSourceIds(names))
           IN  obs' = m.obs /\ targets' = m.targets
               /\ evidence' = IF m.changed THEN NoEvidence ELSE evidence
        /\ topology' = NoTopology
        /\ pvTotal' = NoTotal
        /\ UNCHANGED <<pvNow, configured, samples, round, candidates, asked, lostAt>>

\* evidence: the cached result serves while revision and targets are the same
CachedIds(m) ==
    IF evidence.current /\ ~m.changed /\ evidence.targets = m.targets
    THEN evidence.ids ELSE DormantIds(m.obs, m.targets)

\* dormant_evidence through the cache, then the descriptors of the snapshot
TopologySnapshot ==
    LET m == Maintain(obs, targets, ActiveSourceIds(advertised))
        ids == CachedIds(m)
    IN  /\ obs' = m.obs /\ targets' = m.targets
        /\ evidence' = [current |-> TRUE, targets |-> m.targets, ids |-> ids]
        /\ topology' = [current |-> TRUE, same |-> topology.current /\ ~m.changed,
                        sources |-> [x \in m.targets |-> SourceState(x, m.obs, ids)]]
        /\ pvTotal' = NoTotal
        /\ UNCHANGED <<pvNow, configured, advertised, samples, round, candidates,
                       asked, lostAt>>

PvTick ==
    /\ pvNow < PvHorizon
    /\ pvNow' = pvNow + 1
    /\ pvTotal' = NoTotal
    /\ UNCHANGED <<configured, advertised, obs, targets, evidence, samples, round,
                   candidates, asked, topology, lostAt>>

PvInit ==
    /\ pvNow = 0 /\ configured \in BOOLEAN
    /\ advertised = {} /\ obs = <<>> /\ targets = {} /\ samples = <<>>
    /\ evidence = NoEvidence
    /\ round = NoRound /\ candidates = {} /\ asked = {}
    /\ pvTotal = NoTotal
    /\ topology = NoTopology
    /\ lostAt = [m \in PvMembers |-> Never]

PvNext ==
    \/ PollPv \/ MemberAnswers \/ MemberUnusable \/ MemberFails
    \/ UpdateServices \/ TopologySnapshot \/ PvTick

PvSpec == PvInit /\ [][PvNext]_pvVars

(***************************************************************************)
(* Properties                                                              *)
(***************************************************************************)
\* Type invariant: the tracker never holds more than max_observations, the
\* round in progress is a list of known members and the index stays inside it.
PvTypeOK ==
    /\ pvNow \in PvTimes /\ configured \in BOOLEAN
    /\ DOMAIN obs \subseteq PvMembers /\ Cardinality(DOMAIN obs) <= MaxObservations
    /\ \A m \in DOMAIN obs : obs[m] \in Observation
    /\ DOMAIN samples \subseteq PvMembers
    /\ \A m \in DOMAIN samples : samples[m] \in PvTimes \cup {Never}
    /\ targets \cup candidates \cup asked \cup advertised \subseteq PvMembers
    /\ round = NoRound \/ round.index < Len(round.members)

\* An estimate bridges a gap, it never replaces a source: a held contribution
\* is published only within the hold window after the first unanswered read
\* since the last confirmed value, and no source enters one sum twice.
HoldEnds ==
    /\ IsInjective(pvTotal.sources)
    /\ \A m \in pvTotal.held : lostAt[m] # Never /\ pvNow - lostAt[m] < HoldWindow

\* Equal generations mean equal topologies: a reader that compares generation
\* numbers misses no change, neither of what is advertised nor of what the
\* tracker learned, expired, pruned or evicted (also through the cached
\* dormancy evidence).
GenerationTellsTopology ==
    [][topology' # topology /\ topology'.current /\ topology'.same
       => topology'.sources = topology.sources]_pvVars

=============================================================================
