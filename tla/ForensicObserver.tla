-------------------------- MODULE ForensicObserver --------------------------
(***************************************************************************)
(* The forensic observer (rust/forensic-observer): a process of its own    *)
(* that watches the gateway's diagnostics and the service's supervision,   *)
(* writes one bundle of files per incident on removable storage, adds a    *)
(* recovery record once the system has been healthy for some time, and     *)
(* prunes recovered bundles. Storage comes and goes, other programs hold   *)
(* the storage lease, writes fail, and the process may die at any step.    *)
(* Time is counted in iterations.                                          *)
(***************************************************************************)
EXTENDS Integers, FiniteSets, FiniteSetsExt

CONSTANTS
    Storages,        \* removable storage, by mount path (numbers: the order of the mount table)
    Sights,          \* what an iteration may see: diagnostics, supervision, log markers
    ConfirmTicks,    \* recovery_confirmation_seconds
    MaxAge,          \* ForensicRetentionDays
    MaxBytes,        \* ForensicMaxTotalMiB; a file is one byte
    CheckTicks_,     \* CHECK_INTERVAL
    MaxBatch,        \* MAX_BATCH
    MaxBundles,      \* bound: incidents that are ever written
    MaxTime,         \* bound: iterations
    MaxRestarts      \* bound: restarts of the process

ASSUME ObserverAssumption ==
    /\ {ConfirmTicks, MaxAge, MaxBytes, CheckTicks_, MaxBatch, MaxBundles, MaxTime, MaxRestarts} \subseteq Nat
    /\ Storages \subseteq Nat \ {0}         \* 0: no storage

NoTime == -1
NoEpisode == [store |-> 0, id |-> 0, healthySince |-> NoTime]

VARIABLES
    mounted,     \* mounted_storage_candidates of the mount table
    lease,       \* the storage lease as others hold it: "free", "shared", "exclusive"
    bundles,     \* per storage, the incident directories
    episode,     \* ObserverState.active_episode
    observer,         \* the process: its step, incarnation and last retention check
    now,         \* time
    lastId       \* incidents written so far

obsVars == <<mounted, lease, bundles, episode, observer, now, lastId>>

BundleFiles == {"snapshot", "config", "recovery"}

(***************************************************************************)
(* The diagnostics snapshot: from_value of its parts. A snapshot that      *)
(* contradicts itself is not available, and then gives no reason.          *)
(***************************************************************************)
HealthStates == {"unknown", "ok", "degraded", "protective", "unavailable"}

TriggerValid(t) == t.at > 0 /\ t.until >= t.at /\ t.timeouts > 0

EvidenceValid(e) ==
    /\ e.causes # {} /\ e.causes \subseteq {"load", "cpu", "memory"}
    /\ e.causes \subseteq e.metrics          \* each cause comes with its metric
    /\ e.at > 0

HealthValid(h, version) ==
    /\ h.state \in HealthStates
    /\ h.maximum >= h.average
    /\ version > 3 => /\ \A t \in h.active \cup h.last : TriggerValid(t)
                      /\ h.active # {} => h.active = h.last
    /\ version > 4 => /\ h.resource \in {"unknown", "ok", "busy", "constrained"}
                      /\ h.state # "protective" => h.cause = ""
                      /\ \A e \in h.evidence :
                            EvidenceValid(e) /\ (e.active => h.resource = "constrained")

Having(sources, availability) == Cardinality({s \in sources : s.availability \in availability})

DiscoveryValid(d) ==
    /\ d.enabled = (d.state # "disabled")
    /\ d.unusable + d.dormant <= d.discovered
    /\ \A s \in d.sources : s.availability # "available" => s.reason # ""
    /\ d.sources # {} => /\ Cardinality(d.sources) = d.discovered
                         /\ Having(d.sources, {"unavailable", "unknown"}) = d.unusable
                         /\ Having(d.sources, {"dormant"}) = d.dormant

PublicationValid(p) == p.registered = (p.heartbeat > 0)

CriticalFields == {"operating_mode", "charging_enabled", "ac_power_w"}

Applicability(status) ==
    CASE status = "inactive" -> "not-applicable" [] status = "unknown" -> "unknown"
      [] OTHER -> "applicable"

SampleQuality(s) ==
    CASE s.status \in {"fresh", "stale"} -> s.hasValue /\ s.changed > 0
      [] s.status = "inactive" -> s.reason # "" /\ (s.hasValue => s.changed > 0)
      [] s.status \in {"unavailable", "error"} -> ~s.hasValue /\ s.reason # ""
      [] s.status = "unknown" -> ~s.hasValue

SampleValid(s) ==
    /\ s.changed <= s.confirmed
    /\ s.applicability = Applicability(s.status)
    /\ SampleQuality(s)

DiagnosticsValid(g) ==
    /\ g.version \in {3, 4, 5}
    /\ HealthValid(g.health, g.version) /\ DiscoveryValid(g.discovery)
    /\ PublicationValid(g.publication)
    /\ \A name \in CriticalFields : SampleValid(g.samples[name])

CriticalUnavailable(g) ==
    {name \in CriticalFields : g.samples[name].status \in {"unavailable", "error", "unknown"}}

\* incident_reasons
IncidentReasons(sight) ==
    (IF DiagnosticsValid(sight.gateway)
     THEN CriticalUnavailable(sight.gateway)
          \cup ({sight.gateway.health.state} \cap {"protective", "unavailable"})
     ELSE {})
    \cup (CASE sight.svstat = "failed" -> {"runit-status-failed"}
            [] sight.svstat = "down" -> {"runit-not-up"}
            [] sight.svstat = "up" -> {})
    \cup sight.markers

(***************************************************************************)
(* Storage                                                                 *)
(***************************************************************************)
FirstWritable(writable) == Min(writable)      \* the first candidate that takes a file

BundleCompleted(b) == b.files = BundleFiles
SizeOf(b) == Cardinality(b.files)
TotalSize(store) == MapThenSumSet(SizeOf, bundles[store])
SharedLease == lease # "exclusive"
ExclusiveLease == lease = "free"

\* an error ends the process; the supervisor starts it again, with no episode
Exit ==
    /\ episode' = NoEpisode
    /\ observer' = [observer EXCEPT !.pc = "gone"]

(***************************************************************************)
(* observer_iteration_with                                                 *)
(***************************************************************************)
\* after the iteration the retention check may be due
Iterated == observer' = [observer EXCEPT !.pc = "prune"]

Ready == observer.pc = "idle" /\ now < MaxTime

\* without storage, or the configuration not readable (which ends the process)
NothingObserved ==
    /\ Ready
    /\ \/ mounted = {} /\ Iterated /\ UNCHANGED episode
       \/ mounted # {} /\ Exit
    /\ UNCHANGED <<mounted, lease, bundles, now, lastId>>

\* an incident during an episode only ends its healthy period
IncidentContinues ==
    /\ Ready /\ mounted # {} /\ episode # NoEpisode
    /\ \E sight \in Sights : IncidentReasons(sight) # {}
    /\ episode' = [episode EXCEPT !.healthySince = NoTime]
    /\ Iterated
    /\ UNCHANGED <<mounted, lease, bundles, now, lastId>>

\* write_incident_with_lease: files are staged in a hidden directory and renamed; a
\* failure there removes the staging directory and ends the process
WriteIncident ==
    /\ Ready /\ mounted # {} /\ episode = NoEpisode /\ lastId < MaxBundles
    /\ \E sight \in Sights : IncidentReasons(sight) # {}
    /\ \/ /\ SharedLease
          /\ \E writable \in (SUBSET mounted) \ {{}} :
               LET store == FirstWritable(writable)
                   new == [id |-> lastId + 1, files |-> {"snapshot", "config"},
                           recovered |-> NoTime, by |-> observer.run]
               IN /\ bundles' = [bundles EXCEPT ![store] = @ \cup {new}]
                  /\ episode' = [store |-> store, id |-> new.id, healthySince |-> NoTime]
          /\ lastId' = lastId + 1
          /\ Iterated
       \/ UNCHANGED <<bundles, episode, lastId>> /\ Iterated      \* no lease, nowhere writable
       \/ Exit /\ UNCHANGED <<bundles, lastId>>                   \* a write failed
    /\ UNCHANGED <<mounted, lease, now>>

EpisodeBundle == {b \in bundles[episode.store] : b.id = episode.id}

\* write_recovery_with_lease: only into the directory the episode was written to, and
\* only once; FALSE leaves the episode open. A staging file stays behind a death here.
RecoveryWritten ==
    /\ SharedLease /\ episode.store \in mounted /\ EpisodeBundle # {}
    /\ bundles' = [bundles EXCEPT ![episode.store] =
                      {IF b.id = episode.id /\ "recovery" \notin b.files
                       THEN [b EXCEPT !.files = @ \cup {"recovery"}, !.recovered = now] ELSE b : b \in @}]

Mutant_EpisodeForgotten(written) == NoEpisode
EpisodeAfter(written) ==
    IF written THEN NoEpisode
    ELSE [episode EXCEPT !.healthySince = IF @ = NoTime THEN now ELSE @]

Healthy ==
    /\ Ready /\ mounted # {} /\ episode # NoEpisode
    /\ \E sight \in Sights : IncidentReasons(sight) = {}
    /\ LET since == IF episode.healthySince = NoTime THEN now ELSE episode.healthySince
       IN \/ /\ now - since < ConfirmTicks
             /\ episode' = [episode EXCEPT !.healthySince = since]
             /\ Iterated /\ UNCHANGED bundles
          \/ /\ now - since >= ConfirmTicks
             /\ \/ RecoveryWritten /\ episode' = EpisodeAfter(TRUE) /\ Iterated
                \/ /\ ~(SharedLease /\ episode.store \in mounted /\ EpisodeBundle # {})
                   /\ episode' = EpisodeAfter(FALSE) /\ Iterated /\ UNCHANGED bundles
                \/ Exit /\ UNCHANGED bundles
    /\ UNCHANGED <<mounted, lease, now, lastId>>

HealthyIdle ==
    /\ Ready /\ mounted # {} /\ episode = NoEpisode
    /\ \E sight \in Sights : IncidentReasons(sight) = {}
    /\ Iterated
    /\ UNCHANGED <<mounted, lease, bundles, episode, now, lastId>>

(***************************************************************************)
(* prune: at most once per interval and under the exclusive lease, the     *)
(* oldest completed bundles of each storage that are not the episode's     *)
(***************************************************************************)
Candidates(store) ==
    {b \in bundles[store] : /\ BundleCompleted(b) /\ b.recovered <= now
                            /\ ~(episode.store = store /\ episode.id = b.id)}

Older(a, b) == a.recovered < b.recovered \/ (a.recovered = b.recovered /\ a.id < b.id)

\* the first MaxBatch candidates, as far as age or the budget asks for their removal
Doomed(store) ==
    LET cands == Candidates(store)
        Before(b) == {a \in cands : Older(a, b)}
        Remaining(b) == TotalSize(store) - 3 * Cardinality(Before(b))
        Goes(b) == now - b.recovered >= MaxAge \/ Remaining(b) > MaxBytes
    IN {b \in cands : /\ Cardinality(Before(b)) < MaxBatch
                      /\ \A a \in Before(b) \cup {b} : Goes(a)}

RetentionPass ==
    /\ observer.pc = "prune"
    /\ LET due == observer.check = NoTime \/ now - observer.check >= CheckTicks_
           checked == IF due THEN now ELSE observer.check
       IN \/ /\ due /\ ExclusiveLease           \* some prefix of the removals succeeds
             /\ \E stores \in SUBSET mounted :
                  bundles' = [s \in Storages |-> IF s \in stores THEN bundles[s] \ Doomed(s)
                                                 ELSE bundles[s]]
             /\ observer' = [observer EXCEPT !.pc = "idle", !.check = checked]
             /\ UNCHANGED episode
          \/ /\ due => ~ExclusiveLease          \* not due, or the lease is taken
             /\ observer' = [observer EXCEPT !.pc = "idle", !.check = checked]
             /\ UNCHANGED <<bundles, episode>>
    /\ now' = now + 1
    /\ UNCHANGED <<mounted, lease, lastId>>

\* the process dies: while it removes a bundle it leaves an incomplete one, while it
\* writes a recovery record a file that retention does not know
Die ==
    /\ observer.pc # "gone"
    /\ \/ UNCHANGED bundles
       \/ /\ observer.pc = "prune" /\ ExclusiveLease
          /\ \E s \in mounted : \E b \in Doomed(s), kept \in {{}, {"recovery"}, {"config", "recovery"}} :
               bundles' = [bundles EXCEPT ![s] = (@ \ {b}) \cup {[b EXCEPT !.files = kept]}]
       \/ /\ observer.pc = "idle" /\ episode.store \in mounted /\ SharedLease
          /\ episode.healthySince # NoTime /\ now - episode.healthySince >= ConfirmTicks
          /\ bundles' = [bundles EXCEPT ![episode.store] =
                 {IF b.id = episode.id THEN [b EXCEPT !.files = @ \cup {"staging"}] ELSE b : b \in @}]
    /\ Exit
    /\ UNCHANGED <<mounted, lease, now, lastId>>

\* runit starts the observer again
Restarted ==
    /\ observer.pc = "gone" /\ observer.run < MaxRestarts
    /\ observer' = [pc |-> "idle", run |-> observer.run + 1, check |-> NoTime]
    /\ UNCHANGED <<mounted, lease, bundles, episode, now, lastId>>

(***************************************************************************)
(* The surroundings                                                        *)
(***************************************************************************)
MountTable == /\ mounted' \in SUBSET Storages /\ mounted' # mounted
              /\ UNCHANGED <<lease, bundles, episode, observer, now, lastId>>

OtherLease == /\ lease' \in {"free", "shared", "exclusive"} /\ lease' # lease
              /\ UNCHANGED <<mounted, bundles, episode, observer, now, lastId>>

(***************************************************************************)
(* Specification                                                           *)
(***************************************************************************)
ObsInit ==
    /\ mounted = Storages /\ lease = "free"
    /\ bundles = [s \in Storages |-> {}]
    /\ episode = NoEpisode
    /\ observer = [pc |-> "idle", run |-> 0, check |-> NoTime]
    /\ now = 0 /\ lastId = 0

ObsNext ==
    \/ NothingObserved \/ IncidentContinues \/ WriteIncident \/ Healthy \/ HealthyIdle
    \/ RetentionPass \/ Die \/ Restarted \/ MountTable \/ OtherLease

ObsSpec == ObsInit /\ [][ObsNext]_obsVars

(***************************************************************************)
(* Properties                                                              *)
(***************************************************************************)
ObsTypeOK ==
    /\ mounted \subseteq Storages /\ lease \in {"free", "shared", "exclusive"}
    /\ episode \in [store : Storages \cup {0}, id : 0 .. MaxBundles, healthySince : -1 .. MaxTime]
    /\ observer \in [pc : {"idle", "prune", "gone"}, run : 0 .. MaxRestarts, check : -1 .. MaxTime]
    /\ \A s \in Storages : \A b \in bundles[s] :
          b.id \in 1 .. lastId /\ b.files \subseteq BundleFiles \cup {"staging"}

\* One failure episode makes one bundle: a bundle without recovery record that the
\* running process wrote is the one of its open episode, whatever happened to the
\* storage and to the lease in the meantime.
UnfinishedIsActive ==
    observer.pc # "gone" =>
        \A s \in Storages : \A b \in bundles[s] :
            (b.by = observer.run /\ b.recovered = NoTime) => (episode.store = s /\ episode.id = b.id)
=============================================================================
