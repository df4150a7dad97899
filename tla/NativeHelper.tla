---------------------------- MODULE NativeHelper ----------------------------
(***************************************************************************)
(* The native auto-input helper (rust/auto-input-helper): a process that   *)
(* reads the gateway's energy-input file, projects it into the snapshot    *)
(* file the charger service decides on, asks the gateway for a refresh of  *)
(* what is missing, and beats its heartbeat in between.                    *)
(*                                                                         *)
(* Monotonic times are kept as ages (input, payload, stored) and as ticks  *)
(* left (timers, retry).  What the configured energy sources contribute    *)
(* (NativeSources) arrives here as one of the views in HpViews.            *)
(***************************************************************************)
EXTENDS Integers, FiniteSets

CONSTANTS
    HpPollTicks,       \* loop_seconds
    PvTicks,         \* pv_poll_seconds
    GridTicks,       \* grid_poll_seconds
    BatteryTicks,    \* battery_poll_seconds
    ValidationTicks, \* validation_poll_seconds
    TopologyTicks,   \* topology_refresh_seconds
    BeatTicks,       \* heartbeat_seconds(loop_seconds)
    RetryGap,        \* gateway_error_retry_seconds
    MaxInputAge,     \* gateway_max_age_seconds
    BackupAge,       \* grid_fusion.backup_max_age_seconds
    KeepAge,         \* last_good_max_age_seconds of the energy sources
    HpPolicies,      \* PvProjectionPolicy names under check
    HpOffers,        \* what the gateway may write: field -> measurement
    HpViews          \* what the energy sources may contribute, [pv, battery]

ASSUME HpAssumption ==
    /\ {HpPollTicks, PvTicks, GridTicks, BatteryTicks, ValidationTicks,
        TopologyTicks, BeatTicks, RetryGap, MaxInputAge} \subseteq Nat \ {0}
    /\ {BackupAge, KeepAge} \subseteq Nat
    /\ HpPolicies \subseteq {"gateway_only", "gateway_preferred", "external_preferred", "external_only"}

VARIABLES
    plan,     \* configuration and arguments of the launch: policy, external, once, parent
    stage,    \* how far run() has come
    input,    \* the gateway's energy-input file
    topology, \* a usable topology file exists
    payload,  \* SnapshotState.payload
    stored,   \* the snapshot file
    timers,   \* Schedule: ticks left to each deadline
    retry,    \* RefreshMailbox.request_after: ticks left per scope
    wanted,   \* refresh commands lying in the gateway's mailbox, by scope
    passed,   \* the loop ran in this tick
    parentUp  \* the process that launched the helper is still its parent

hpVars == <<plan, stage, input, topology, payload, stored, timers, retry,
            wanted, passed, parentUp>>

HpFields == {"pv", "grid", "soc", "net"}
Scopes_ == {"all", "pv", "grid", "battery", "topology"}
DueAll == {"pv", "grid", "battery"}
Deadlines == {"poll", "pv", "grid", "battery", "validation", "topology",
              "heartbeat", "parent"}
Longest == CHOOSE n \in {PvTicks, GridTicks, BatteryTicks} :
             \A k \in {PvTicks, GridTicks, BatteryTicks} : k <= n
\* the gateway's measurements and what the energy sources add are this recent
\* when they are applied
AllowedAge == IF KeepAge > MaxInputAge THEN KeepAge ELSE MaxInputAge
HpCap == AllowedAge + Longest + HpPollTicks + BeatTicks

\* A measurement on the wire; "outside" is a usable status with an
\* implausible value, "error" stands for every status that does not contribute.
Measurements == [status : {"fresh", "stale", "outside", "error"},
                 sure : BOOLEAN, age : 0 .. HpCap]
NoShown == [ok |-> FALSE, age |-> 0]
Shown(m) == [ok |-> TRUE, age |-> m.age]
\* What the helper may be given: measurements of the gateway, and of the energy
\* sources only what still contributes.
ASSUME HpInputs ==
    /\ HpOffers \subseteq [HpFields -> Measurements]
    /\ \A view \in HpViews :
          /\ view.pv.status # "error" => view.pv.age \in 0 .. AllowedAge
          /\ view.battery \in [ok : BOOLEAN, age : 0 .. AllowedAge]

NoFileYet == [there |-> FALSE, sound |-> FALSE, age |-> 0,
              fields |-> [f \in HpFields |->
                            [status |-> "error", sure |-> FALSE, age |-> 0]]]

\* SnapshotState::new, empty_snapshot
EmptySnapshot == [state |-> "starting", captured |-> HpCap,
                  heartbeat |-> HpCap, pv |-> NoShown, gateway |-> NoShown,
                  battery |-> NoShown, grid |-> NoShown]

\* Schedule::new: the sources are due at once, everything else after its interval
FirstSchedule == [d \in Deadlines |->
    CASE d \in DueAll -> 0
      [] d = "poll" -> HpPollTicks
      [] d = "validation" -> ValidationTicks
      [] d = "topology" -> TopologyTicks
      [] d = "heartbeat" -> BeatTicks
      [] d = "parent" -> 1]

Interval(d) == CASE d = "pv" -> PvTicks
                 [] d = "grid" -> GridTicks
                 [] d = "battery" -> BatteryTicks

----------------------------------------------------------------------------
\* Reading the gateway's file

\* Reader and its measurement(): a truncated or malformed file, or one with a
\* measurement observed after the file was captured, is refused as a whole
Decodes ==
    /\ input.sound
    /\ \A f \in HpFields : input.fields[f].age >= input.age

\* load_energy_inputs: a file that is missing, does not decode or is too old
\* counts as no input at all
Loaded_ == input.there /\ Decodes /\ input.age <= MaxInputAge

\* Measurement::usable
Usable(m) == m.status # "error" /\ m.age <= MaxInputAge

\* the measurement of a field, if the file is good and the measurement usable
Given(f) == Loaded_ /\ Usable(input.fields[f])

\* the SOC must also lie between 0 and 100
GivenSoc == Given("soc") /\ input.fields["soc"].status # "outside"

----------------------------------------------------------------------------
\* SnapshotState: projecting the inputs into the payload

\* quality in select_pv_projection: fresh before confident
Quality(c) == (IF c.status = "fresh" THEN 2 ELSE 0) + (IF c.sure THEN 1 ELSE 0)

\* the candidates of a policy in their order of preference, with presence
CandidatesOf(view) ==
    LET gateway == [there |-> Given("pv"), c |-> input.fields["pv"]]
        outside == [there |-> plan.external /\ view.pv.status # "error", c |-> view.pv]
        nobody  == [there |-> FALSE, c |-> view.pv]
    IN  CASE plan.policy = "gateway_only"       -> <<gateway, nobody>>
          [] plan.policy = "gateway_preferred"  -> <<gateway, outside>>
          [] plan.policy = "external_preferred" -> <<outside, gateway>>
          [] plan.policy = "external_only"      -> <<outside, nobody>>

\* the better of two projections
Better(first, second) ==
    CASE ~first.there /\ ~second.there -> NoShown
      [] first.there /\ ~second.there -> Shown(first.c)
      [] ~first.there /\ second.there -> Shown(second.c)
      [] OTHER -> Shown(IF Quality(second.c) > Quality(first.c) THEN second.c ELSE first.c)

SelectPvProjection(view) ==
    LET candidates == CandidatesOf(view) IN Better(candidates[1], candidates[2])

Mutant_PvRemembered(kept, view) ==
    LET chosen == SelectPvProjection(view) IN IF chosen.ok THEN chosen ELSE kept

\* apply_pv: without a projection the value is cleared, never kept
ApplyPv(kept, view) == SelectPvProjection(view)

\* apply_scalar for the gateway's grid reading
ApplyGridGateway == IF Given("grid") THEN Shown(input.fields["grid"]) ELSE NoShown

\* apply_battery: nothing without a plausible SOC; the older of SOC and net
\* power dates it
ApplyBattery ==
    LET soc == input.fields["soc"]
        net == input.fields["net"]
    IN  IF ~GivenSoc THEN NoShown
        ELSE Shown(IF Given("net") /\ net.age > soc.age THEN net ELSE soc)

\* resolve_grid and publish_grid_selection without a fusion primary: the last
\* gateway reading while it is within the backup's age.  Runs on every refresh.
ResolveGrid(gateway) ==
    IF gateway.ok /\ gateway.age <= BackupAge THEN gateway ELSE NoShown

\* apply_external_battery: what the energy sources made of it
ApplyExternalBattery(view) == view.battery

\* mark_running, by every input that was applied
MarkRunning(state, due) == IF due = {} THEN state ELSE "running"

\* apply
ApplyInputs(p, due, view) ==
    LET gateway == IF "grid" \in due THEN ApplyGridGateway ELSE p.gateway
    IN  [p EXCEPT
           !.pv = IF "pv" \in due THEN ApplyPv(@, view) ELSE @,
           !.gateway = gateway,
           !.battery = CASE "battery" \notin due -> @
                         [] "battery" \in due /\ plan.external -> ApplyExternalBattery(view)
                         [] OTHER -> ApplyBattery,
           !.grid = ResolveGrid(gateway),
           !.state = MarkRunning(@, due),
           !.captured = 0, !.heartbeat = 0]

\* heartbeat: only the heartbeat is stamped, captured stays
Heartbeat(p) == [p EXCEPT !.heartbeat = 0]

\* lifecycle
Lifecycle(p, state) == [p EXCEPT !.state = state, !.captured = 0, !.heartbeat = 0]

----------------------------------------------------------------------------
\* A process that ends takes its memory with it.
NoPlan == [policy |-> "none", external |-> FALSE, once |-> FALSE, parent |-> FALSE]
NoRetry == [s \in Scopes_ |-> 0]

\* One pass works on h = [payload, stored, timers, retry, wanted].

\* SnapshotWriter::write over storage::write_atomic: a failed write leaves the
\* file as it was, and the next write tries again with what is in memory then
WriteSnapshot(h, works) ==
    IF works THEN [h EXCEPT !.stored = [there |-> TRUE, content |-> h.payload]] ELSE h

\* enqueue: a command file of its own name; the gateway coalesces by scope
Enqueue_(h, scopes, works) == IF works THEN [h EXCEPT !.wanted = @ \cup scopes] ELSE h

\* request_refresh, request_allowed for each of these scopes: the retry gap
\* starts even when the command cannot be written
RequestRefresh_(h, scopes, works) ==
    LET allowed == {scope \in scopes : h.retry[scope] = 0}
    IN  Enqueue_([h EXCEPT !.retry = [s \in Scopes_ |-> IF s \in allowed THEN RetryGap
                                                        ELSE @[s]]],
                 allowed, works)

\* request_missing: the scopes whose input is due and not usable
RequestMissing(due) ==
    {scope \in due : IF scope = "battery" THEN ~GivenSoc ELSE ~Given(scope)}

\* refresh
Refresh(h, due, view, initial, writes, sends) ==
    LET asked == RequestMissing(due)
                     \cup (IF initial /\ ~Loaded_ THEN {"all"} ELSE {})
                     \cup (IF initial /\ ~topology THEN {"topology"} ELSE {})
        applied == [h EXCEPT !.payload = ApplyInputs(@, due, view)]
    IN  WriteSnapshot(RequestRefresh_(applied, asked, sends), writes)

\* tick, first part: the sources that are due, whether or not the file could be written
PollPart(h, view, writes, sends) ==
    LET due == {s \in DueAll : h.timers[s] = 0}
        done == IF due = {} THEN h
                ELSE Refresh(h, due, view, FALSE, writes, sends)
    IN  IF h.timers["poll"] > 0 THEN h
        ELSE [done EXCEPT !.timers = [d \in Deadlines |->
                IF d \in due THEN Interval(d)
                ELSE IF d = "poll" THEN HpPollTicks ELSE @[d]]]

\* tick, second part: everything again
ValidationPart(h, view, writes, sends) ==
    IF h.timers["validation"] > 0 THEN h
    ELSE [Refresh(h, DueAll, view, FALSE, writes, sends)
            EXCEPT !.timers["validation"] = ValidationTicks]

TopologyPart(h, sends) ==
    IF h.timers["topology"] > 0 THEN h
    ELSE [RequestRefresh_(h, {"topology"}, sends)
            EXCEPT !.timers["topology"] = TopologyTicks]

HeartbeatPart(h, writes) ==
    IF h.timers["heartbeat"] > 0 THEN h
    ELSE [WriteSnapshot([h EXCEPT !.payload = Heartbeat(@)], writes)
            EXCEPT !.timers["heartbeat"] = BeatTicks]

Here == [payload |-> payload, stored |-> stored, timers |-> timers,
         retry |-> retry, wanted |-> wanted]

\* the next state of the process: what it holds, or that it has ended
Becomes(h, next) ==
    /\ stage' = next
    /\ payload' = IF next = "off" THEN EmptySnapshot ELSE h.payload
    /\ timers' = IF next = "off" THEN FirstSchedule ELSE h.timers
    /\ retry' = IF next = "off" THEN NoRetry ELSE h.retry
    /\ plan' = IF next = "off" THEN NoPlan ELSE plan
    /\ stored' = h.stored
    /\ wanted' = h.wanted

----------------------------------------------------------------------------
\* The process

\* main, parse_arguments, execute_launch, run: a new process knows nothing of
\* the one before it, only the files and the queued commands outlive it
Launch ==
    /\ stage = "off"
    /\ \E policy \in HpPolicies, external, once, watched \in BOOLEAN :
          plan' = [policy |-> policy, external |-> external, once |-> once,
                   parent |-> watched]
    /\ stage' = "starting"
    /\ payload' = EmptySnapshot
    /\ timers' = FirstSchedule
    /\ retry' = NoRetry
    /\ parentUp' = TRUE
    /\ passed' = TRUE
    /\ UNCHANGED <<input, topology, stored, wanted>>

\* publish_lifecycle("starting"), ("initializing"); --once skips the first.
\* A write that fails ends the process.
PublishLifecycle ==
    /\ stage \in {"starting", "initializing"}
    /\ \E writes \in BOOLEAN :
          LET begun == [Here EXCEPT !.payload = Lifecycle(payload, stage)]
          IN  IF stage = "starting" /\ plan.once
              THEN Becomes(Here, "initializing")
              ELSE Becomes(WriteSnapshot(begun, writes),
                           CASE ~writes -> "off"
                             [] writes /\ stage = "starting" -> "initializing"
                             [] OTHER -> "first")
    /\ UNCHANGED <<input, topology, passed, parentUp>>

\* the initial refresh of run() and run_once(): its write failing is fatal too
FirstRefresh ==
    /\ stage = "first"
    /\ \E view \in HpViews, writes, sends \in BOOLEAN :
          Becomes(Refresh(Here, DueAll, view, TRUE, writes, sends),
                  IF writes /\ ~plan.once THEN "running" ELSE "off")
    /\ UNCHANGED <<input, topology, passed, parentUp>>

\* parent_check_due, parent_is_current: without a parent id nothing is checked
Orphaned == timers["parent"] = 0 /\ plan.parent /\ ~parentUp

\* One pass of run()'s loop: the parent check, then tick()
LoopPass ==
    /\ stage = "running"
    /\ ~passed
    /\ IF Orphaned
       THEN Becomes(Here, "off")
       ELSE \E view \in HpViews, sends \in BOOLEAN,
               writes \in [{"poll", "validation", "heartbeat"} -> BOOLEAN] :
                 LET kept == IF timers["parent"] = 0
                             THEN [Here EXCEPT !.timers["parent"] = 1] ELSE Here
                     polled == PollPart(kept, view, writes["poll"], sends)
                     checked == ValidationPart(polled, view, writes["validation"], sends)
                 IN  Becomes(HeartbeatPart(TopologyPart(checked, sends),
                                           writes["heartbeat"]), "running")
    /\ passed' = TRUE
    /\ UNCHANGED <<input, topology, parentUp>>

\* BootClock::now finds the clock going back, or the process is killed
HelperDies ==
    /\ stage # "off"
    /\ Becomes(Here, "off")
    /\ UNCHANGED <<input, topology, passed, parentUp>>

\* the launching service goes away
ParentDies ==
    /\ parentUp /\ stage = "running" /\ plan.parent
    /\ parentUp' = FALSE
    /\ UNCHANGED <<plan, stage, input, topology, payload, stored, timers,
                   retry, wanted, passed>>

----------------------------------------------------------------------------
\* The gateway (external to this process) and time

\* it answers refresh commands, and writes on its own as well
GatewayWrites ==
    /\ input.age > 0 \/ ~input.there
    /\ \E offer \in HpOffers, sound \in BOOLEAN :
          input' = [there |-> TRUE, sound |-> sound, age |-> 0, fields |-> offer]
    /\ topology' = (topology \/ "topology" \in wanted)
    /\ wanted' = {}
    /\ UNCHANGED <<plan, stage, payload, stored, timers, retry, passed, parentUp>>

Older_(n) == IF n < HpCap THEN n + 1 ELSE n
OlderMeasured(m) == [m EXCEPT !.age = Older_(@)]
OlderShown(s) == IF s.ok THEN [s EXCEPT !.age = Older_(@)] ELSE s
OlderPayload(p) == [p EXCEPT !.captured = Older_(@), !.heartbeat = Older_(@),
                             !.pv = OlderShown(@), !.gateway = OlderShown(@),
                             !.battery = OlderShown(@), !.grid = OlderShown(@)]
Sooner(n) == IF n > 0 THEN n - 1 ELSE 0

\* The loop sleeps a quarter of a second at most: it runs in every tick.
TickPasses ==
    /\ passed \/ stage = "off"
    /\ stage \in {"off", "running"}
    /\ input' = [input EXCEPT !.age = Older_(@),
                   !.fields = [f \in HpFields |-> OlderMeasured(@[f])]]
    /\ payload' = OlderPayload(payload)
    /\ stored' = [stored EXCEPT !.content = OlderPayload(@)]
    /\ timers' = IF stage = "off" THEN timers ELSE [d \in Deadlines |-> Sooner(timers[d])]
    /\ retry' = [s \in Scopes_ |-> Sooner(retry[s])]
    /\ passed' = FALSE
    /\ UNCHANGED <<plan, stage, topology, wanted, parentUp>>

----------------------------------------------------------------------------
HpInit ==
    /\ plan = NoPlan
    /\ stage = "off"
    /\ input = NoFileYet
    /\ topology = FALSE
    /\ payload = EmptySnapshot
    /\ stored = [there |-> FALSE, content |-> EmptySnapshot]
    /\ timers = FirstSchedule
    /\ retry = NoRetry
    /\ wanted = {}
    /\ passed = FALSE
    /\ parentUp = TRUE

HpNext ==
    \/ Launch \/ PublishLifecycle \/ FirstRefresh \/ LoopPass
    \/ HelperDies \/ ParentDies \/ GatewayWrites \/ TickPasses

----------------------------------------------------------------------------
\* Shape of the state: the type invariant of this component.
HpTypeOK ==
    /\ stage \in {"off", "starting", "initializing", "first", "running"}
    /\ input.fields \in [HpFields -> Measurements]
    /\ payload.state \in {"starting", "initializing", "running"}
    /\ \A s \in {payload.pv, payload.gateway, payload.battery, payload.grid} :
          s.ok => s.age \in 0 .. HpCap
    /\ \A d \in Deadlines : timers[d] \in Nat
    /\ \A s \in Scopes_ : retry[s] \in 0 .. RetryGap
    /\ wanted \subseteq Scopes_

\* A snapshot file whose heartbeat is young is never carrying an old value:
\* whatever the heartbeats between two refreshes, failed writes, a gateway
\* file that stops changing or a restart of the helper, a value shown as good
\* was, when the heartbeat was stamped, not older than its allowed age and
\* the time until its next refresh (runtime.rs tick, snapshot.rs apply and
\* heartbeat).
AliveIsRecent ==
    LET p == stored.content
    IN  stored.there /\ p.heartbeat < BeatTicks =>
          /\ p.pv.ok => p.pv.age < AllowedAge + PvTicks + HpPollTicks + p.heartbeat
          /\ p.grid.ok => p.grid.age < BackupAge + GridTicks + HpPollTicks + p.heartbeat
          /\ p.battery.ok => p.battery.age < AllowedAge + BatteryTicks + HpPollTicks + p.heartbeat
=============================================================================
