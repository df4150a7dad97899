----------------------------- MODULE MCGateway -----------------------------
(***************************************************************************)
(* The gateway for TLC: a GX relay, its health (Python and native) and PV  *)
(* sources, the observer of its incidents, the updater and the service's   *)
(* side of it, and the battery capacity estimate, one component per        *)
(* behaviour.  The components share no variable; part names the one that   *)
(* moves.                                                                  *)
(***************************************************************************)
EXTENDS GxRelayLane, GatewayHealth, PvSources, NativeHealth,
        ForensicObserver, BootUpdater, SoftwareUpdate, CapacityEstimate

VARIABLE part    \* the component this behaviour is about; the others stand still

\* GX relay: three commands, of which the newest may have expired.
MCRevisions == 1 .. MaxRequests
MCRanks == {Safety, User}
MCTimes == {Late, Fresh}
MCValues == Progress

\* Pressure samples (-1: the metric is not known), SLO readings, demands.
MCSamples ==
    {[load |-> 0, cpu |-> 0], [load |-> 4, cpu |-> 0], [load |-> -1, cpu |-> 1], [load |-> 3, cpu |-> 0],
     [load |-> 0, cpu |-> 4]}
MCLevels ==
    {[violated |-> {}, queue |-> 0], [violated |-> {"core_reads_fresh"}, queue |-> 0],
     [violated |-> {"mainloop_gap_ok"}, queue |-> 2]}
MCDemands ==
    {[reads |-> 0, queue |-> 0, age |-> 0, p95 |-> 1], [reads |-> 1, queue |-> 2, age |-> 10, p95 |-> 2]}

NhSample(l, c, m) == [load |-> l, cpu |-> c, memory |-> m]
MCNhSamples == {NhSample(0, 0, 0), NhSample(4, 0, 0), NhSample(2, 4, 1), NhSample(1, 1, -1)}
NhReading(queue) ==
    [gui |-> 0, guiMax |-> 2, missing |-> 0, core |-> 0, coreMax |-> 1, nonfresh |-> 0,
     queue |-> queue, queueMax |-> 1, gap |-> 0, gapMax |-> 1]
MCNhSlo == {NhReading(0), NhReading(3)}
NhDemand(reads, p95) ==
    [reads |-> reads, queue |-> 0, p95 |-> p95, readDeadline |-> 500, readAge |-> 300,
     queueDeadline |-> 1000, queueAge |-> 1000]
MCNhDemands == {NhDemand(0, 0), NhDemand(2, 40)}

\* What the observer may see: a calm gateway, and each reason for an incident.
MCTrigger == [at |-> 1, until |-> 2, timeouts |-> 1]
SampleOf(st) ==
    [status |-> st, hasValue |-> st = "fresh", changed |-> IF st = "fresh" THEN 1 ELSE 0,
     confirmed |-> 1, applicability |-> Applicability(st), reason |-> IF st = "fresh" THEN "" ELSE "r"]
Gateway(state, power) ==
    [version |-> 5,
     health |-> [state |-> state, average |-> 1, maximum |-> 2,
                 active |-> IF state = "protective" THEN {MCTrigger} ELSE {}, last |-> {MCTrigger},
                 resource |-> "ok", cause |-> IF state = "protective" THEN "timeouts" ELSE "",
                 evidence |-> {}],
     discovery |-> [enabled |-> TRUE, state |-> "idle", discovered |-> 1, unusable |-> 0, dormant |-> 1,
                    sources |-> {[source |-> "pv", availability |-> "dormant", reason |-> "night"]}],
     publication |-> [registered |-> TRUE, heartbeat |-> 1],
     samples |-> [n \in CriticalFields |-> SampleOf(IF n = "ac_power_w" THEN power ELSE "fresh")]]
Calm == Gateway("ok", "fresh")
Sees(g, s, m) == [gateway |-> g, svstat |-> s, markers |-> m]
MCSights ==
    {Sees(Calm, "up", {}), Sees(Gateway("protective", "fresh"), "up", {}),
     Sees(Gateway("ok", "error"), "down", {}),
     Sees([Calm EXCEPT !.health.average = 3, !.health.state = "unavailable"], "up", {}),
     Sees([Calm EXCEPT !.health.evidence =
             {[active |-> FALSE, at |-> 1, causes |-> {"cpu"}, metrics |-> {"cpu"}]}],
          "failed", {"Traceback"})}

Parts == {"relay", "health", "pv", "native_health", "observer", "updater",
          "update_client", "capacity"}

BundleInit ==
    /\ part \in Parts
    /\ Init
    /\ part # "relay" => relay = Idle /\ manual = [t \in Targets |-> FALSE]
    /\ HealthInit
    /\ PvInit
    /\ part # "pv" => ~configured
    /\ NhInit
    /\ ObsInit
    /\ BootInit
    /\ part # "updater" => target = NoTree /\ current = NoName
    /\ SwInit
    /\ part # "update_client" => ~marker /\ ~script /\ bootDue = NotDue
    /\ CeInit
    /\ part # "capacity" => ini.estimate = 0 /\ ~ini.explicit

bundleVars == <<part, vars, healthVars, pvVars, nhVars, obsVars, bootVars,
                 swVars, ceVars>>

Others(own) ==
    /\ part' = part
    /\ own # "relay" => UNCHANGED vars
    /\ own # "health" => UNCHANGED healthVars
    /\ own # "pv" => UNCHANGED pvVars
    /\ own # "native_health" => UNCHANGED nhVars
    /\ own # "observer" => UNCHANGED obsVars
    /\ own # "updater" => UNCHANGED bootVars
    /\ own # "update_client" => UNCHANGED swVars
    /\ own # "capacity" => UNCHANGED ceVars

BundleNext ==
    \/ part = "relay" /\ Next /\ Others("relay")
    \/ part = "health" /\ HealthNext /\ Others("health")
    \/ part = "pv" /\ PvNext /\ Others("pv")
    \/ part = "native_health" /\ NhNext /\ Others("native_health")
    \/ part = "observer" /\ ObsNext /\ Others("observer")
    \/ part = "updater" /\ BootNext /\ Others("updater")
    \/ part = "update_client" /\ SwNext /\ Others("update_client")
    \/ part = "capacity" /\ CeNext /\ Others("capacity")

\* An updater whose lock was taken over (see OneUpdater) is not followed further.
LockKept == part = "updater" => ~stolen

(* Each component's own invariant: its type invariant, and                   *)
(*  - RelayInv: the GX relay's inductive invariant;                        *)
(*  - the two health models' and the capacity estimate's bound their      *)
(*    latches, windows and counters;                                      *)
(*  - HealthFollows: captured evidence belongs to the episode under way,  *)
(*    and a recovery is no older than the calm it waits for;              *)
(*  - HoldEnds: a held PV total ends with its window;                        *)
(*  - UnfinishedIsActive: an incident bundle without an end is the open      *)
(*    episode's;                                                             *)
(*  - RunningIsTrue: the update service says "running" while its installer   *)
(*    runs, and only then.                                                   *)
GatewayInv ==
    CASE part = "relay" -> RelayInv
      [] part = "health" -> HealthTypeOK /\ HealthFollows
      [] part = "pv" -> PvTypeOK /\ HoldEnds
      [] part = "native_health" -> NhTypeOK
      [] part = "observer" -> ObsTypeOK /\ UnfinishedIsActive
      [] part = "updater" -> BootTypeOK
      [] part = "update_client" -> SwTypeOK /\ RunningIsTrue
      [] part = "capacity" -> CeTypeOK

(* What no step may do: leave a state of pressure before the calm it asks    *)
(* for has lasted (RecoveryNeedsCalm), trip the native breaker on fewer      *)
(* timeouts than its window counts (TripEarned), change the PV topology      *)
(* under an unchanged generation (GenerationTellsTopology), or write a       *)
(* battery capacity that was not estimated often enough in a row             *)
(* (PersistEarned).                                                          *)
GatewaySteps ==
    /\ RecoveryNeedsCalm
    /\ TripEarned
    /\ GenerationTellsTopology
    /\ PersistEarned
=============================================================================
