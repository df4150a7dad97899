----------------------------- MODULE MCService -----------------------------
(***************************************************************************)
(* The charging service for TLC: the automatic decision, the ESS balance,  *)
(* the learned charge power, the health of a cycle, the schedule, control  *)
(* writes, the persisted state, the energy sources and what is learned     *)
(* from them, and the control API, one component per behaviour.            *)
(***************************************************************************)
EXTENDS AutoDecision, EssBalance, LearnedPower, CycleHealth, ScheduledMode,
        ControlWrite, RuntimeState, EnergySources, NativeLearning,
        ControlApi

VARIABLE part    \* the component this behaviour is about; the others stand still

\* Automatic decision: a sunny reading, and what may differ from it.
Sunny ==
    [pv |-> 4, grid |-> -4, soc |-> 6, day |-> TRUE, night |-> FALSE, confirmed |-> TRUE,
     charge |-> 0, load |-> 2, unbalance |-> 0, learned |-> "unknown"]
MCAutoReadings ==
    {Sunny, [Sunny EXCEPT !.pv = None], [Sunny EXCEPT !.grid = None], [Sunny EXCEPT !.soc = None],
     [Sunny EXCEPT !.grid = 4, !.charge = 4, !.unbalance = 3],
     [Sunny EXCEPT !.soc = 1, !.learned = "stable"],
     [Sunny EXCEPT !.day = FALSE, !.night = TRUE, !.confirmed = FALSE]}
MCPolicy ==
    [minSoc |-> 2, resumeSoc |-> 3, releaseSoc |-> 4, prioritySoc |-> 5, highRelease |-> 5, highSoc |-> 5,
     normal |-> [start |-> 3, stop |-> 1], high |-> [start |-> 2, stop |-> 1], recovery |-> 2,
     surplusDelay |-> 1,
     alpha |-> [base |-> 2, stable |-> 4, volatile |-> 1, low |-> 1, high |-> 3],
     scale |-> 2, penalty |-> 1, unbalance |-> 1, stopImport |-> 3, startImport |-> 1]

\* ESS balance: batteries apart in either direction, and what stops the bias.
Apart ==
    [auto |-> TRUE, sources |-> 2, source |-> "online", supported |-> TRUE, error |-> 2, clean |-> TRUE,
     regime |-> "export", reserve |-> "above", accepted |-> TRUE]
MCSights ==
    {Apart, [Apart EXCEPT !.error = -2], [Apart EXCEPT !.accepted = FALSE, !.clean = FALSE],
     [Apart EXCEPT !.auto = FALSE], [Apart EXCEPT !.regime = "import", !.error = -2],
     [Apart EXCEPT !.source = "offline", !.accepted = FALSE]}

\* Learned power: a steady charge, noise, out-of-range values, and its end.
Charging_ == [on |-> TRUE, charging |-> TRUE, power |-> 10, volt |-> 23, confirmed |-> TRUE]
MCMeters ==
    {Charging_, [Charging_ EXCEPT !.power = 11], [Charging_ EXCEPT !.power = 15, !.volt = 0],
     [Charging_ EXCEPT !.power = 2], [Charging_ EXCEPT !.power = 30], [Charging_ EXCEPT !.volt = 29],
     [Charging_ EXCEPT !.confirmed = FALSE], [Charging_ EXCEPT !.charging = FALSE, !.power = 0],
     [Charging_ EXCEPT !.on = FALSE, !.charging = FALSE, !.power = 0]}

\* Cycle health: agreement, and every disagreement of meter, charger and switch.
MeterOn == [on |-> TRUE, load |-> TRUE, age |-> 0]
MeterOff == [on |-> FALSE, load |-> FALSE, age |-> 0]
Charger(text, enabled) == [load |-> FALSE, text |-> text, enabled |-> enabled]
Learned_(stale) == [power |-> 6, volt |-> 1, phases |-> 3, stale |-> stale]
Agree ==
    [meter |-> MeterOn, charger |-> ChNone, switch |-> ChNone, desire |-> TRUE, auto |-> TRUE,
     night |-> FALSE, learned |-> ChNone, set |-> 1, write |-> "ok"]
MCChReadings ==
    {Agree, [Agree EXCEPT !.meter = MeterOff], [Agree EXCEPT !.meter = ChNone],
     [Agree EXCEPT !.meter = [MeterOn EXCEPT !.age = 3]],
     [Agree EXCEPT !.meter = [MeterOn EXCEPT !.load = FALSE], !.charger = Charger("charging", ChNone)],
     [Agree EXCEPT !.meter = [MeterOff EXCEPT !.load = TRUE], !.desire = FALSE],
     [Agree EXCEPT !.meter = MeterOff, !.write = "issue", !.set = 9],
     [Agree EXCEPT !.night = TRUE], [Agree EXCEPT !.learned = Learned_(FALSE)],
     [Agree EXCEPT !.learned = Learned_(TRUE), !.set = ChNone],
     [Agree EXCEPT !.meter = MeterOff, !.write = "error"],
     [Agree EXCEPT !.switch = [interlock |-> FALSE, closed |-> TRUE]],
     [Agree EXCEPT !.switch = [interlock |-> TRUE, closed |-> FALSE], !.auto = FALSE],
     [Agree EXCEPT !.charger = Charger("fault", ChNone)],
     [Agree EXCEPT !.charger = Charger("finished", FALSE), !.desire = FALSE],
     [Agree EXCEPT !.charger = Charger("waiting", TRUE), !.auto = FALSE]}

\* Schedule: windows inside a day, nested either way, and one that ends before it starts.
Window(a, b) == [start |-> a, end |-> b]
MCWindows ==
    {<<Window(2, 5), Window(2, 5)>>, <<Window(2, 4), Window(1, 5)>>, <<Window(1, 5), Window(3, 4)>>,
     <<Window(2, 5), Window(5, 2)>>}
Day(n) == [kind |-> "day", first |-> n]
DayRange(a, b) == [kind |-> "range", first |-> a, last |-> b]
MCSettings ==
    {<<>>, <<[kind |-> "all"]>>, <<Day(1), Day(3)>>, <<DayRange(5, 1)>>, <<DayRange(2, 3), Day(6)>>,
     <<[kind |-> "other"]>>, <<[kind |-> "weekend"]>>}

\* Energy: an inverter with an odd SOC, a DTU that answers, and one with radio trouble.
MCSteps == <<1, 2>>
Inverter ==
    [kind |-> "modbus", online |-> TRUE, soc |-> 11, power |-> 1, pv |-> 2, grid |-> 1, capacity |-> Absent,
     configured |-> 3, physical |-> "p", priority |-> 1, scope |-> "s", trusted |-> TRUE]
Micro(up, dc) == [reachable |-> up, fresh |-> up, producing |-> up, dc |-> dc]
MCPayloads ==
    <<{Inverter, [Inverter EXCEPT !.grid = 5, !.trusted = FALSE], [Inverter EXCEPT !.online = FALSE]},
      {[kind |-> "opendtu", radioProblem |-> FALSE, inverters |-> {Micro(TRUE, 2), Micro(FALSE, 0)}],
       [kind |-> "opendtu", radioProblem |-> TRUE, inverters |-> {Micro(FALSE, 0)}]}>>
FromGateway ==
    [soc |-> 9, power |-> 1, capacity |-> Absent, configured |-> Absent, ah |-> 2, physical |-> "",
     pv |-> 3, grid |-> 1, age |-> 0]
MCGatewayInputs ==
    {FromGateway, [FromGateway EXCEPT !.grid = 4, !.soc = Absent], [FromGateway EXCEPT !.age = 9]}

\* Learning: a battery that charges while importing, discharges while exporting.
Importing == [net |-> 4, ac |-> 0, grid |-> 3, soc |-> 5, limit |-> NotKnown, capacity |-> 2]
MCObserved == {Importing, [Importing EXCEPT !.net = -3, !.grid = -3, !.limit = 4, !.soc = 4]}
MCPeriods == {<<"night", "day">>}

\* Control API: two keys, a conditional write, an update and a remote caller.
Command_(n, t, v, e) == [name |-> n, target |-> t, value |-> [type |-> "int", n |-> v], effect |-> e]
Post_(h, b, x, k, y) == [host |-> h, bearer |-> b, expects |-> x, key |-> k, body |-> y]
MCPosts ==
    {Post_("loopback", "c", "", 1, Command_("set_mode", "", 1, "s1")),
     Post_("loopback", "c", "s0", 2, Command_("set_mode", "", 1, "s1")),
     Post_("loopback", "u", "", 1,
           Command_("trigger_software_update", "auto_software_update_run", 1, NoEffect)),
     Post_("remote", "u", "", NoKey, Command_("set_auto_runtime_setting", "auto_min_soc", 101, "s1"))}
MCTokenSets == {[auth |-> "", read |-> "r", control |-> "c", admin |-> "", update |-> "u"]}

\* Control writes of every target.
Write_(t, v) == [target |-> t, value |-> v]
MCCommands ==
    {Write_("mode", "auto"), Write_("enable", 0), Write_("enable", 1), Write_("phase_selection", "P3"),
     Write_("setting", 0), Write_("setting", 1), Write_("set_current", 1)}

MCSites == [source : {"s1", "s2"}, energy : {"e1"}] \cup {[source |-> "s1", energy |-> "e2"]}

Parts == {"auto", "ess", "power", "cycle", "schedule", "write", "state",
          "energy", "learning", "api"}

BundleInit ==
    /\ part \in Parts
    /\ AutoInit
    /\ EssInit
    /\ LpInit
    /\ part # "power" => lpPhase = "L1"
    /\ ChInit
    /\ part # "cycle" => enabler = "relay"
    /\ SmInit
    /\ part # "schedule" => 
          windows = <<Window(2, 5), Window(2, 5)>> /\ setting = <<>> /\ delay = 0 /\ latest = 0
    /\ CwInit
    /\ part # "write" => output = 0 /\ cwWish = 0 /\ cell.mode = "manual"
    /\ RsInit
    /\ part # "state" => configured = [source |-> "s1", energy |-> "e1"]
    /\ EsInit
    /\ NlInit
    /\ ApiInit
    /\ part # "api" => local

bundleVars == <<part, autoVars, essVars, lpVars, chVars, smVars, cwVars, rsVars,
                 esVars, nlVars, apiVars>>

Others(own) ==
    /\ part' = part
    /\ own # "auto" => UNCHANGED autoVars
    /\ own # "ess" => UNCHANGED essVars
    /\ own # "power" => UNCHANGED lpVars
    /\ own # "cycle" => UNCHANGED chVars
    /\ own # "schedule" => UNCHANGED smVars
    /\ own # "write" => UNCHANGED cwVars
    /\ own # "state" => UNCHANGED rsVars
    /\ own # "energy" => UNCHANGED esVars
    /\ own # "learning" => UNCHANGED nlVars
    /\ own # "api" => UNCHANGED apiVars

BundleNext ==
    \/ part = "auto" /\ AutoNext /\ Others("auto")
    \/ part = "ess" /\ EssNext /\ Others("ess")
    \/ part = "power" /\ LpNext /\ Others("power")
    \/ part = "cycle" /\ ChNext /\ Others("cycle")
    \/ part = "schedule" /\ SmNext /\ Others("schedule")
    \/ part = "write" /\ CwNext /\ Others("write")
    \/ part = "state" /\ RsNext /\ Others("state")
    \/ part = "energy" /\ EsNext /\ Others("energy")
    \/ part = "learning" /\ NlNext /\ Others("learning")
    \/ part = "api" /\ ApiNext /\ Others("api")

(* Each component's own invariant: its type invariant, and                   *)
(*  - DelaysHeld: a delay of the automatic decision is never older than its  *)
(*    cause;                                                                 *)
(*  - StableIsBacked: a stable charge power rests on enough samples;         *)
(*  - LockoutHolds: a latched fault keeps the contactor open;                *)
(*  - BoostIsTheNight: the night boost is given in the configured nights;    *)
(*  - SettingReachesDisk: a setting that was accepted is on disk once no     *)
(*    write of it is pending;                                                *)
(*  - NothingLost, LearnedAmongThese: what the service remembers is on disk  *)
(*    once it was saved, and learning is restored only for energy sources it *)
(*    was learned with;                                                      *)
(*  - NoSourceStarves: a source that is due is read before another is read   *)
(*    twice;                                                                 *)
(*  - AnswersKept: an answered key is in the store and in its mirror until   *)
(*    it is evicted;                                                         *)
(*  - LearnedWithinObserved, NativeHeadroomAgrees: averages stay within what *)
(*    was observed, and both implementations see the same headroom.          *)
ServiceInv ==
    CASE part = "auto" -> AutoTypeOK /\ DelaysHeld
      [] part = "ess" -> EssTypeOK
      [] part = "power" -> LpTypeOK /\ StableIsBacked
      [] part = "cycle" -> ChTypeOK /\ LockoutHolds
      [] part = "schedule" -> SmTypeOK /\ BoostIsTheNight
      [] part = "write" -> CwTypeOK /\ SettingReachesDisk
      [] part = "state" -> RsTypeOK /\ NothingLost /\ LearnedAmongThese
      [] part = "energy" -> EsTypeOK /\ NoSourceStarves
      [] part = "learning" -> LearnedWithinObserved /\ NativeHeadroomAgrees
      [] part = "api" -> ApiTypeOK /\ AnswersKept
=============================================================================
