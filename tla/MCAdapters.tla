----------------------------- MODULE MCAdapters -----------------------------
(***************************************************************************)
(* The programs around the service for TLC: the native D-Bus adapter and   *)
(* its reader, the native auto-input helper and its energy sources, and    *)
(* the charger's I/O worker, one component per behaviour.                  *)
(***************************************************************************)
EXTENDS NativeAdapter, NativeReader, NativeHelper, NativeSources, ChargerIo

VARIABLE part    \* the component this behaviour is about; the others stand still

\* A command of every kind the native adapter knows (of the two relay commands
\* the one that switches off), and an unknown one.
Wish(k, p, priority, deadline) == [kind |-> k, path |-> p, priority |-> priority, deadline |-> deadline]
MCNaWishes ==
    {Wish("gx_relay_off", "relay", "safety", FALSE),
     Wish("gx_relay_refresh", "refresh", "read", TRUE), Wish("ess_grid_setpoint", "ess", "normal", TRUE),
     Wish("disable_matching_generic_shelly_once", "shelly", "normal", FALSE),
     Wish("register_evcs", "evcs", "safety", FALSE), Wish("publish_evcs_fields", "evcs", "publish", TRUE),
     Wish("publish_companion_fields", "comp", "publish", FALSE),
     Wish("introspect", "introspect", "discovery", FALSE),
     Wish("refresh_energy_inputs", "energy", "read", FALSE), Wish("odd", "odd", "diagnostic", FALSE)}
MCNaBudget ==
    [class \in {"startup/register", "gui-critical-publish", "local-publish", "remote-write",
                "read-fast", "introspection", "diagnostic"} |-> 1]

\* Two measurements, one service each.
MCInterval == [k \in {"pv", "soc"} |-> 1]
MCOrder == <<"pv", "soc">>
MCAc == <<"ac">>
MCBat == <<"bat">>


\* Snapshots the gateway may offer, and what the energy sources may add.
Measured_(s, sure, age) == [status |-> s, sure |-> sure, age |-> age]
MCOffers ==
    {[f \in HpFields |-> Measured_("fresh", TRUE, 0)],
     [f \in HpFields |-> Measured_("error", TRUE, 0)],
     [f \in HpFields |-> IF f = "soc" THEN Measured_("outside", TRUE, 0) ELSE Measured_("stale", FALSE, 1)]}
MCViews ==
    {[pv |-> Measured_("error", FALSE, 0), battery |-> [ok |-> FALSE, age |-> 0]],
     [pv |-> Measured_("stale", TRUE, 1), battery |-> [ok |-> TRUE, age |-> 1]]}

\* Retry delays of the Shelly line.
MCDelays == [timeout |-> 1, error |-> 1]

\* The gateway and a source that observe the same battery, with equal priority,
\* and a source with a battery of its own, over four kinds of connector.
MCConn == {<<"serial", "http">>, <<"opendtu", "command">>}
MCParts == <<2, 1>>
MCPhysical == [i \in 0 .. 2 |-> IF i = 2 THEN 0 ELSE 1]
MCPriority == [i \in 0 .. 2 |-> 0]
MCIds == [i \in 0 .. 2 |-> 2 - i]
Watts(n) == [has |-> TRUE, w |-> n]
Answered(soc, pv, grid, sure) ==
    [online |-> TRUE, soc |-> soc, capacity |-> TRUE, pv |-> pv, other |-> FALSE, grid |-> grid, sure |-> sure]
MCAnswers ==
    {Answered(TRUE, TRUE, Watts(0), TRUE),
     [online |-> FALSE, soc |-> FALSE, capacity |-> FALSE, pv |-> FALSE, other |-> FALSE,
      grid |-> NoPower, sure |-> FALSE]}
GatewayIdle ==
    [soc |-> FALSE, wh |-> FALSE, ah |-> FALSE, lfp |-> FALSE, configured |-> FALSE, grid |-> NoPower, age |-> 0]
MCGateways ==
    {GatewayIdle, [GatewayIdle EXCEPT !.soc = TRUE, !.ah = TRUE, !.lfp = TRUE, !.grid = Watts(3)]}

Parts == {"adapter", "reader", "helper", "sources", "io"}

BundleInit ==
    /\ part \in Parts
    /\ NaInit
    /\ part # "adapter" => registry.registered
    /\ NrInit
    /\ HpInit
    /\ NsInit
    /\ part # "sources" => kinds = <<"serial", "http">> /\ gate = GatewayIdle
    /\ IoInit
    /\ part # "io" => rig.kind = "native"

bundleVars == <<part, naVars, nrVars, hpVars, nsVars, ioVars>>

Others(own) ==
    /\ part' = part
    /\ own # "adapter" => UNCHANGED naVars
    /\ own # "reader" => UNCHANGED nrVars
    /\ own # "helper" => UNCHANGED hpVars
    /\ own # "sources" => UNCHANGED nsVars
    /\ own # "io" => UNCHANGED ioVars

BundleNext ==
    \/ part = "adapter" /\ NaNext /\ Others("adapter")
    \/ part = "reader" /\ NrNext /\ Others("reader")
    \/ part = "helper" /\ HpNext /\ Others("helper")
    \/ part = "sources" /\ NsNext /\ Others("sources")
    \/ part = "io" /\ IoNext /\ Others("io")

\* Two charger commands under way at once (a worker replaced as stale while it
\* writes) are not followed further: their order at the charger is arbitrary.
NotCrossed == part = "io" => ~crossed /\ (UsesCharger => crew.abandoned = Resting)

(* Each component's own invariant: its type invariant, and                   *)
(*  - AliveIsRecent: a snapshot the helper calls alive is as recent as its   *)
(*    heartbeat;                                                             *)
(*  - OnePass: what a source reports was read in one pass over its parts;    *)
(*  - SocDated: the combined state of charge is as old as its oldest part,   *)
(*    up to observers of one battery that are equally good.                  *)
AdaptersInv ==
    CASE part = "adapter" -> NaTypeOK
      [] part = "reader" -> NrTypeOK
      [] part = "helper" -> HpTypeOK /\ AliveIsRecent
      [] part = "sources" -> NsTypeOK /\ OnePass /\ SocDated
      [] part = "io" -> IoTypeOK
=============================================================================
