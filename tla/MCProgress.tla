----------------------------- MODULE MCProgress -----------------------------
(***************************************************************************)
(* What must eventually happen, for TLC: the publication lanes across a    *)
(* restart, the gateway's tick, the auto-input helper's supervisor and the *)
(* control write, one component per behaviour and each under its own       *)
(* fairness.                                                               *)
(***************************************************************************)
EXTENDS PublicationLanes, GatewayTick, AutoInput, ControlWrite

VARIABLE part    \* the component this behaviour is about; the others stand still

\* One command of each queue class; read 1 is an aggregate of two members.
MCPriority ==
    [c \in Commands |-> CASE c = "u" -> "user" [] c = "r" -> "read" [] c = "d" -> "diagnostic"
                          [] c = "register_evcs" -> "safety"]
MCQueueClass ==
    [c \in Commands |-> CASE c = "u" -> "remote-write" [] c = "r" -> "read-fast" [] c = "d" -> "diagnostic"
                          [] c = "register_evcs" -> "startup/register"]
MCBudget ==
    [class \in {"remote-write", "read-fast", "diagnostic", "startup/register"} |->
        IF class = "diagnostic" THEN 2 ELSE 1]

MCMembers == [k \in Reads |-> IF k = 1 THEN 2 ELSE 0]

Command_(t, v) == [target |-> t, value |-> v]
MCCommands ==
    {Command_("mode", "auto"), Command_("enable", 0), Command_("enable", 1)}

Parts == {"publication", "tick", "helper", "write"}

BundleInit ==
    /\ part \in Parts
    /\ Init
    /\ TickInit
    /\ AiInit
    /\ CwInit
    /\ part # "write" => output = 0 /\ cwWish = 0 /\ cell.mode = "manual"

bundleVars == <<part, vars, tickVars, aiVars, cwVars>>

Others(own) ==
    /\ part' = part
    /\ own # "publication" => UNCHANGED vars
    /\ own # "tick" => UNCHANGED tickVars
    /\ own # "helper" => UNCHANGED aiVars
    /\ own # "write" => UNCHANGED cwVars

BundleNext ==
    \/ part = "publication" /\ Next /\ Others("publication")
    \/ part = "tick" /\ TickNext /\ Others("tick")
    \/ part = "helper" /\ AiNext /\ Others("helper")
    \/ part = "write" /\ CwNext /\ Others("write")

\* The component that moves is fair; the others stand still by choice.
ProgressFairness ==
    \/ part = "publication" /\ Fairness
    \/ part = "tick" /\ TickFairness
    \/ part = "helper" /\ AiFairness
    \/ part = "write" /\ CwFairness

ProgressSpec == BundleInit /\ [][BundleNext]_bundleVars /\ ProgressFairness

(* Each component's own invariant: its type invariant, and                   *)
(*  - HelperVouches: input of a helper that hangs is not taken as vouched    *)
(*    for by a live one.                                                     *)
ProgressInv ==
    CASE part = "publication" -> TRUE
      [] part = "tick" -> TickTypeOK
      [] part = "helper" -> AiTypeOK /\ HelperVouches
      [] part = "write" -> CwTypeOK
=============================================================================
