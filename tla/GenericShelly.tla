---------------------------- MODULE GenericShelly ----------------------------
(***************************************************************************)
(* The one-time switch-off of a channel that Venus OS' own Shelly          *)
(* integration drives in parallel: the boot helper                         *)
(* (ops/disable_generic_shelly_once.py), the wire command                  *)
(* (ipc/generic_shelly_configuration.py), its way through the command      *)
(* mailbox and the phased executor of the Python gateway                   *)
(* (dbus_adapter/write/generic_shelly.py).                                 *)
(*                                                                         *)
(* A request names one device, by address or by MAC; the address may move  *)
(* to another device of the fleet.  The command file carries the progress  *)
(* of the search, so that each phase is one bus call of one gateway tick.  *)
(***************************************************************************)
EXTENDS Integers, Sequences, SequencesExt

CONSTANTS Fleet,        \* serials the generic integration may register
          ByAddress,    \* the target is given by its address, not by its MAC
          MaxBoots      \* bound on boots

VARIABLES lan,      \* registered devices, who answers to the target's address
                    \* and MAC, and the Enabled value of each device
          boots,    \* boots so far
          request,  \* the command file, or NoRequest
          call,     \* the bus call under way, or NoCall
          tried     \* the request in the file has been put to the bus

gsVars == <<lan, boots, request, call, tried>>

NoRequest == [rev |-> 0]
NoCall    == [owner |-> NoRequest]

(***************************************************************************)
(* The helper: settings that rule the request out, then a selector that    *)
(* prefers the address.                                                    *)
(***************************************************************************)
LoadSettings(settings) == settings.loads

PreconditionResult(settings) ==
    IF ~LoadSettings(settings) THEN "error"
    ELSE IF ~settings.enabled THEN "disabled-by-config"
    ELSE IF ~settings.allowPersistent THEN "persistent-disable-blocked"
    ELSE IF ~settings.target THEN "no-target" ELSE "none"

(* What a boot may find in the configuration.  The target stays the same:   *)
(* the command for another one is another file.                             *)
Settings == [loads : BOOLEAN, enabled : BOOLEAN, allowPersistent : BOOLEAN,
             target : BOOLEAN]

Selector == IF ByAddress THEN "ip" ELSE "mac"

BaseFields == {"kind", "source", "selector", "channel", "execution",
               "persistence", "priority", "coalesce_key"}
TransportRequired == {"schema_version", "id", "created_at", "queue_class",
                      "lifecycle_state"}
TransportOptional == {"updated_at"}
ProgressFields    == {"phase", "devices", "cursor", "matched_device"}

(* command_queue_class of the kind, and the class its own parser expects. *)
PolicyQueueClass == "configuration"
WireQueueClass   == "remote-write"

(***************************************************************************)
(* What FileCommandMailbox.enqueue leaves in the file.                     *)
(***************************************************************************)
NewRequest ==
    [rev        |-> boots + 1,
     selector   |-> Selector,
     fields     |-> BaseFields \cup TransportRequired \cup {"mailbox_revision"},
     queueClass |-> PolicyQueueClass,
     phase      |-> "discover",
     devices    |-> <<>>,
     cursor     |-> 0,
     matched    |-> "none"]

ValidFieldSet(fields) ==
    LET transport == fields \ BaseFields
    IN  IF transport = {} THEN fields = BaseFields
        ELSE /\ BaseFields \cup TransportRequired \subseteq fields
             /\ transport \subseteq TransportRequired \cup TransportOptional

ValidTransport(command) ==
    "schema_version" \in command.fields => command.queueClass = WireQueueClass

(* _operation: the envelope without the executor's own progress. *)
Operation(command) ==
    /\ ValidFieldSet(command.fields \ ProgressFields)
    /\ ValidTransport(command)

(***************************************************************************)
(* Outcomes.  The file is rewritten or retired only if it still holds the  *)
(* generation the execution began with.                                    *)
(***************************************************************************)
Rewrite(command, next) ==
    request' = IF request.rev = command.rev
               THEN [next EXCEPT !.fields = @ \cup ProgressFields]
               ELSE request

Retire(command) ==
    request' = IF request.rev = command.rev THEN NoRequest ELSE request

Defer == UNCHANGED request

IdentityMatches(selector, device) ==
    device = (IF selector = "ip" THEN lan.address ELSE lan.mac)

Identified(command, device) ==
    Rewrite(command, [command EXCEPT !.phase = "enabled", !.matched = device])

Discovered(command) ==
    IF lan.devices = <<>> THEN Retire(command)
    ELSE Rewrite(command, [command EXCEPT !.phase = "identify",
                                          !.devices = lan.devices,
                                          !.cursor = 0])

IdentityAnswered(command, device) ==
    IF IdentityMatches(command.selector, device)
    THEN Identified(command, device)
    ELSE Rewrite(command, [command EXCEPT !.cursor = @ + 1])

EnabledAnswered(command) ==
    IF lan.enabled[command.matched] = "on"
    THEN Rewrite(command, [command EXCEPT !.phase = "disable"])
    ELSE Retire(command)

(***************************************************************************)
(* schedule: a command that does not parse, or has nothing to ask, ends at *)
(* once; the others put one call to the bus.                               *)
(***************************************************************************)
Device(command) == command.devices[command.cursor + 1]

EndsAtOnce(command) ==
    \/ ~Operation(command)
    \/ command.phase = "identify" /\ command.cursor >= Len(command.devices)
    \/ command.phase \in {"enabled", "disable"} /\ command.matched = "none"

SerialMatches(command) ==
    /\ command.phase = "identify"
    /\ command.selector = "mac"
    /\ lan.serialIsMac /\ Device(command) = lan.mac

Schedule ==
    /\ request # NoRequest /\ call = NoCall
    /\ \/ EndsAtOnce(request) /\ Retire(request) /\ UNCHANGED <<call, tried>>
       \/ /\ ~EndsAtOnce(request) /\ SerialMatches(request)
          /\ Identified(request, Device(request))
          /\ UNCHANGED <<call, tried>>
       \/ /\ ~EndsAtOnce(request) /\ ~SerialMatches(request)
          /\ call' = [owner |-> request]
          /\ tried' = TRUE
          /\ UNCHANGED request
    /\ UNCHANGED <<lan, boots>>

(* The answer of the call under way, applied to the file as it is by then. *)
Answer_ ==
    /\ call # NoCall
    /\ LET command == call.owner IN
         CASE command.phase = "discover" -> Discovered(command) /\ UNCHANGED lan
           [] command.phase = "identify" ->
                IdentityAnswered(command, Device(command)) /\ UNCHANGED lan
           [] command.phase = "enabled" ->
                EnabledAnswered(command) /\ UNCHANGED lan
           [] command.phase = "disable" ->
                /\ Retire(command)
                /\ lan' = [lan EXCEPT !.enabled[command.matched] = "off"]
    /\ call' = NoCall
    /\ UNCHANGED <<boots, tried>>

CallFails ==
    /\ call # NoCall
    /\ call' = NoCall
    /\ Defer
    /\ UNCHANGED <<lan, boots, tried>>

(***************************************************************************)
(* run_once after a boot: the same request coalesces with one that waits,  *)
(* under a new revision and with a search that starts again.               *)
(***************************************************************************)
RunOnce ==
    /\ boots < MaxBoots
    /\ boots' = boots + 1
    /\ \E settings \in Settings :
         IF PreconditionResult(settings) = "none"
         THEN request' = NewRequest /\ tried' = FALSE
         ELSE UNCHANGED <<request, tried>>
    /\ UNCHANGED <<lan, call>>

(* The router gives the target's address to another device. *)
AddressMoves ==
    /\ \E device \in Fleet : lan' = [lan EXCEPT !.address = device]
    /\ UNCHANGED <<boots, request, call, tried>>

GsInit ==
    /\ lan \in [devices : {<<>>, SetToSeq(Fleet)}, address : Fleet, mac : Fleet,
                serialIsMac : BOOLEAN,
                enabled : [Fleet -> {"on", "off", "other"}]]
    /\ boots = 0 /\ request = NoRequest /\ call = NoCall /\ tried = FALSE

GsNext == Schedule \/ Answer_ \/ CallFails \/ RunOnce \/ AddressMoves

(***************************************************************************)
(* default.ini:853: if enabled, the helper will try to disable the         *)
(* parallel device.  A request that the mailbox accepted does not leave it *)
(* before the gateway has put a question about it to the bus.              *)
(***************************************************************************)
RequestTried == [][request # NoRequest /\ request' = NoRequest => tried]_gsVars
=============================================================================
