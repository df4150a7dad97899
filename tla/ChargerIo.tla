------------------------------ MODULE ChargerIo ------------------------------
(***************************************************************************)
(* The background I/O worker with the backends it drives: a switch group   *)
(* of single-phase relays, the template, go-e, SimpleEVSE, SmartEVSE and   *)
(* generic Modbus chargers.  The main thread queues relay commands, sets   *)
(* the charger directly and selects phases; the worker takes the pending   *)
(* command, writes the devices one request after another, reads them back  *)
(* and publishes a snapshot.  A worker whose snapshot has grown too old is *)
(* abandoned and replaced while its last request may still be under way.   *)
(***************************************************************************)
EXTENDS Integers, FiniteSetsExt

CONSTANTS
    Kinds_,         \* the kinds of backend configured
    GroupSize,      \* relays a switch group may have (P1, P2, P3)
    HalfAmps,       \* charging currents the controller asks for, in half amperes
    LowestSetting,  \* smallest setting a native charger accepts
    HighestSetting, \* largest setting it accepts
    DefaultSetting, \* EnableDefaultCurrentAmps
    SoftFail,       \* auto_shelly_soft_fail_seconds
    Delays,         \* least retry delay of each Shelly failure reason
    DoublingCap,    \* largest exponent of the doubling retry delay
    ChargerRetry,   \* retry delay after a charger transport failure
    StaleAfter,     \* worker snapshot age after which the worker is replaced
    Nothing         \* Python's None

ASSUME IoAssumption ==
    /\ GroupSize \in 1..3
    /\ HalfAmps \subseteq Nat \ {0}        \* a target that is not above zero is not asked for
    /\ Nothing \notin BOOLEAN
    /\ {LowestSetting, HighestSetting, DefaultSetting} \subseteq Nat \ {0}
    /\ {SoftFail, DoublingCap, ChargerRetry, StaleAfter} \subseteq Nat
    /\ \A reason \in DOMAIN Delays : Delays[reason] \in Nat \ {0}

VARIABLES
    rig,         \* the configured backends (fixed)
    ioDevice,      \* relays closed, charger on, its current and phases
    adapter,     \* what the backend object remembers of its device
    ioPending,     \* _pending_relay_state
    crew,        \* the worker threads: the current one and an abandoned one
    shellyLine,  \* retry window, consecutive errors and state of the relay side
    chargerLine, \* retry window of the charger
    readback,    \* the charger state kept for the main thread, and its age
    ioView,        \* the worker snapshot; its age counts while a pass is under way
    askedFor,    \* history: the relay state asked for last
    crossed      \* history: two commands have been under way at once

ioVars == <<rig, ioDevice, adapter, ioPending, crew, shellyLine, chargerLine,
            readback, ioView, askedFor, crossed>>

-----------------------------------------------------------------------------
(* Configurations the loaders accept                                       *)

IoSelections == 1..GroupSize

\* Selection k closes the relays of the phases 1..k.
LabelsOf(selection) == 1..selection

\* P1 is required, and P2 when there is a P3: the members are 1..n.
ValidMembers(members) == 1 \in members /\ (3 \in members => 2 \in members)

Available(members) == {k \in IoSelections : LabelsOf(k) \subseteq members}

SupportedBy(requested, members) ==
    requested # {} /\ requested \subseteq Available(members) /\ 1 \in requested

\* A group pauses charging for a phase change as soon as one member needs it.
GroupPauses(needy) == needy # {}

GroupRigs ==
    UNION {{[kind |-> "group", size |-> Max(members), supported |-> requested,
             pauses |-> GroupPauses(needy), reports |-> {}, phaseRequest |-> TRUE] :
                requested \in {k \in SUBSET IoSelections : SupportedBy(k, members)},
                needy \in {{}, {1}}} :
             members \in {m \in SUBSET IoSelections : ValidMembers(m)}}

\* A template charger with several phases needs a phase request.
TemplateRigs ==
    {[kind |-> "template", size |-> 1, supported |-> 1..phases, pauses |-> TRUE,
      reports |-> reports, phaseRequest |-> phases > 1] :
        phases \in {1, GroupSize}, reports \in {{}, {"enabled", "amps"}}}

\* The native chargers have one phase and report everything they hold.
NativeRigs ==
    {[kind |-> "native", size |-> 1, supported |-> {1}, pauses |-> TRUE,
      reports |-> {"enabled", "amps", "phase"}, phaseRequest |-> FALSE]}

\* A generic profile has an enable register, or enables by its current.
ModbusRigs ==
    {[kind |-> kind, size |-> 1, supported |-> {1}, pauses |-> TRUE,
      reports |-> reports, phaseRequest |-> FALSE] :
        kind \in {"modbus", "modbus_current"},
        reports \in {{"amps"}, {"enabled", "amps"}}}

Rigs == {r \in GroupRigs \cup TemplateRigs \cup NativeRigs \cup ModbusRigs : r.kind \in Kinds_}

UsesCharger == rig.kind # "group"
-----------------------------------------------------------------------------
(* Backends                                                                *)

\* Native chargers round to whole amperes and refuse what is out of range.
Rounded(half) == (half + 1) \div 2

IoAccepted(half) ==
    rig.kind = "native" =>
        \/ Rounded(half) \in LowestSetting..HighestSetting
        \/ Rounded(half) = 0

\* The setting the device gets for a current, in its own unit.
Setting(half) == Rounded(half)

\* Enabling by current resumes the current remembered from before.
EnabledTarget(on) ==
    IF ~on THEN 0
    ELSE IF adapter.resume # 0 THEN adapter.resume
    ELSE IF adapter.amps \notin {0, Nothing} THEN adapter.amps
    ELSE DefaultSetting

DeviceEnabled(on) ==
    IF rig.kind = "modbus_current"
    THEN [ioDevice EXCEPT !.amps = EnabledTarget(on), !.on = on]
    ELSE [ioDevice EXCEPT !.on = on]

AdapterEnabled(on) ==
    IF rig.kind = "modbus_current"
    THEN [adapter EXCEPT !.enabled = on, !.amps = EnabledTarget(on),
              !.resume = IF on THEN EnabledTarget(on) ELSE @]
    ELSE [adapter EXCEPT !.enabled = on]

DeviceCurrent(half) ==
    [ioDevice EXCEPT !.amps = Setting(half),
        !.on = IF rig.kind = "modbus_current" THEN Setting(half) > 0 ELSE @]

AdapterCurrent(half) ==
    [adapter EXCEPT !.amps = Setting(half),
        !.resume = IF rig.kind = "modbus_current" /\ Setting(half) > 0 THEN Setting(half) ELSE @]

\* One group write: each member is set in turn, to its place in the selection.
MemberWritten(member, wanted) ==
    [ioDevice EXCEPT !.closed = IF member \in wanted THEN @ \cup {member} ELSE @ \ {member}]

\* The selection whose relays are closed; the selected one when none matches.
SelectionClosed(closed) ==
    LET matching == {k \in rig.supported : LabelsOf(k) = closed}
    IN  IF matching = {} THEN adapter.selected ELSE Max(matching)

\* The charger state read: what the device reports, else what is cached.  A
\* template charger whose answer cannot be parsed reports None.
ChargerState(got, garbled) ==
    LET amps    == IF "amps" \notin rig.reports THEN adapter.amps
                   ELSE IF ~garbled THEN got.amps
                   ELSE IF rig.kind = "template" THEN Nothing ELSE adapter.amps
        enabled == IF "enabled" \in rig.reports
                   THEN IF garbled /\ rig.kind = "template" THEN Nothing ELSE got.on
                   ELSE IF adapter.enabled # Nothing \/ rig.kind # "modbus_current" \/ amps = Nothing
                   THEN adapter.enabled
                   ELSE amps > 0
    IN  [enabled |-> enabled, amps |-> amps,
         phase |-> IF "phase" \in rig.reports THEN got.phase ELSE adapter.selected]

\* What a backend remembers of the state it read.
AdapterRead(state) ==
    IF rig.kind = "native" THEN [adapter EXCEPT !.selected = state.phase]
    ELSE [adapter EXCEPT !.enabled = state.enabled, !.amps = state.amps, !.selected = state.phase,
             !.resume = IF rig.kind = "modbus_current" /\ state.amps \notin {0, Nothing}
                        THEN state.amps ELSE @]
-----------------------------------------------------------------------------
(* Retry windows                                                           *)

Reasons_ == DOMAIN Delays

\* A bad answer is retried sooner than a silent device.
ShellyRetryDelay(reason, errors) ==
    Max({Delays[reason], 2 ^ Min({DoublingCap, errors - 1})})

RememberFailure(reason) ==
    LET errors == Min({shellyLine.errors + 1, DoublingCap + 1})
        delay  == ShellyRetryDelay(reason, errors)
    IN  [shellyLine EXCEPT !.errors = errors, !.retry = delay,
            !.state = IF delay >= SoftFail THEN "offline" ELSE "degraded"]

RememberSuccess == [shellyLine EXCEPT !.errors = 0, !.retry = 0, !.state = "online"]

\* Only a transport failure of the charger opens a retry window.
ChargerFailed(transport) == IF transport THEN ChargerRetry ELSE chargerLine

BlocksPending == IF UsesCharger THEN chargerLine > 0 ELSE shellyLine.retry > 0
-----------------------------------------------------------------------------
(* The worker                                                              *)

Resting == [at |-> "idle", target |-> FALSE, wanted |-> {}, member |-> 1, got |-> Nothing]

Unconfirmed == [ioView EXCEPT !.confirmed = FALSE]

\* A command is cleared only when it is still the one that was applied.
Mutant_ClearsAny(target) == Nothing
IoClearPending(target) == IF ioPending = target THEN Nothing ELSE ioPending

\* The worker takes the pending command; the relays of a group are chosen now.
TakeCommand ==
    /\ crew.current.at = "idle" /\ ioPending # Nothing /\ ~BlocksPending
    /\ crew' = [crew EXCEPT !.current =
                  [Resting EXCEPT !.at = "write", !.target = ioPending,
                      !.wanted = IF ioPending THEN LabelsOf(adapter.selected) ELSE {}]]
    /\ ioView' = [ioView EXCEPT !.age = 0]
    /\ UNCHANGED <<rig, ioDevice, adapter, ioPending, shellyLine, chargerLine, readback, askedFor, crossed>>

\* Nothing to write: the worker reads, or waits out the retry window.
SkipCommand ==
    /\ crew.current.at = "idle" /\ (ioPending = Nothing \/ BlocksPending)
    /\ IF shellyLine.retry > 0
       THEN ioView' = [Unconfirmed EXCEPT !.age = 0] /\ UNCHANGED crew
       ELSE /\ ioView' = [ioView EXCEPT !.age = 0]
            /\ crew' = [crew EXCEPT !.current = [Resting EXCEPT !.at = "read"]]
    /\ UNCHANGED <<rig, ioDevice, adapter, ioPending, shellyLine, chargerLine, readback, askedFor, crossed>>

\* A member of the group answers and another is left to write.
WriteMember(w) ==
    /\ crew[w].at = "write" /\ ~UsesCharger /\ crew[w].member < rig.size
    /\ ioDevice' = MemberWritten(crew[w].member, crew[w].wanted)
    /\ crew' = [crew EXCEPT ![w].member = @ + 1]
    /\ UNCHANGED <<rig, adapter, ioPending, shellyLine, chargerLine, readback, ioView, askedFor, crossed>>

\* The last write succeeds: the command is done, its effect shown at once as
\* an unconfirmed reading, and the retry window of its source ends.
FinishCommand(w) ==
    LET on == crew[w].target IN
    /\ crew[w].at = "write" /\ (UsesCharger \/ crew[w].member = rig.size)
    /\ IF UsesCharger
       THEN /\ ioDevice' = DeviceEnabled(on) /\ adapter' = AdapterEnabled(on)
            /\ chargerLine' = 0 /\ UNCHANGED shellyLine
       ELSE /\ ioDevice' = MemberWritten(crew[w].member, crew[w].wanted)
            /\ shellyLine' = RememberSuccess /\ UNCHANGED <<adapter, chargerLine>>
    /\ ioPending' = IoClearPending(on)
    /\ ioView' = [Unconfirmed EXCEPT !.relay = on, !.age = 0]
    /\ crew' = [crew EXCEPT ![w] =
                  IF shellyLine'.retry > 0 THEN Resting ELSE [Resting EXCEPT !.at = "read"]]
    /\ UNCHANGED <<rig, readback, askedFor, crossed>>

\* A write fails, before or after the device acted on it: the command stays
\* pending and is repeated from the first member.
CommandFails(w, reason, reached) ==
    LET on == crew[w].target IN
    /\ crew[w].at = "write"
    /\ ioDevice' = IF ~reached THEN ioDevice
                 ELSE IF UsesCharger THEN DeviceEnabled(on)
                 ELSE MemberWritten(crew[w].member, crew[w].wanted)
    /\ IF UsesCharger
       THEN /\ chargerLine' = ChargerFailed(reason # "error")
            /\ crew' = [crew EXCEPT ![w] =
                          IF shellyLine.retry > 0 THEN Resting ELSE [Resting EXCEPT !.at = "read"]]
            /\ ioView' = IF shellyLine.retry > 0 THEN Unconfirmed ELSE ioView
            /\ UNCHANGED shellyLine
       ELSE /\ shellyLine' = RememberFailure(reason)
            /\ crew' = [crew EXCEPT ![w] = Resting] /\ ioView' = Unconfirmed
            /\ UNCHANGED chargerLine
    /\ UNCHANGED <<rig, adapter, ioPending, readback, askedFor, crossed>>

\* The device answers the read; the answer is used in a later step.
Sample(w) ==
    /\ crew[w].at = "read"
    /\ crew' = [crew EXCEPT ![w] = [Resting EXCEPT !.at = "store", !.got = ioDevice]]
    /\ UNCHANGED <<rig, ioDevice, adapter, ioPending, shellyLine, chargerLine, readback, ioView, askedFor, crossed>>

\* A group's reading: the relays closed and the selection they amount to.
StoreGroup(w) ==
    LET closed == crew[w].got.closed IN
    /\ crew[w].at = "store" /\ ~UsesCharger
    /\ ioView' = [confirmed |-> TRUE, relay |-> closed # {}, phase |-> SelectionClosed(closed), age |-> 0]
    /\ shellyLine' = RememberSuccess
    /\ crew' = [crew EXCEPT ![w] = Resting]
    /\ UNCHANGED <<rig, ioDevice, adapter, ioPending, chargerLine, readback, askedFor, crossed>>

\* A charger's reading is remembered by the backend and for the main thread.
StoreCharger(w, garbled) ==
    LET state == ChargerState(crew[w].got, garbled)
    IN  /\ crew[w].at = "store" /\ UsesCharger /\ chargerLine = 0
        /\ adapter' = AdapterRead(state)
        /\ readback' = [state |-> state, age |-> 0]
        /\ ioView' = [confirmed |-> TRUE, age |-> 0, phase |-> state.phase,
                    relay |-> IF state.enabled = Nothing THEN ioView.relay ELSE state.enabled]
        /\ shellyLine' = RememberSuccess
        /\ crew' = [crew EXCEPT ![w] = Resting]
        /\ UNCHANGED <<rig, ioDevice, ioPending, chargerLine, askedFor, crossed>>

\* Without a fresh charger state the last one serves while it is young enough.
ServeCached(w, transport) ==
    /\ crew[w].at \in {"read", "store"} /\ UsesCharger
    /\ chargerLine' = IF chargerLine > 0 THEN chargerLine ELSE ChargerFailed(transport)
    /\ crew' = [crew EXCEPT ![w] = Resting]
    /\ IF readback.state # Nothing /\ readback.age <= SoftFail
       THEN /\ shellyLine' = RememberSuccess
            /\ ioView' = [confirmed |-> TRUE, age |-> 0, phase |-> readback.state.phase,
                        relay |-> IF readback.state.enabled = Nothing THEN ioView.relay
                                  ELSE readback.state.enabled]
       ELSE shellyLine' = RememberFailure("error") /\ ioView' = Unconfirmed
    /\ UNCHANGED <<rig, ioDevice, adapter, ioPending, readback, askedFor, crossed>>

\* The relay side cannot be read.
ReadFails(w, reason) ==
    /\ crew[w].at = "read" /\ ~UsesCharger
    /\ shellyLine' = RememberFailure(reason) /\ ioView' = Unconfirmed
    /\ crew' = [crew EXCEPT ![w] = Resting]
    /\ UNCHANGED <<rig, ioDevice, adapter, ioPending, chargerLine, readback, askedFor, crossed>>

\* The main thread replaces a worker that has not reported for too long.  The
\* old thread stops after the pass it is in.
ReplaceWorker ==
    /\ crew.current.at # "idle" /\ ioView.age > StaleAfter /\ crew.abandoned.at = "idle"
    /\ crew' = [current |-> Resting, abandoned |-> crew.current]
    /\ crossed' = (crossed \/ crew.current.at = "write")
    /\ UNCHANGED <<rig, ioDevice, adapter, ioPending, shellyLine, chargerLine, readback, ioView, askedFor>>
-----------------------------------------------------------------------------
(* The main thread                                                         *)

QueueRelayCommand(on) ==
    /\ ioPending' = on /\ askedFor' = on
    /\ UNCHANGED <<rig, ioDevice, adapter, crew, shellyLine, chargerLine, readback, ioView, crossed>>

\* A charger that is its own switch is set at once, unless it is being retried.
\* A command still pending or under way may overtake it.
SetEnabledNow(on) ==
    /\ UsesCharger /\ chargerLine = 0
    /\ ioDevice' = DeviceEnabled(on) /\ adapter' = AdapterEnabled(on)
    /\ askedFor' = on
    /\ crossed' = (crossed \/ ioPending \notin {Nothing, on} \/ \E w \in DOMAIN crew : crew[w].at = "write")
    /\ UNCHANGED <<rig, ioPending, crew, shellyLine, chargerLine, readback, ioView>>

SetEnabledFails(on, transport, reached) ==
    /\ UsesCharger /\ chargerLine = 0
    /\ ioDevice' = IF reached THEN DeviceEnabled(on) ELSE ioDevice
    /\ chargerLine' = ChargerFailed(transport)
    /\ askedFor' = Nothing
    /\ UNCHANGED <<rig, adapter, ioPending, crew, shellyLine, readback, ioView, crossed>>

\* The current is adjusted only while charging is wanted.
SetCurrentNow(half) ==
    /\ UsesCharger /\ chargerLine = 0 /\ askedFor = TRUE /\ IoAccepted(half)
    /\ ioDevice' = DeviceCurrent(half) /\ adapter' = AdapterCurrent(half)
    /\ crossed' = (crossed \/ \E w \in DOMAIN crew : crew[w].at = "write")
    /\ UNCHANGED <<rig, ioPending, crew, shellyLine, chargerLine, readback, ioView, askedFor>>

\* A current that is refused or whose write fails is asked for again later.
SetCurrentFails(half, transport, reached) ==
    /\ UsesCharger /\ chargerLine = 0 /\ askedFor = TRUE
    /\ reached => IoAccepted(half)
    /\ ioDevice' = IF reached THEN DeviceCurrent(half) ELSE ioDevice
    /\ chargerLine' = ChargerFailed(transport /\ IoAccepted(half))
    /\ crossed' = (crossed \/ \E w \in DOMAIN crew : crew[w].at = "write")
    /\ UNCHANGED <<rig, adapter, ioPending, crew, shellyLine, readback, ioView, askedFor>>

\* A phase change that needs a pause waits for the confirmed off state.  A
\* group only notes the selection: its relays follow at the next command.
SelectPhases(selection) ==
    /\ selection \in rig.supported
    /\ rig.pauses => askedFor = FALSE /\ ioView.confirmed /\ ~ioView.relay
    /\ adapter' = IF rig.kind = "template" /\ ~rig.phaseRequest THEN adapter
                  ELSE [adapter EXCEPT !.selected = selection]
    /\ ioDevice' = IF UsesCharger /\ rig.phaseRequest THEN [ioDevice EXCEPT !.phase = selection] ELSE ioDevice
    /\ UNCHANGED <<rig, ioPending, crew, shellyLine, chargerLine, readback, ioView, askedFor, crossed>>

\* Time passes.  An idle worker reports before its snapshot grows old.
RunOff(n) == Max({n - 1, 0})

IoTick ==
    /\ shellyLine' = [shellyLine EXCEPT !.retry = RunOff(@)]
    /\ chargerLine' = RunOff(chargerLine)
    /\ readback' = [readback EXCEPT !.age = IF readback.state = Nothing THEN 0
                                            ELSE Min({@ + 1, SoftFail + 1})]
    /\ ioView' = [ioView EXCEPT !.age = IF crew.current.at = "idle" THEN 0
                                    ELSE Min({@ + 1, StaleAfter + 1})]
    /\ UNCHANGED <<rig, ioDevice, adapter, ioPending, crew, askedFor, crossed>>

IoInit ==
    /\ rig \in Rigs
    /\ ioDevice = [closed |-> {}, on |-> FALSE, amps |-> 0, phase |-> 1]
    /\ adapter = [enabled |-> Nothing, amps |-> Nothing, selected |-> 1, resume |-> 0]
    /\ ioPending = Nothing
    /\ crew = [w \in {"current", "abandoned"} |-> Resting]
    /\ shellyLine = [retry |-> 0, errors |-> 0, state |-> "unknown"]
    /\ chargerLine = 0
    /\ readback = [state |-> Nothing, age |-> 0]
    /\ ioView = [confirmed |-> FALSE, relay |-> FALSE, phase |-> 1, age |-> 0]
    /\ askedFor = Nothing
    /\ crossed = FALSE

WorkerStep(w) ==
    \/ WriteMember(w) \/ FinishCommand(w) \/ Sample(w) \/ StoreGroup(w)
    \/ \E reason \in Reasons_ :
          ReadFails(w, reason) \/ \E reached \in BOOLEAN : CommandFails(w, reason, reached)
    \/ \E flag \in BOOLEAN : StoreCharger(w, flag) \/ ServeCached(w, flag)

IoNext ==
    \/ TakeCommand \/ SkipCommand \/ ReplaceWorker \/ IoTick
    \/ \E w \in DOMAIN crew : WorkerStep(w)
    \/ \E on \in BOOLEAN : QueueRelayCommand(on) \/ SetEnabledNow(on)
          \/ \E transport, reached \in BOOLEAN : SetEnabledFails(on, transport, reached)
    \/ \E half \in HalfAmps : SetCurrentNow(half)
          \/ \E transport, reached \in BOOLEAN : SetCurrentFails(half, transport, reached)
    \/ \E selection \in IoSelections : SelectPhases(selection)

IoSpec == IoInit /\ [][IoNext]_ioVars
-----------------------------------------------------------------------------
IoTypeOK ==
    /\ rig \in Rigs
    /\ ioDevice.closed \subseteq 1..rig.size /\ ioDevice.on \in BOOLEAN /\ ioDevice.amps \in Nat
    /\ adapter.enabled \in BOOLEAN \cup {Nothing} /\ adapter.amps \in Nat \cup {Nothing}
    /\ adapter.selected \in rig.supported /\ adapter.resume \in Nat
    /\ ioPending \in BOOLEAN \cup {Nothing}
    /\ \A w \in DOMAIN crew : crew[w].at \in {"idle", "write", "read", "store"}
    /\ shellyLine.state \in {"unknown", "online", "degraded", "offline"}
    /\ ioView.confirmed \in BOOLEAN /\ ioView.relay \in BOOLEAN /\ ioView.phase \in rig.supported

DeviceOn == IF UsesCharger THEN ioDevice.on ELSE ioDevice.closed # {}

(* Once no command is pending and none is being written, the device does    *)
(* what was asked for last - all relays of a group open, or exactly those  *)
(* of one selection closed - however many writes failed halfway, answered  *)
(* too late or were overtaken by a newer command (shelly_io_worker.py,     *)
(* clear_pending_relay_command; switch_group.py, set_enabled).  It is not  *)
(* claimed after a worker was replaced in the middle of a write or a       *)
(* charger was set directly across a command under way.                    *)
CommandLands ==
    ioPending = Nothing /\ askedFor # Nothing /\ ~crossed
        /\ (\A w \in DOMAIN crew : crew[w].at # "write") =>
        /\ DeviceOn = askedFor
        /\ ~UsesCharger => ioDevice.closed \in {{}} \cup {LabelsOf(k) : k \in rig.supported}
=============================================================================
