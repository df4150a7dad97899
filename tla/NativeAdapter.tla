--------------------------- MODULE NativeAdapter ---------------------------
(***************************************************************************)
(* The native D-Bus adapter (rust/dbus-adapter), which replaces the Python *)
(* gateway process: one tick drains the fast publication socket, takes the *)
(* result of the one bus operation under way, scans the command mailbox    *)
(* and submits the next operation. A semantic command (GX relay, ESS       *)
(* setpoint, generic Shelly) is a chain of bus operations over many ticks, *)
(* while the core goes on writing commands under the same file names.      *)
(* Timers are flags that the environment lets run out.                     *)
(***************************************************************************)
EXTENDS Integers, Sequences, FiniteSets

CONSTANTS
    NaWishes,        \* commands the core may write: kind, path, priority, deadline
    NaFields,        \* semantic publication fields
    NaBudget,        \* queue class -> attempts per second (base_budgets)
    NaBurst,         \* local_publish_burst_limit
    FastCapacity,    \* QUEUE_CAPACITY of the fast socket
    NaPressures,     \* pressure states that occur
    MaxRevision      \* bound: commands ever written

ASSUME NativeAssumption ==
    /\ NaBurst \in Nat \ {0} /\ FastCapacity \in Nat /\ MaxRevision \in Nat
    /\ \A w \in NaWishes : w.path # ""          \* files have names

VARIABLES
    box,         \* the command mailbox: path -> command
    fastQueue,   \* FastPublicationServer.queue
    job,         \* CommandExecutor.active
    naWire,        \* OperationBroker and broker_owner
    gx,          \* the relay, its manual function settings, relay_states
    registry,    \* PublicationRegistry: registered, orders per field, what the bus shows
    survey,      \* IntrospectionManager: queue and active target
    running,     \* timers that have not run out
    used,        \* budget_events of the last second, per class
    naTick,        \* the tick: step, pressure, burst left, commands still to look at
    revision,    \* the last revision (and transport order) issued
    handled      \* revisions that the adapter has executed or rejected

naVars == <<box, fastQueue, job, naWire, gx, registry, survey, running, used, naTick, revision, handled>>

NoFile == [kind |-> "none", path |-> "", priority |-> "", deadline |-> FALSE, rev |-> 0]
NaPaths == {w.path : w \in NaWishes}
NoJob == [cmd |-> NoFile, stage |-> "none", at |-> 0, awaiting |-> FALSE]
NoAnswer == -2
FailedAnswer == -1                           \* the operation raised
NoWire == [owner |-> "none", op |-> "none", answer |-> NoAnswer]
Unread == 2                                  \* a relay state that is not known
ManualPaths == 1..2                          \* manual_paths of relay 0
Candidates_ == 1..2                          \* generic Shelly devices found

Between == [pc |-> "idle", pressure |-> "ok", burst |-> 0, batch |-> {}]     \* two ticks

(***************************************************************************)
(* Queue scheduler                                                         *)
(***************************************************************************)
IsPublication(c) == c.kind \in {"register_evcs", "publish_evcs_fields", "publish_companion_fields"}

CommandQueueClass(c) ==
    CASE c.kind = "register_evcs" -> "startup/register"
      [] c.kind \in {"publish_evcs_fields", "publish_companion_fields"} ->
            IF c.priority \in {"safety", "user"} THEN "gui-critical-publish" ELSE "local-publish"
      [] c.kind \in {"refresh_energy_inputs", "gx_relay_refresh"} -> "read-fast"
      [] c.kind = "introspect" -> "introspection"
      [] c.kind \in {"gx_relay_on", "gx_relay_off", "ess_grid_setpoint"} -> "remote-write"
      [] c.kind = "disable_matching_generic_shelly_once" -> "configuration"
      [] OTHER -> "diagnostic"

\* command_deadline_expired: a command with a deadline is out of time at some point
MayExpire(c) == c.deadline

IsAdvisory(c) == CommandQueueClass(c) \in {"diagnostic", "discovery", "introspection"}

PriorityRank(c) ==
    CASE c.priority = "safety" -> 0 [] c.priority = "user" -> 1 [] c.priority = "publish" -> 2
      [] c.priority = "read" -> 3 [] c.priority = "normal" -> 4 [] OTHER -> 6

QueueRank(c) ==
    LET class == CommandQueueClass(c)
    IN CASE class = "startup/register" -> 0 [] class = "gui-critical-publish" -> 1
         [] class = "remote-write" -> 2 [] class = "local-publish" -> 3
         [] class = "read-fast" -> 4 [] class = "introspection" -> 7
         [] class = "diagnostic" -> 8 [] OTHER -> 9

\* the order of two commands; age is their revision, and an aged refresh overtakes publications
CommandOrder(c, aged) ==
    LET rank == IF aged /\ CommandQueueClass(c) \in {"read-fast", "introspection"}
                THEN 3 ELSE 2 * PriorityRank(c)
    IN 10000 * rank + 100 * QueueRank(c) + c.rev

\* runtime_work_allowed: publications always, other work by pressure
CommandAllowed(c, pressure) ==
    LET class == CommandQueueClass(c)
        urgent == c.priority \in {"safety", "user"}
    IN \/ IsPublication(c)
       \/ pressure = "ok"
       \/ pressure = "congested" /\ c.priority \notin {"optional", "diagnostic"} /\ class # "diagnostic"
       \/ pressure = "slow" /\ urgent
       \/ pressure = "protective" /\ urgent /\ class = "remote-write"

Lower(x, y) == IF x < y THEN x ELSE y
AtLeastOne(x) == IF x < 1 THEN 1 ELSE x

\* the part of the burst limit that publications of a class may use under pressure
PublishCap(class, pressure) ==
    CASE pressure = "congested" -> AtLeastOne(NaBurst \div (IF class = "local-publish" THEN 4 ELSE 2))
      [] pressure = "slow" -> IF class = "local-publish" THEN 1 ELSE AtLeastOne(NaBurst \div 4)
      [] pressure = "protective" -> 1

EffectiveBudget(class, pressure) ==
    LET base == IF class \in DOMAIN NaBudget THEN NaBudget[class] ELSE 1
    IN IF pressure = "ok" THEN base
       ELSE IF class \in {"diagnostic", "discovery", "introspection"} THEN 0
       ELSE IF class \in {"gui-critical-publish", "local-publish"}
            THEN Lower(base, PublishCap(class, pressure)) ELSE base

\* the burst limit of a tick; raised when the queue is late, lowered when the loop is
BurstLimits(pressure) ==
    CASE pressure = "ok" -> {NaBurst, Lower(3 * NaBurst, 50), AtLeastOne(NaBurst \div 2)}
      [] pressure = "congested" -> {AtLeastOne(NaBurst \div 2)}
      [] pressure = "slow" -> {AtLeastOne(NaBurst \div 4)}
      [] pressure = "protective" -> {1}

Classes == DOMAIN NaBudget \cup {"configuration"}

BudgetAvailable(c) == used[CommandQueueClass(c)] < EffectiveBudget(CommandQueueClass(c), naTick.pressure)

RecordAttempt(c) ==
    /\ used' = [used EXCEPT ![CommandQueueClass(c)] = @ + 1]
    /\ running' = running \cup {"budget"}

(***************************************************************************)
(* Publication registry                                                    *)
(***************************************************************************)
\* accepted_fields: a field with an older order than one already accepted is left out
AcceptedFields(c) == {f \in NaFields : c.rev >= registry.orders[f]}

\* an early return of create_service or of one of the field assignments: the
\* orders are already raised, and some fields already shown
PublishFails(c) ==
    \E done \in SUBSET AcceptedFields(c) :
       registry' = [registry EXCEPT
                      !.orders = [f \in NaFields |-> IF f \in AcceptedFields(c) THEN c.rev ELSE @[f]],
                      !.shown = [f \in NaFields |-> IF f \in done THEN c.rev ELSE @[f]]]

PublishSucceeds(c) ==
    registry' = [registry EXCEPT
                   !.orders = [f \in NaFields |-> IF f \in AcceptedFields(c) THEN c.rev ELSE @[f]],
                   !.shown = [f \in NaFields |-> IF f \in AcceptedFields(c) THEN c.rev ELSE @[f]],
                   !.index = IF AcceptedFields(c) = {} THEN @ ELSE (@ + 1) % 256]

\* a registration sends every field and notes no order
RegisterService(c) ==
    registry' = [registry EXCEPT !.registered = TRUE, !.shown = [f \in NaFields |-> c.rev]]

\* PublicationRegistry.apply: "applied", "dropped" or "kept" (deferred or an error)
ApplyPublication(c, outcome) ==
    \/ /\ c.kind = "register_evcs" /\ ~registry.registered
       /\ \/ outcome = "applied" /\ RegisterService(c)
          \/ outcome = "kept" /\ UNCHANGED registry
    \/ /\ c.kind \in {"register_evcs", "publish_evcs_fields"} /\ registry.registered
       /\ \/ outcome = "applied" /\ PublishSucceeds(c)
          \/ outcome = "kept" /\ PublishFails(c)
    \/ /\ \/ c.kind = "publish_evcs_fields" /\ ~registry.registered
          \/ c.kind = "publish_companion_fields"      \* a companion that was never registered
       /\ outcome = "kept" /\ UNCHANGED registry

(***************************************************************************)
(* Commands as chains of bus operations                                    *)
(***************************************************************************)
FirstStage(kind) ==
    CASE kind = "gx_relay_refresh" -> "refresh"
      [] kind = "gx_relay_on" -> "manual_read"       \* ensure_manual
      [] kind = "gx_relay_off" -> "output"           \* not ensure_manual
      [] kind = "ess_grid_setpoint" -> "ess"
      [] kind = "disable_matching_generic_shelly_once" -> "discover"
      [] OTHER -> "rejected"

OperationOf(stage) ==
    CASE stage \in {"refresh", "manual_read", "verify", "verify_again", "identify", "enabled"} -> "read"
      [] stage \in {"manual_write", "output", "output_again", "ess", "disable"} -> "write"
      [] stage = "discover" -> "introspect"

TargetOf(c) == IF c.kind = "gx_relay_on" THEN 1 ELSE 0

Goto(stage, at) == [job EXCEPT !.stage = stage, !.at = at, !.awaiting = FALSE]

\* transition_error: the outcome, or the next job
AfterError ==
    CASE job.stage \in {"manual_read", "manual_write"} /\ job.at + 1 \in ManualPaths ->
            [outcome |-> "none", next |-> Goto("manual_read", job.at + 1)]
      [] job.stage \in {"verify", "verify_again"} -> [outcome |-> "applied", next |-> NoJob]
      [] OTHER -> [outcome |-> "deferred", next |-> NoJob]

Verified(value) ==
    CASE value = TargetOf(job.cmd) -> [outcome |-> "applied", next |-> NoJob]
      [] value # TargetOf(job.cmd) /\ job.stage = "verify" ->
            [outcome |-> "none", next |-> Goto("output_again", 0)]
      [] OTHER -> [outcome |-> "dropped", next |-> NoJob]

Then(stage, at) == [outcome |-> "none", next |-> Goto(stage, at)]
End(outcome) == [outcome |-> outcome, next |-> NoJob]

AfterRelayAnswer(value) ==
    CASE job.stage = "refresh" -> End(IF value \in {0, 1} THEN "applied" ELSE "dropped")
      [] job.stage = "manual_read" -> Then(IF value = 1 THEN "output" ELSE "manual_write", job.at)
      [] job.stage = "manual_write" -> Then("output", 0)
      [] job.stage = "output" -> Then("verify", 0)
      [] job.stage = "output_again" -> Then("verify_again", 0)
      [] job.stage \in {"verify", "verify_again"} -> Verified(value)

\* a list of devices: 0 none, 1 one that is found by its name, else each is asked;
\* an identity: 1 it matches, 0 it does not, else it is not a text and the command abandoned
AfterShellyAnswer(value) ==
    CASE job.stage = "discover" ->
            IF value = 0 THEN End("applied") ELSE IF value = 1 THEN Then("enabled", 1) ELSE Then("identify", 1)
      [] job.stage = "identify" ->
            IF value = 1 THEN Then("enabled", job.at)
            ELSE IF value # 0 THEN End("abandoned")
            ELSE IF job.at + 1 \in Candidates_ THEN Then("identify", job.at + 1) ELSE End("applied")
      [] job.stage = "enabled" ->
            IF value = 0 THEN End("applied") ELSE IF value = 1 THEN Then("disable", job.at) ELSE End("dropped")

\* transition
AfterAnswer(value) ==
    CASE value = FailedAnswer -> AfterError
      [] job.stage \in {"discover", "identify", "enabled"} /\ value # FailedAnswer -> AfterShellyAnswer(value)
      [] job.stage \in {"ess", "disable"} /\ value # FailedAnswer -> End("applied")
      [] OTHER -> AfterRelayAnswer(value)

\* what the transition does after waiting: settle before verifying, delay before trying again
Pauses(stage) == stage \in {"verify", "output_again", "verify_again"}

(***************************************************************************)
(* The tick                                                                *)
(***************************************************************************)
StartTick ==
    /\ naTick.pc = "idle"
    /\ \E pressure \in NaPressures : \E limit \in BurstLimits(pressure) :
          naTick' = [naTick EXCEPT !.pc = "fast", !.pressure = pressure, !.burst = limit]
    /\ UNCHANGED <<box, fastQueue, job, naWire, gx, registry, survey, running, used, revision, handled>>

\* one round of process_fast_publications; a publication that cannot be applied stays in front
FastStep ==
    /\ naTick.pc = "fast" /\ fastQueue # <<>> /\ naTick.burst > 0
    /\ LET c == Head(fastQueue)
       IN \/ /\ MayExpire(c)
             /\ fastQueue' = Tail(fastQueue) /\ naTick' = [naTick EXCEPT !.burst = @ - 1]
             /\ UNCHANGED <<registry, used, running>>
          \/ /\ ~BudgetAvailable(c)
             /\ naTick' = [naTick EXCEPT !.pc = "poll"]
             /\ UNCHANGED <<fastQueue, registry, used, running>>
          \/ /\ BudgetAvailable(c) /\ RecordAttempt(c)
             /\ \/ /\ ApplyPublication(c, "applied")
                   /\ fastQueue' = Tail(fastQueue) /\ naTick' = [naTick EXCEPT !.burst = @ - 1]
                \/ /\ ApplyPublication(c, "kept")
                   /\ naTick' = [naTick EXCEPT !.pc = "poll"] /\ UNCHANGED fastQueue
    /\ UNCHANGED <<box, job, naWire, gx, survey, revision, handled>>

\* nothing left, burst used up or the time budget spent
FastDone ==
    /\ naTick.pc = "fast" /\ naTick' = [naTick EXCEPT !.pc = "poll"]
    /\ UNCHANGED <<box, fastQueue, job, naWire, gx, registry, survey, running, used, revision, handled>>

\* finish_command removes whatever file is there now
Finished(path) == [box EXCEPT ![path] = NoFile]

\* complete_semantic_command
CommandAnswered ==
    LET failed == naWire.answer = FailedAnswer
        result == AfterAnswer(naWire.answer)
        observed == ~failed /\ job.stage \in {"refresh", "verify", "verify_again"}
    IN /\ job' = result.next
       /\ gx' = IF observed THEN [gx EXCEPT !.seen = IF naWire.answer \in {0, 1} THEN naWire.answer ELSE Unread]
                ELSE gx
       /\ \/ /\ result.outcome \in {"applied", "dropped"}
             /\ box' = Finished(job.cmd.path)
             /\ handled' = handled \cup {job.cmd.rev}
             /\ UNCHANGED running
          \/ /\ result.outcome \in {"deferred", "abandoned"}
             /\ running' = running \cup {"retry"} /\ UNCHANGED <<box, handled>>
          \/ /\ result.outcome = "none"
             /\ running' = IF Pauses(result.next.stage) THEN running \cup {"pause"} ELSE running
             /\ UNCHANGED <<box, handled>>
       /\ UNCHANGED survey

\* the file of an introspection command goes with its result; an answer that
\* cannot be parsed leaves it, for the next scan of the mailbox
SurveyAnswered ==
    /\ survey' = [survey EXCEPT !.active = ""]
    /\ \/ /\ survey.active # "scan"
          /\ box' = [box EXCEPT ![survey.active] = NoFile]
          /\ handled' = handled \cup {box[survey.active].rev}
       \/ /\ survey.active = "scan" \/ naWire.answer # FailedAnswer
          /\ UNCHANGED <<box, handled>>
    /\ UNCHANGED <<job, gx, running>>

PollBroker ==
    /\ naTick.pc = "poll" /\ naTick' = [naTick EXCEPT !.pc = "scan"]
    /\ \/ /\ naWire.answer # NoAnswer /\ naWire' = NoWire
          /\ \/ naWire.owner = "command" /\ CommandAnswered
             \/ naWire.owner = "introspection" /\ SurveyAnswered
             \/ naWire.owner = "reader" /\ UNCHANGED <<box, job, gx, survey, running, handled>>
       \/ /\ naWire.answer = NoAnswer
          /\ UNCHANGED <<box, job, naWire, gx, survey, running, handled>>
    /\ UNCHANGED <<fastQueue, registry, used, revision>>

\* Mailbox.pending: the files as they are now; the scan interval may not have passed
Scan ==
    /\ naTick.pc = "scan"
    /\ \/ naTick' = [naTick EXCEPT !.pc = "work", !.batch = {box[p] : p \in NaPaths} \ {NoFile}]
       \/ naTick' = [naTick EXCEPT !.pc = "submit"]
    /\ UNCHANGED <<box, fastQueue, job, naWire, gx, registry, survey, running, used, revision, handled>>

Taken(c) == naTick' = [naTick EXCEPT !.batch = @ \ {c}]

Rejected(c) ==
    /\ box' = Finished(c.path) /\ handled' = handled \cup {c.rev}
    /\ UNCHANGED <<job, registry, survey, running, used>>

Skipped == UNCHANGED <<box, job, registry, survey, running, used, handled>>

PublicationTurn(c) ==
    /\ IsPublication(c)
    /\ \/ Skipped                                            \* burst or time budget used up
       \/ /\ RecordAttempt(c) /\ UNCHANGED <<job, survey>>
          /\ \/ ApplyPublication(c, "applied") /\ box' = Finished(c.path) /\ handled' = handled \cup {c.rev}
             \/ ApplyPublication(c, "kept") /\ UNCHANGED <<box, handled>>

RefreshTurn(c) ==
    /\ c.kind = "refresh_energy_inputs" /\ RecordAttempt(c)
    /\ box' = Finished(c.path) /\ handled' = handled \cup {c.rev}
    /\ UNCHANGED <<job, registry, survey>>

\* schedule_command: once per target; the file stays until the result
IntrospectTurn(c) ==
    /\ c.kind = "introspect" /\ RecordAttempt(c)
    /\ survey' = IF survey.active = c.path \/ \E i \in DOMAIN survey.queue : survey.queue[i] = c.path
                 THEN survey ELSE [survey EXCEPT !.queue = Append(@, c.path)]
    /\ UNCHANGED <<box, job, registry, handled>>

\* CommandExecutor.start
CommandTurn(c) ==
    /\ ~IsPublication(c) /\ c.kind \notin {"refresh_energy_inputs", "introspect"}
    /\ \/ (job # NoJob \/ "retry" \in running) /\ Skipped
       \/ /\ job = NoJob /\ "retry" \notin running /\ RecordAttempt(c)
          /\ IF FirstStage(c.kind) = "rejected"
             THEN box' = Finished(c.path) /\ handled' = handled \cup {c.rev} /\ UNCHANGED job
             ELSE /\ job' = [cmd |-> c, stage |-> FirstStage(c.kind),
                             at |-> 1, awaiting |-> FALSE]
                  /\ UNCHANGED <<box, handled>>
          /\ UNCHANGED <<registry, survey>>

First_(c, batch, aged) == \A d \in batch : CommandOrder(c, aged) <= CommandOrder(d, aged)

\* one command of process_mailbox_if_due
WorkStep ==
    /\ naTick.pc = "work" /\ naTick.batch # {}
    /\ \E aged \in BOOLEAN, c \in naTick.batch :
       /\ First_(c, naTick.batch, aged)
       /\ \/ MayExpire(c) /\ Taken(c) /\ Rejected(c)
          \/ /\ ~CommandAllowed(c, naTick.pressure) /\ Taken(c)
             /\ IF IsAdvisory(c) THEN Rejected(c) ELSE Skipped
          \/ CommandAllowed(c, naTick.pressure) /\ ~BudgetAvailable(c) /\ Taken(c) /\ Skipped
          \/ /\ CommandAllowed(c, naTick.pressure) /\ BudgetAvailable(c)
             /\ \/ PublicationTurn(c) \/ RefreshTurn(c) \/ IntrospectTurn(c) \/ CommandTurn(c)
             /\ IF job' # job THEN naTick' = [naTick EXCEPT !.batch = {}] ELSE Taken(c)
    /\ UNCHANGED <<fastQueue, naWire, gx, revision>>

WorkDone ==
    /\ naTick.pc = "work" /\ naTick.batch = {}
    /\ naTick' = [naTick EXCEPT !.pc = "submit"]
    /\ UNCHANGED <<box, fastQueue, job, naWire, gx, registry, survey, running, used, revision, handled>>

(***************************************************************************)
(* schedule_operation: the command first, then the reader, then surveys    *)
(***************************************************************************)
Submit(owner, op) ==
    /\ naWire' = [owner |-> owner, op |-> op, answer |-> NoAnswer]
    /\ running' = running \cup {op}

Mutant_StillAwaiting(op) == [job EXCEPT !.awaiting = TRUE]

\* next_operation marks the command as waiting; an operation that is not due yet takes that back
SubmissionFailed(op) == [job EXCEPT !.awaiting = FALSE]

JobReady == job # NoJob /\ ~job.awaiting /\ "pause" \notin running
JobDue == JobReady /\ OperationOf(job.stage) \notin running

ScheduleCommand ==
    /\ JobDue
    /\ Submit("command", OperationOf(job.stage))
    /\ job' = [job EXCEPT !.awaiting = TRUE]
    /\ UNCHANGED survey

\* the reader's next read, or nothing to read now (the reader is a module of its own)
ScheduleReader ==
    /\ "read" \notin running
    /\ Submit("reader", "read") /\ UNCHANGED survey

ScheduleSurvey ==
    /\ naTick.pressure = "ok" /\ survey.active = "" /\ survey.queue # <<>>
    /\ IF "introspect" \in running THEN UNCHANGED <<naWire, running, survey>>
       ELSE /\ Submit("introspection", "introspect")
            /\ survey' = [queue |-> Tail(survey.queue), active |-> Head(survey.queue)]

ScheduleOperation ==
    /\ naTick.pc = "submit" /\ naTick' = Between
    /\ \/ naWire # NoWire /\ UNCHANGED <<job, naWire, running, survey>>
       \/ naWire = NoWire /\ ScheduleCommand
       \/ /\ naWire = NoWire /\ ~JobDue
          /\ job' = IF JobReady THEN SubmissionFailed(OperationOf(job.stage)) ELSE job
          /\ ScheduleReader \/ ScheduleSurvey \/ UNCHANGED <<naWire, running, survey>>
    /\ UNCHANGED <<box, fastQueue, gx, registry, used, revision, handled>>

\* a topology change or the full scan interval asks for a survey of all targets
FullScan ==
    /\ naTick.pc = "idle" /\ survey.active # "scan"
    /\ \A i \in DOMAIN survey.queue : survey.queue[i] # "scan"
    /\ survey' = [survey EXCEPT !.queue = Append(@, "scan")]
    /\ UNCHANGED <<box, fastQueue, job, naWire, gx, registry, running, used, naTick, revision, handled>>

(***************************************************************************)
(* The worker thread, the core, time. They act between two ticks, which is *)
(* when a tick can next notice it; the core also while a scan is worked    *)
(* off, when the files are no longer those that were read.                 *)
(***************************************************************************)
\* an operation may fail before or after it has had its effect
WorkerAnswers ==
    /\ naTick.pc = "idle" /\ naWire # NoWire /\ naWire.answer = NoAnswer
    /\ \E answer \in {0, 1, Unread, FailedAnswer} :
          /\ naWire.owner = "command" /\ job.stage \in {"verify", "verify_again", "refresh"} =>
                answer \in {gx.relay, FailedAnswer, Unread}
          /\ naWire.owner = "command" /\ job.stage = "manual_read" =>
                answer \in {IF job.at \in gx.manual THEN 1 ELSE 0, FailedAnswer}
          /\ naWire.owner # "command" => answer \in {0, FailedAnswer}
          /\ naWire' = [naWire EXCEPT !.answer = answer]
          /\ \/ gx' = [gx EXCEPT
                         !.relay = IF naWire.owner = "command" /\ job.stage \in {"output", "output_again"}
                                   THEN TargetOf(job.cmd) ELSE @,
                         !.manual = IF naWire.owner = "command" /\ job.stage = "manual_write"
                                    THEN @ \cup {job.at} ELSE @]
             \/ answer = FailedAnswer /\ UNCHANGED gx
    /\ UNCHANGED <<box, fastQueue, job, registry, survey, running, used, naTick, revision, handled>>

\* the core writes a command under its path, over the one that is there
WriteCommand ==
    /\ naTick.pc \in {"idle", "work"}
    /\ revision < MaxRevision /\ revision' = revision + 1
    /\ \E w \in NaWishes :
          box' = [box EXCEPT ![w.path] = [kind |-> w.kind, path |-> w.path, priority |-> w.priority,
                                          deadline |-> w.deadline, rev |-> revision + 1]]
    /\ UNCHANGED <<fastQueue, job, naWire, gx, registry, survey, running, used, naTick, handled>>

\* a live publication over the socket; without an acknowledgement the core falls back to a file
SendFast ==
    /\ naTick.pc = "idle"
    /\ revision < MaxRevision /\ revision' = revision + 1
    /\ \E w \in {v \in NaWishes : v.kind \in {"publish_evcs_fields", "publish_companion_fields"}} :
          LET c == [kind |-> w.kind, path |-> w.path, priority |-> w.priority,
                    deadline |-> w.deadline, rev |-> revision + 1]
          IN /\ fastQueue' = IF Len(fastQueue) < FastCapacity THEN Append(fastQueue, c) ELSE fastQueue
             /\ \/ Len(fastQueue) < FastCapacity /\ UNCHANGED box
                \/ box' = [box EXCEPT ![w.path] = c]
    /\ UNCHANGED <<job, naWire, gx, registry, survey, running, used, naTick, handled>>

TimerRunsOut ==
    /\ naTick.pc = "idle"
    /\ \E timer \in running :
          /\ running' = running \ {timer}
          /\ used' = IF timer = "budget" THEN [class \in Classes |-> 0] ELSE used
    /\ UNCHANGED <<box, fastQueue, job, naWire, gx, registry, survey, naTick, revision, handled>>

NaInit ==
    /\ box = [p \in NaPaths |-> NoFile] /\ fastQueue = <<>> /\ job = NoJob /\ naWire = NoWire
    /\ gx = [relay |-> 0, manual |-> {}, seen |-> Unread]
    /\ \E registered \in BOOLEAN :             \* just started, or the charger already published
          registry = [registered |-> registered, orders |-> [f \in NaFields |-> 0],
                      shown |-> [f \in NaFields |-> 0], index |-> 0]
    /\ survey = [queue |-> <<>>, active |-> ""] /\ running = {}
    /\ used = [class \in Classes |-> 0]
    /\ naTick = Between
    /\ revision = 0 /\ handled = {}

NaNext ==
    \/ StartTick \/ FastStep \/ FastDone \/ PollBroker \/ Scan \/ WorkStep \/ WorkDone
    \/ ScheduleOperation \/ FullScan \/ WorkerAnswers \/ WriteCommand \/ SendFast \/ TimerRunsOut

NaSpec == NaInit /\ [][NaNext]_naVars

(***************************************************************************)
(* Properties                                                              *)
(***************************************************************************)
NaTypeOK ==
    /\ \A p \in NaPaths : box[p] = NoFile \/ box[p].path = p
    /\ Len(fastQueue) <= FastCapacity
    /\ job = NoJob \/ job.cmd.rev \in 1..revision
    /\ naWire.owner \in {"none", "command", "introspection", "reader"}
    /\ gx.relay \in {0, 1} /\ gx.seen \in {0, 1, Unread} /\ gx.manual \subseteq ManualPaths
    /\ \A f \in NaFields : registry.orders[f] \in 0..revision /\ registry.shown[f] \in 0..revision
    /\ running \subseteq {"read", "write", "introspect", "budget", "retry", "pause"}
    /\ \A class \in Classes : used[class] \in Nat
    /\ handled \subseteq 0..revision

(***************************************************************************)
(* A command waits for the bus exactly while its operation is under way,   *)
(* and so does a survey: submission can fail because the rate limit of the *)
(* operation has not passed, and a command that then stayed marked as      *)
(* waiting would block every later command for good                        *)
(* (runtime/operation_cycle.rs, try_schedule_command).                     *)
(***************************************************************************)
WaitingIsUnderWay ==
    /\ job.awaiting <=> naWire.owner = "command"
    /\ survey.active # "" <=> naWire.owner = "introspection"

(***************************************************************************)
(* The adapter removes only commands it has executed or rejected: a        *)
(* command written over the one being executed is not lost. The native     *)
(* adapter removes the file whatever it holds (runtime/storage.rs,         *)
(* finish_command), so this is violated.                                   *)
(***************************************************************************)
NewerWorkKept ==
    [][\A p \in NaPaths : box[p] # NoFile /\ box'[p] = NoFile => box[p].rev \in handled']_naVars
=============================================================================
