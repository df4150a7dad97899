---------------------------- MODULE ControlWrite ----------------------------
(***************************************************************************)
(* How a control command is carried out: ControlWriteController's          *)
(* transaction (snapshot, handler, saving, publication, roll-back), the    *)
(* in-process command queue of the runtime executor, the persistent state  *)
(* and the staged runtime overrides.                                       *)
(*                                                                         *)
(* A command comes from the executor's queue, and then never overlaps the  *)
(* update cycle, or from a thread of the HTTP server, and then overlaps    *)
(* it: the two share the cell of service attributes, and a failing command *)
(* restores the cell it found.  Of the update cycle only what touches the  *)
(* cell is here: the relay decision, a staged phase switch, the flush of   *)
(* the overrides (in two steps, as it reads them before it writes).        *)
(***************************************************************************)
EXTENDS Integers, Sequences, SequencesExt, FiniteSets

CONSTANTS
  Commands_,     \* the commands clients send: target and value
  HasCharger,    \* a charger backend that is switched, and set, directly
  NeedsPause,    \* phase_selection_requires_pause
  QueueMax,      \* _control_command_max_paths
  MinInterval,   \* runtime_overrides_write_min_interval_seconds
  MaxCommands    \* bound on the commands one behaviour carries out

NoOrder == 2      \* no relay command pending, no staged value, reading unknown

\* A write that is accepted has a value of its target's kind (mode and on/off are
\* normalised), and the value of a setting is never the mark for none.
ASSUME CwConstants ==
  /\ QueueMax \in Nat \ {0} /\ {MinInterval, MaxCommands} \subseteq Nat
  /\ {HasCharger, NeedsPause} \subseteq BOOLEAN
  /\ \A c \in Commands_ :
       /\ c.target = "mode" => c.value \in {"manual", "auto"}
       /\ c.target = "enable" => c.value \in {0, 1}
       /\ c.target \notin {"mode", "enable", "phase_selection"} => c.value # NoOrder
NoPhase == "-"

VARIABLES
  cell,      \* the service attributes a snapshot covers
  output,    \* the switched output
  cwWish,      \* what the automatic decision asks for
  txn,       \* the command under way, under _command_lock
  lane,      \* the executor's queue, oldest first
  batch,     \* the commands the executor took from it and still has to handle
  disk,      \* the saved state and the overrides file
  written,   \* _runtime_overrides_serialized
  staging,   \* the overrides staged for a later write, and when it is due
  sinceSave, \* ticks since the overrides were written, up to MinInterval
  flush,     \* the staged value the cycle's flush has read, or NoOrder
  unsaved,   \* the overrides may not follow the setting: the last command to save
             \* them did so during a flush, or one since ended in flight without saving
  left       \* commands left

cwVars == <<cell, output, cwWish, txn, lane, batch, disk, written, staging, sinceSave,
            flush, unsaved, left>>

-----------------------------------------------------------------------------
IdleTxn == [step |-> "idle", origin |-> "none", command |-> [target |-> "none", value |-> 0],
            saved |-> 0, effect |-> FALSE]

\* What the state file holds.
Durable(c) == [mode |-> c.mode, enable |-> c.enable, on |-> c.on, requested |-> c.requested,
               active |-> c.active, staged |-> c.staged]

\* A service that starts: saved state, the overrides file, nothing pending.
CwRestored(d) ==
  [mode |-> d.state.mode, enable |-> d.state.enable, on |-> d.state.on,
   requested |-> d.state.requested, active |-> d.state.active, staged |-> d.state.staged,
   setting |-> d.overrides, pending |-> NoOrder, expected |-> NoOrder, reading |-> NoOrder]

CwInit ==
  /\ output \in {0, 1} /\ cwWish \in {0, 1}
  /\ \E mode \in {"manual", "auto"} :
       cell = [mode |-> mode, enable |-> output, on |-> output, requested |-> "P1", active |-> "P1",
               staged |-> NoPhase, setting |-> 0, pending |-> NoOrder, expected |-> NoOrder, reading |-> output]
  /\ txn = IdleTxn /\ lane = <<>> /\ batch = <<>>
  /\ disk = [state |-> Durable(cell), overrides |-> 0]
  /\ written = 0 /\ staging = [value |-> NoOrder, due |-> 0] /\ sinceSave = MinInterval
  /\ flush = NoOrder /\ unsaved = FALSE
  /\ left = MaxCommands

-----------------------------------------------------------------------------
(* Handlers: the outcomes [cell, output, effect, ok] a command may have.   *)

Outcome(c, o, effect) == [cell |-> c, output |-> o, effect |-> effect, ok |-> TRUE]
Failure(c, o) == [cell |-> c, output |-> o, effect |-> FALSE, ok |-> FALSE]

\* A pending relay command, a fresh confirmed reading, or nothing known: on.
OutputMayBeOn == cell.pending = 1 \/ cell.reading # 0

\* queue_relay_command: for the worker, and what the cycle then expects to read
Queued(c, on) == [c EXCEPT !.pending = on, !.expected = on]

\* A write to the charger raises before or after the device has acted.
ChargerWrite(c, on) ==
  {Outcome([c EXCEPT !.on = on, !.enable = on], on, TRUE), Failure(c, output), Failure(c, on)}

\* A manual request goes to the charger, or is queued for the relay worker.
ManualRequest(c, on) ==
  IF HasCharger THEN ChargerWrite(c, on)
  ELSE {Outcome(Queued([c EXCEPT !.on = on, !.enable = on], on), output, TRUE)}

\* Switching to automatic opens a relay that may be on; switching to manual
\* applies the enable state if the relay does not have it already.
ModeWrite(mode) ==
  LET c == [cell EXCEPT !.mode = mode] IN
  CASE mode = "auto" /\ cell.mode = "manual" /\ OutputMayBeOn ->
         {Outcome(Queued([c EXCEPT !.enable = 1, !.on = 0], 0), output, TRUE)}
    [] mode = "manual" /\ cell.mode = "auto" /\ cell.on # cell.enable -> ManualRequest(c, cell.enable)
    [] OTHER -> {Outcome(c, output, FALSE)}

\* Enable and start/stop: in automatic mode an off is sent at once, an on
\* leaves the relay to the decision.
EnableWrite(on) ==
  IF cell.mode = "manual" THEN ManualRequest(cell, on)
  ELSE IF on = 1 THEN {Outcome([cell EXCEPT !.enable = 1], output, FALSE)}
  ELSE {Outcome(Queued([cell EXCEPT !.enable = 0, !.on = 0], 0), output, TRUE)}

\* A phase selection is staged behind an off command, or applied directly
\* (the backend may refuse it); one already staged stays staged.
PhaseWrite(selection) ==
  IF NeedsPause /\ OutputMayBeOn
    THEN {Outcome(Queued([cell EXCEPT !.requested = selection, !.staged = selection], 0), output, TRUE)}
    ELSE {Outcome([cell EXCEPT !.requested = selection, !.active = selection], output, FALSE),
          Failure(cell, output)}

\* set_current goes to the charger first, which may raise before or after it has
\* set its current; once it has, the command is not undone any more.
CurrentWrite(v) ==
  {Outcome([cell EXCEPT !.setting = v], output, TRUE), Failure(cell, output)}

\* Another setting is assigned, then the whole configuration validated.
SettingWrite(v) ==
  {Outcome([cell EXCEPT !.setting = v], output, FALSE), Failure([cell EXCEPT !.setting = v], output)}

Handled(command) ==
  CASE command.target = "mode" -> ModeWrite(command.value)
    [] command.target = "enable" -> EnableWrite(command.value)
    [] command.target = "phase_selection" -> PhaseWrite(command.value)
    [] command.target = "set_current" /\ HasCharger -> CurrentWrite(command.value)
    [] OTHER -> SettingWrite(command.value)

-----------------------------------------------------------------------------
(* The queue of the executor                                               *)

\* enqueue: the newest command of a target replaces the older one and moves
\* to the end; beyond the limit the oldest target is dropped.
WithoutTarget(q, target) ==
  LET places == {i \in DOMAIN q : q[i].target = target}
  IN IF places = {} THEN q ELSE RemoveAt(q, CHOOSE i \in places : TRUE)

Enqueued(q, command) ==
  LET all == Append(WithoutTarget(q, command.target), command)
  IN SubSeq(all, IF Len(all) > QueueMax THEN 2 ELSE 1, Len(all))

CwEnqueue(command) ==
  /\ left > 0
  /\ lane' = Enqueued(lane, command)
  /\ left' = left - 1
  /\ UNCHANGED <<cell, output, cwWish, txn, batch, disk, written, staging, sinceSave, flush, unsaved>>

\* The executor takes all queued commands at once; between cycles only.
CwDrain ==
  /\ batch = <<>> /\ lane # <<>> /\ flush = NoOrder
  /\ batch' = lane /\ lane' = <<>>
  /\ UNCHANGED <<cell, output, cwWish, txn, disk, written, staging, sinceSave, flush, unsaved, left>>

-----------------------------------------------------------------------------
(* The transaction                                                         *)

\* One command at a time: the lock, then the snapshot.
Begin(command, origin) ==
  /\ txn.step = "idle"
  /\ txn' = [step |-> "execute", origin |-> origin, command |-> command, saved |-> cell, effect |-> FALSE]

CwBeginQueued ==
  /\ batch # <<>>
  /\ Begin(Head(batch), "executor")
  /\ batch' = Tail(batch)
  /\ UNCHANGED <<cell, output, cwWish, lane, disk, written, staging, sinceSave, flush, unsaved, left>>

CwBeginHttp(command) ==
  /\ left > 0
  /\ Begin(command, "http")
  /\ left' = left - 1
  /\ UNCHANGED <<cell, output, cwWish, lane, batch, disk, written, staging, sinceSave, flush, unsaved>>

\* The handler: a failure leads to the roll-back, as no side effect started.
CwExecute ==
  /\ txn.step = "execute"
  /\ \E r \in Handled(txn.command) :
       /\ cell' = r.cell /\ output' = r.output
       /\ txn' = [txn EXCEPT !.step = IF r.ok THEN "save" ELSE "reject", !.effect = r.effect]
  /\ UNCHANGED <<cwWish, lane, batch, disk, written, staging, sinceSave, flush, unsaved, left>>

\* save_runtime_state: a failing write is logged, not raised.
CwSave ==
  /\ txn.step = "save"
  /\ txn' = [txn EXCEPT !.step = "overrides"]
  /\ disk' \in {disk, [disk EXCEPT !.state = Durable(cell)]}
  /\ UNCHANGED <<cell, output, cwWish, lane, batch, written, staging, sinceSave, flush, unsaved, left>>

\* The state could not even be built: rejected, but in flight after a side
\* effect, with a setting that nobody saves.
CwSaveRaises ==
  /\ txn.step = "save"
  /\ txn' = [txn EXCEPT !.step = IF txn.effect THEN "inflight" ELSE "reject"]
  /\ unsaved' = (unsaved \/ (txn.effect /\ cell.setting # txn.saved.setting))
  /\ UNCHANGED <<cell, output, cwWish, lane, batch, disk, written, staging, sinceSave, flush, left>>

Unstaged == [value |-> NoOrder, due |-> 0]

\* How long the next write of the overrides has to wait.
DueIn ==
  IF staging.due > 0 THEN staging.due ELSE MinInterval - sinceSave

Mutant_StagedKept == UNCHANGED <<disk, written, staging, sinceSave>>

\* save_runtime_overrides: values equal to the file cancel what is staged.
SaveUnchanged ==
  /\ staging' = Unstaged
  /\ UNCHANGED <<disk, written, sinceSave>>

WriteOverrides(v) ==
  /\ disk' = [disk EXCEPT !.overrides = v]
  /\ written' = v /\ sinceSave' = 0 /\ staging' = Unstaged

StageOverrides(v, due) ==
  /\ staging' = [value |-> v, due |-> due]
  /\ UNCHANGED <<disk, written, sinceSave>>

CwOverrides ==
  /\ txn.step = "overrides"
  /\ txn' = [txn EXCEPT !.step = "commit"]
  /\ \/ cell.setting = written /\ SaveUnchanged
     \/ cell.setting # written /\ DueIn > 0 /\ StageOverrides(cell.setting, DueIn)
     \/ cell.setting # written /\ DueIn = 0 /\ WriteOverrides(cell.setting)
     \/ cell.setting # written /\ DueIn = 0 /\ StageOverrides(cell.setting, MinInterval)
  /\ unsaved' = (flush # NoOrder)
  /\ UNCHANGED <<cell, output, cwWish, lane, batch, flush, left>>

\* The publications are sent: all accepted, or one refused, after which the
\* command counts as in flight.
CwCommit ==
  /\ txn.step = "commit"
  /\ txn' \in {IdleTxn, [txn EXCEPT !.step = "inflight"]}
  /\ UNCHANGED <<cell, output, cwWish, lane, batch, disk, written, staging, sinceSave, flush, unsaved, left>>

\* In flight: the publications are sent once more, best effort.
CwInFlight ==
  /\ txn.step = "inflight"
  /\ txn' = IdleTxn
  /\ UNCHANGED <<cell, output, cwWish, lane, batch, disk, written, staging, sinceSave, flush, unsaved, left>>

\* restore_write_state: every attribute of the snapshot, among them the
\* pending relay command and the readings, whatever changed them since.
CwReject ==
  /\ txn.step = "reject"
  /\ cell' = txn.saved
  /\ txn' = IdleTxn
  /\ UNCHANGED <<output, cwWish, lane, batch, disk, written, staging, sinceSave, flush, unsaved, left>>

-----------------------------------------------------------------------------
(* The relay worker and the update cycle                                   *)

\* The relay worker carries the pending command out and reads the result.
CwWorker ==
  /\ cell.pending # NoOrder
  /\ output' = cell.pending
  /\ cell' = [cell EXCEPT !.pending = NoOrder, !.reading = cell.pending]
  /\ UNCHANGED <<cwWish, txn, lane, batch, disk, written, staging, sinceSave, flush, unsaved, left>>

\* It reads the output between commands.
CwPoll ==
  /\ cell.pending = NoOrder /\ cell.reading # output
  /\ cell' = [cell EXCEPT !.reading = output]
  /\ UNCHANGED <<output, cwWish, txn, lane, batch, disk, written, staging, sinceSave, flush, unsaved, left>>

\* The executor runs a cycle when it handles no command of its own.
CycleMayRun == batch = <<>> /\ txn.origin # "executor" /\ flush = NoOrder

Wanted == IF cell.enable = 1 THEN cwWish ELSE 0

Mutant_TrustsRemembered == cell.on # Wanted

\* Whether the relay has to be switched: the confirmed reading differs from
\* what the decision asks for.
MustSwitch == cell.reading # Wanted

\* apply_enabled_target: the charger is switched, and may refuse (backoff) or
\* raise before or after it has acted, or a command is queued for the worker.
Switched(c, on) ==
  IF HasCharger
  THEN [cell : {[c EXCEPT !.on = on]}, output : {on}] \cup [cell : {c}, output : {output, on}]
  ELSE [cell : {Queued([c EXCEPT !.on = on], on)}, output : {output}]

\* apply_relay_decision: nothing to do while the output is expected to get there
Decided(on) ==
  IF cell.expected = on THEN [cell : {cell}, output : {output}] ELSE Switched(cell, on)

\* What was expected is read, or its deadline has passed.
Unexpected(c) == [c EXCEPT !.expected = NoOrder]

\* In automatic mode the cycle switches what has to be switched, and checks what
\* it expects.
CwCycle ==
  /\ CycleMayRun
  /\ cell.mode = "auto" /\ cell.staged = NoPhase
  /\ cell.pending = NoOrder /\ cell.reading # NoOrder
  /\ \E r \in IF MustSwitch THEN Decided(Wanted) ELSE [cell : {cell}, output : {output}] :
       /\ output' = r.output
       /\ cell' \in {r.cell} \cup IF r.cell.pending = NoOrder THEN {Unexpected(r.cell)} ELSE {}
  /\ disk' \in {disk, [disk EXCEPT !.state = Durable(cell')]}
  /\ UNCHANGED <<cwWish, txn, lane, batch, written, staging, sinceSave, flush, unsaved, left>>

\* A staged selection waits for the output to be off, is applied, and the
\* output resumes in manual mode.
CwStagedPhase ==
  /\ CycleMayRun
  /\ cell.staged # NoPhase /\ cell.pending = NoOrder /\ cell.reading # NoOrder
  /\ LET applied == [cell EXCEPT !.active = cell.staged, !.requested = cell.staged, !.staged = NoPhase]
     IN  \E r \in IF cell.reading = 1 THEN Decided(0)
                  ELSE IF cell.mode = "manual" /\ cell.enable = 1 THEN Switched(applied, 1)
                  ELSE [cell : {applied}, output : {output}] :
           /\ output' = r.output
           /\ cell' \in {r.cell} \cup IF r.cell.pending = NoOrder THEN {Unexpected(r.cell)} ELSE {}
  /\ disk' \in {disk, [disk EXCEPT !.state = Durable(cell')]}
  /\ UNCHANGED <<cwWish, txn, lane, batch, written, staging, sinceSave, flush, unsaved, left>>

\* At the end of a cycle: staged overrides that are due are read ...
CwFlushRead ==
  /\ CycleMayRun
  /\ staging.value # NoOrder /\ staging.due = 0
  /\ flush' = staging.value
  /\ UNCHANGED <<cell, output, cwWish, txn, lane, batch, disk, written, staging, sinceSave, unsaved, left>>

\* ... and written; a failing write is tried again after the interval.
CwFlushWrite ==
  /\ flush # NoOrder
  /\ flush' = NoOrder
  /\ \/ WriteOverrides(flush)
     \/ /\ staging' = [staging EXCEPT !.due = MinInterval]
        /\ UNCHANGED <<disk, written, sinceSave>>
  /\ UNCHANGED <<cell, output, cwWish, txn, lane, batch, unsaved, left>>

\* Time passes for the staged overrides.
CwClock ==
  /\ staging.due > 0 \/ sinceSave < MinInterval
  /\ staging' = [staging EXCEPT !.due = IF @ > 0 THEN @ - 1 ELSE 0]
  /\ sinceSave' = IF sinceSave < MinInterval THEN sinceSave + 1 ELSE sinceSave
  /\ UNCHANGED <<cell, output, cwWish, txn, lane, batch, disk, written, flush, unsaved, left>>

\* The service restarts: state and overrides are read back, the rest is lost.
CwRestart ==
  /\ left > 0 /\ left' = left - 1
  /\ cell' = CwRestored(disk)
  /\ txn' = IdleTxn /\ lane' = <<>> /\ batch' = <<>>
  /\ written' = disk.overrides /\ staging' = Unstaged /\ sinceSave' = MinInterval
  /\ flush' = NoOrder /\ unsaved' = FALSE
  /\ UNCHANGED <<output, cwWish, disk>>

CwRun == CwWorker \/ CwPoll \/ CwCycle \/ CwStagedPhase \/ CwFlushRead \/ CwFlushWrite \/ CwClock

CwNext ==
  \/ \E command \in Commands_ : CwEnqueue(command) \/ CwBeginHttp(command)
  \/ CwDrain \/ CwBeginQueued
  \/ CwExecute \/ CwSave \/ CwSaveRaises \/ CwOverrides \/ CwCommit \/ CwInFlight \/ CwReject
  \/ CwRun \/ CwRestart

\* What the cycle asks of the output: while a phase is staged, to be off.
Asked == IF cell.staged = NoPhase THEN Wanted ELSE 0

\* A cycle that gets on: what it expected has come or is given up at its
\* deadline, or the charger that is asked does as it is told.
CycleAdvances ==
  /\ CwCycle \/ CwStagedPhase
  /\ IF cell.expected # NoOrder THEN cell'.expected # cell.expected
     ELSE HasCharger /\ cell.reading # Asked => output' = Asked

\* The worker and the executor are threads that keep running, and a command
\* once begun ends.  Every cycle decides before it flushes, so that flushes
\* which fail again and again cannot keep the decision from being taken:
\* strong fairness for the cycle.  A charger asked over and over obeys in the end.
CwFairness ==
  /\ WF_cwVars(CwWorker \/ CwPoll)
  /\ SF_cwVars(CycleAdvances)
  /\ WF_cwVars(CwDrain \/ CwBeginQueued)
  /\ WF_cwVars(CwFlushWrite)
  /\ WF_cwVars(CwExecute \/ CwSave \/ CwOverrides \/ CwCommit \/ CwInFlight \/ CwReject)

CwSpec == CwInit /\ [][CwNext]_cwVars /\ CwFairness

-----------------------------------------------------------------------------
(* Properties                                                              *)

\* Types of the write controller's state.
CwTypeOK ==
  /\ {cell.pending, cell.expected, cell.reading} \subseteq {0, 1, NoOrder}
  /\ cell.mode \in {"manual", "auto"} /\ {cell.enable, cell.on, output} \subseteq {0, 1}
  /\ Len(lane) <= QueueMax /\ staging.due \in 0 .. MinInterval /\ sinceSave \in 0 .. MinInterval
  /\ txn.step \in {"idle", "execute", "save", "overrides", "commit", "inflight", "reject"}

\* A setting is never only in memory: between commands it is what the
\* overrides file holds or what is staged for it, through staging, failed
\* writes, settings taken back before they were written, rejected commands
\* and restarts.  Two commands leave it there until the next one that is saved:
\* one whose overrides were saved by another thread while a flush was under way
\* (RuntimeOverrideStore.save and flush), and a set_current that had reached the
\* charger when saving the state raised (_handle_control_command_locked).
SettingReachesDisk ==
  txn.step = "idle" /\ flush = NoOrder /\ ~unsaved =>
    cell.setting = IF staging.value # NoOrder THEN staging.value ELSE disk.overrides

\* What automatic mode asks for is done in the end: a relay that has to be
\* off, because it is disabled or by the decision, goes off even if a failing
\* command restored the pending command and the readings from before the off
\* was queued or carried out, or a charger acted on a command that was
\* rejected (restore_write_state).
OffRestored ==
  [](cell.mode = "auto" /\ Wanted = 0 => <>(output = 0 \/ cell.mode # "auto" \/ Wanted # 0))
=============================================================================
