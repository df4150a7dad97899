------------------------- MODULE PhaseSwitch_proofs -------------------------
(***************************************************************************)
(* Theorems about PhaseSwitch, for every set of selections and every bound *)
(* on writes, switches and restarts: the type invariant, and that a staged *)
(* phase write never moves the contactors under load.                      *)
(***************************************************************************)
EXTENDS PhaseSwitch, TLAPS

USE PhaseAssumption

(* What a running cycle goes by is never taken for "no cycle runs". *)
LEMMA ViewRuns == \A v \in Views : v # NoView
  BY DEF Views, NoView, Outputs

(* What the update cycle writes into its view keeps the view's type. *)
LEMMA ViewTypes ==
  ASSUME view \in Views
  PROVE  /\ [view EXCEPT !.hold = TRUE] \in Views
         /\ [view EXCEPT !.relay = "off", !.confirmed = FALSE, !.hold = TRUE] \in Views
         /\ [view EXCEPT !.relay = "on", !.confirmed = FALSE] \in Views
<1>1. [view EXCEPT !.hold = TRUE] \in Views
  BY DEF Views
<1>2. [view EXCEPT !.relay = "off", !.confirmed = FALSE, !.hold = TRUE] \in Views
  BY DEF Views, Outputs
<1>3. [view EXCEPT !.relay = "on", !.confirmed = FALSE] \in Views
  BY DEF Views, Outputs
<1> QED
  BY <1>1, <1>2, <1>3

(* The view with which an update cycle begins. *)
LEMMA SeenType ==
  ASSUME Status \in Reading, auto \in BOOLEAN, NEW r \in Outputs, NEW c \in BOOLEAN
  PROVE  Seen(r, c) \in Views
  BY DEF Views, Outputs, Seen, Reading

(* The type invariant survives a control write. *)
LEMMA TypeWriteStep == TypeOK /\ ControlWrite => TypeOK'
<1> SUFFICES ASSUME TypeOK, ControlWrite PROVE TypeOK'
  OBVIOUS
<1> USE DEF TypeOK, Outputs, Commands, Optional, NoSelection, Reading, NoReading,
            device, commands, io, mode, selection, staged, mismatch, wish, bounds,
            history
<1>1. CASE \E s \in Selections : StagePhaseWrite(s)
  <2>1. TypeIO' /\ TypeCycle' /\ TypeSwitch' /\ TypeBounds'
    BY <1>1 DEF StagePhaseWrite, Write, Stage, Queue, Placeholder,
       TypeIO, TypeCycle, TypeSwitch, TypeBounds
  <2>2. TypeFlags'
    BY Zenon, <1>1 DEF StagePhaseWrite, Write, Stage, Queue, Placeholder, TypeFlags
  <2> QED
    BY <2>1, <2>2
<1>2. CASE \E s \in Selections : DirectPhaseWrite(s)
  <2>1. TypeIO' /\ TypeCycle' /\ TypeSwitch' /\ TypeBounds'
    BY <1>2 DEF DirectPhaseWrite, Write, Move,
       TypeIO, TypeCycle, TypeSwitch, TypeBounds
  <2>2. TypeFlags'
    BY Zenon, <1>2 DEF DirectPhaseWrite, Write, Move, TypeFlags
  <2> QED
    BY <2>1, <2>2
<1>3. CASE StopWrite
  <2>1. TypeIO' /\ TypeCycle' /\ TypeSwitch' /\ TypeBounds'
    BY <1>3 DEF StopWrite, Write, Queue, Placeholder,
       TypeIO, TypeCycle, TypeSwitch, TypeBounds
  <2>2. TypeFlags'
    BY Zenon, <1>3 DEF StopWrite, Write, Queue, Placeholder, TypeFlags
  <2> QED
    BY <2>1, <2>2
<1>4. CASE StartWrite
  <2>1. TypeIO' /\ TypeCycle' /\ TypeSwitch' /\ TypeBounds'
    BY <1>4 DEF StartWrite, Write, Queue, Placeholder,
       TypeIO, TypeCycle, TypeSwitch, TypeBounds
  <2>2. TypeFlags'
    BY Zenon, <1>4 DEF StartWrite, Write, Queue, Placeholder, TypeFlags
  <2> QED
    BY <2>1, <2>2
<1>5. CASE AutoWrite
  <2>1. TypeIO' /\ TypeCycle' /\ TypeSwitch' /\ TypeBounds'
    BY <1>5 DEF AutoWrite, Write, Queue, Placeholder,
       TypeIO, TypeCycle, TypeSwitch, TypeBounds
  <2>2. TypeFlags'
    BY Zenon, <1>5 DEF AutoWrite, Write, Queue, Placeholder, TypeFlags
  <2> QED
    BY <2>1, <2>2
<1>6. CASE ManualWrite
  <2>1. TypeIO' /\ TypeCycle' /\ TypeSwitch' /\ TypeBounds'
    BY <1>6 DEF ManualWrite, Write, Queue, Placeholder,
       TypeIO, TypeCycle, TypeSwitch, TypeBounds
  <2>2. TypeFlags'
    BY Zenon, <1>6 DEF ManualWrite, Write, Queue, Placeholder, TypeFlags
  <2> QED
    BY <2>1, <2>2
<1>7. CASE ResetWrite
  <2>1. TypeIO' /\ TypeCycle' /\ TypeSwitch' /\ TypeBounds'
    BY <1>7 DEF ResetWrite, Write,
       TypeIO, TypeCycle, TypeSwitch, TypeBounds
  <2>2. TypeFlags'
    BY Zenon, <1>7 DEF ResetWrite, Write, TypeFlags
  <2> QED
    BY <2>1, <2>2
<1> QED
  BY <1>1, <1>2, <1>3, <1>4, <1>5, <1>6, <1>7 DEF ControlWrite

(* The type invariant survives a step of the I/O worker. *)
LEMMA TypeWorkerStep == TypeOK /\ Worker => TypeOK'
<1> SUFFICES ASSUME TypeOK, Worker PROVE TypeOK'
  OBVIOUS
<1> USE DEF TypeOK, Outputs, Commands, Optional, NoSelection, Reading, NoReading,
            device, commands, io, mode, selection, staged, mismatch, wish, bounds,
            history
<1>1. CASE WorkerTake
  <2>1. TypeIO' /\ TypeCycle' /\ TypeSwitch' /\ TypeBounds'
    BY <1>1 DEF WorkerTake,
       TypeIO, TypeCycle, TypeSwitch, TypeBounds
  <2>2. TypeFlags'
    BY Zenon, <1>1 DEF WorkerTake, TypeFlags
  <2> QED
    BY <2>1, <2>2
<1>2. CASE WorkerSwitch
  <2>1. TypeIO' /\ TypeCycle' /\ TypeSwitch' /\ TypeBounds'
    BY <1>2 DEF WorkerSwitch, ClearPending, Placeholder,
       TypeIO, TypeCycle, TypeSwitch, TypeBounds
  <2>2. TypeFlags'
    BY Zenon, <1>2 DEF WorkerSwitch, ClearPending, Placeholder, TypeFlags
  <2> QED
    BY <2>1, <2>2
<1>3. CASE WorkerSwitchFails
  <2>1. TypeIO' /\ TypeCycle' /\ TypeSwitch' /\ TypeBounds'
    BY <1>3 DEF WorkerSwitchFails,
       TypeIO, TypeCycle, TypeSwitch, TypeBounds
  <2>2. TypeFlags'
    BY Zenon, <1>3 DEF WorkerSwitchFails, TypeFlags
  <2> QED
    BY <2>1, <2>2
<1>4. CASE WorkerSkip
  <2>1. TypeIO' /\ TypeCycle' /\ TypeSwitch' /\ TypeBounds'
    BY <1>4 DEF WorkerSkip,
       TypeIO, TypeCycle, TypeSwitch, TypeBounds
  <2>2. TypeFlags'
    BY Zenon, <1>4 DEF WorkerSkip, TypeFlags
  <2> QED
    BY <2>1, <2>2
<1>5. CASE WorkerRead
  <2>1. TypeIO' /\ TypeCycle' /\ TypeSwitch' /\ TypeBounds'
    BY <1>5 DEF WorkerRead,
       TypeIO, TypeCycle, TypeSwitch, TypeBounds
  <2>2. TypeFlags'
    BY Zenon, <1>5 DEF WorkerRead, TypeFlags
  <2> QED
    BY <2>1, <2>2
<1>6. CASE WorkerPublish
  <2>1. TypeIO' /\ TypeCycle' /\ TypeSwitch' /\ TypeBounds'
    BY <1>6 DEF WorkerPublish,
       TypeIO, TypeCycle, TypeSwitch, TypeBounds
  <2>2. TypeFlags'
    BY Zenon, <1>6 DEF WorkerPublish, TypeFlags
  <2> QED
    BY <2>1, <2>2
<1>7. CASE WorkerReadFails
  <2>1. TypeIO' /\ TypeCycle' /\ TypeSwitch' /\ TypeBounds'
    BY <1>7 DEF WorkerReadFails, Placeholder,
       TypeIO, TypeCycle, TypeSwitch, TypeBounds
  <2>2. TypeFlags'
    BY Zenon, <1>7 DEF WorkerReadFails, Placeholder, TypeFlags
  <2> QED
    BY <2>1, <2>2
<1> QED
  BY <1>1, <1>2, <1>3, <1>4, <1>5, <1>6, <1>7 DEF Worker

(* The type invariant survives a step of the update cycle. *)
LEMMA TypeCycleStep == TypeOK /\ Cycle => TypeOK'
<1> SUFFICES ASSUME TypeOK, Cycle PROVE TypeOK'
  OBVIOUS
<1> USE DEF TypeOK, Outputs, Commands, Optional, NoSelection, Reading, NoReading,
            device, commands, io, mode, selection, staged, mismatch, wish, bounds,
            history
<1>1. CASE CycleOffline
  <2>1. TypeIO' /\ TypeCycle' /\ TypeSwitch' /\ TypeBounds'
    BY <1>1 DEF CycleOffline,
       TypeIO, TypeCycle, TypeSwitch, TypeBounds
  <2>2. TypeFlags'
    BY Zenon, <1>1 DEF CycleOffline, TypeFlags
  <2> QED
    BY <2>1, <2>2
<1>2. CASE CycleBegin
  <2>1. Status \in Reading
    BY <1>2 DEF CycleBegin, Status, TypeIO
  <2>2. TypeIO'
    <3>1. cached' \in Reading
      BY <1>2, <2>1 DEF CycleBegin
    <3>2. /\ pending' \in Commands /\ expected' \in Commands /\ startup' \in Commands
          /\ snapshot' \in {snapshot, NoReading}
      BY <1>2 DEF CycleBegin, Queue, Placeholder, TypeIO
    <3>3. UNCHANGED <<device, io>>
      BY <1>2 DEF CycleBegin
    <3> QED
      BY <3>1, <3>2, <3>3 DEF TypeIO
  <2>6. TypeSwitch' /\ TypeBounds'
    BY <1>2 DEF CycleBegin, TypeSwitch, TypeBounds
  <2>3. view' \in Views
    BY <1>2, <2>1, SeenType DEF CycleBegin, TypeIO, TypeFlags
  <2>4. TypeCycle'
    BY <1>2, <2>3, ViewRuns DEF CycleBegin, TypeCycle
  <2>5. TypeFlags'
    BY Zenon, <1>2 DEF CycleBegin, Queue, Placeholder, Status, TypeFlags
  <2> QED
    BY <2>2, <2>4, <2>5, <2>6
<1>3. CASE NoSwitch
  <2>1. view \in Views
    BY <1>3 DEF NoSwitch, Orchestrate, TypeCycle
  <2>2. TypeCycle'
    BY <1>3, <2>1, ViewTypes, ViewRuns DEF NoSwitch, Orchestrate, TypeCycle
  <2>3. TypeIO' /\ TypeSwitch' /\ TypeBounds'
    BY <1>3, <2>1 DEF NoSwitch, Orchestrate, Views,
       TypeIO, TypeSwitch, TypeBounds
  <2>4. TypeFlags'
    BY Zenon, <1>3 DEF NoSwitch, Orchestrate, TypeFlags
  <2> QED
    BY <2>2, <2>3, <2>4
<1>4. CASE WaitForRelay
  <2>1. view \in Views
    BY <1>4 DEF WaitForRelay, Orchestrate, TypeCycle
  <2>2. TypeCycle'
    BY <1>4, <2>1, ViewTypes, ViewRuns DEF WaitForRelay, Orchestrate, TypeCycle
  <2>3. TypeIO' /\ TypeSwitch' /\ TypeBounds'
    BY <1>4, <2>1 DEF WaitForRelay, Orchestrate, Views,
       TypeIO, TypeSwitch, TypeBounds
  <2>4. TypeFlags'
    BY Zenon, <1>4 DEF WaitForRelay, Orchestrate, TypeFlags
  <2> QED
    BY <2>2, <2>3, <2>4
<1>5. CASE ApplyPending
  <2>1. view \in Views
    BY <1>5 DEF ApplyPending, Orchestrate, TypeCycle
  <2>2. TypeCycle'
    BY <1>5, <2>1, ViewTypes, ViewRuns DEF ApplyPending, Orchestrate, Held, TypeCycle
  <2>3. TypeIO' /\ TypeSwitch' /\ TypeBounds'
    BY <1>5, <2>1 DEF ApplyPending, Orchestrate, Applying, Move, Held, Views,
       TypeIO, TypeSwitch, TypeBounds
  <2>4. TypeFlags'
    BY Zenon, <1>5 DEF ApplyPending, Orchestrate, Applying, Move, Held, TypeFlags
  <2> QED
    BY <2>2, <2>3, <2>4
<1>6. CASE ApplyFails
  <2>1. view \in Views
    BY <1>6 DEF ApplyFails, Orchestrate, TypeCycle
  <2>2. TypeCycle'
    BY <1>6, <2>1, ViewTypes, ViewRuns DEF ApplyFails, Orchestrate, ResumeRelay, TypeCycle
  <2>3. TypeIO' /\ TypeSwitch' /\ TypeBounds'
    BY <1>6, <2>1 DEF ApplyFails, Orchestrate, Applying, Move, ResumeRelay, ClearSwitch,
       Queue, Placeholder, Views,
       TypeIO, TypeSwitch, TypeBounds
  <2>4. TypeFlags'
    BY Zenon, <1>6 DEF ApplyFails, Orchestrate, Applying, Move, ResumeRelay, ClearSwitch,
       Queue, Placeholder, TypeFlags
  <2> QED
    BY <2>2, <2>3, <2>4
<1>7. CASE Stabilizing
  <2>1. view \in Views
    BY <1>7 DEF Stabilizing, Orchestrate, TypeCycle
  <2>2. TypeCycle'
    BY <1>7, <2>1, ViewTypes, ViewRuns DEF Stabilizing, Orchestrate, Held, TypeCycle
  <2>3. TypeIO' /\ TypeSwitch' /\ TypeBounds'
    BY <1>7, <2>1 DEF Stabilizing, Orchestrate, Held, Views,
       TypeIO, TypeSwitch, TypeBounds
  <2>4. TypeFlags'
    BY Zenon, <1>7 DEF Stabilizing, Orchestrate, Held, TypeFlags
  <2> QED
    BY <2>2, <2>3, <2>4
<1>8. CASE MismatchReported
  <2>1. view \in Views
    BY <1>8 DEF MismatchReported, Orchestrate, TypeCycle
  <2>2. TypeCycle'
    BY <1>8, <2>1, ViewTypes, ViewRuns DEF MismatchReported, Orchestrate, ResumeRelay, TypeCycle
  <2>3. TypeIO' /\ TypeSwitch' /\ TypeBounds'
    BY <1>8, <2>1 DEF MismatchReported, CountMismatch, Orchestrate, ResumeRelay, ClearSwitch,
       Queue,
       Placeholder, Views,
       TypeIO, TypeSwitch, TypeBounds
  <2>4. TypeFlags'
    BY Zenon, <1>8 DEF MismatchReported, Orchestrate, ResumeRelay, ClearSwitch, Queue,
       Placeholder, TypeFlags
  <2> QED
    BY <2>2, <2>3, <2>4
<1>9. CASE Complete
  <2>1. view \in Views
    BY <1>9 DEF Complete, Orchestrate, TypeCycle
  <2>2. TypeCycle'
    BY <1>9, <2>1, ViewTypes, ViewRuns DEF Complete, Orchestrate, ResumeRelay, TypeCycle
  <2>3. TypeIO' /\ TypeSwitch' /\ TypeBounds'
    BY <1>9, <2>1 DEF Complete, Orchestrate, ClearMismatch, ResumeRelay, ClearSwitch, Queue,
       Placeholder, Views,
       TypeIO, TypeSwitch, TypeBounds
  <2>4. TypeFlags'
    BY Zenon, <1>9 DEF Complete, Orchestrate, ClearMismatch, ResumeRelay, ClearSwitch, Queue,
       Placeholder, TypeFlags
  <2> QED
    BY <2>2, <2>3, <2>4
<1>10. CASE Decide
  <2>1. TypeCycle'
    BY <1>10 DEF Decide, TypeCycle, NoView
  <2>2. PICK d \in Outputs :
           \/ NoPhaseChange(d) /\ ApplyRelay(d, FALSE)
           \/ \E t \in Selections : AutoStage(d, t) /\ ApplyRelay("off", TRUE)
           \/ \E t \in Selections : AutoApply(d, t) /\ ApplyRelay(d, FALSE)
    BY <1>10 DEF Decide
  <2>3. pending' \in Commands /\ expected' \in Commands
        /\ snapshot' \in {snapshot, NoReading}
    BY <2>2 DEF ApplyRelay, RelaySync, Queue, Placeholder, TypeIO
  <2>8. startstop' \in BOOLEAN
    BY Zenon, <2>2 DEF ApplyRelay
  <2>4. phases' \in Selections /\ TypeSwitch' /\ switches' \in 0 .. MaxSwitches
    <3>1. CASE NoPhaseChange(d)
      <4>1. AutoTargets(d) \subseteq Selections
        BY DEF AutoTargets, Lowest, NextUp, NextDown, TypeSwitch
      <4>2. candidate' \in Optional
        BY <3>1, <4>1 DEF NoPhaseChange, NoCandidate, TypeSwitch
      <4> QED
        BY <3>1, <4>2 DEF NoPhaseChange, TypeIO, TypeSwitch, TypeBounds
    <3>2. CASE \E t \in Selections : AutoStage(d, t)
      BY <3>2 DEF AutoStage, AutoChange, NoCandidate, Stage, TypeIO, TypeSwitch, TypeBounds
    <3>3. CASE \E t \in Selections : AutoApply(d, t)
      <4>1. PICK t \in Selections : AutoApply(d, t)
        BY <3>3
      <4>2. phases' \in Selections /\ switches' \in 0 .. MaxSwitches /\ candidate' \in Optional
        BY <4>1 DEF AutoApply, AutoChange, NoCandidate, Move, TypeIO, TypeBounds
      <4>3. /\ requested' \in Selections /\ active' \in Selections
            /\ counts' \in [Selections -> Nat] /\ last' \in Optional /\ lockout' \in Optional
            /\ locked' \subseteq Selections
        <5>1. CASE requested' = t /\ active' = t /\ ClearMismatch(t)
          BY <5>1 DEF ClearMismatch, TypeSwitch
        <5>2. CASE UNCHANGED <<selection, mismatch, locked>>
          BY <5>2 DEF TypeSwitch
        <5> QED
          BY <4>1, <5>1, <5>2 DEF AutoApply
      <4> QED
        BY <4>1, <4>2, <4>3 DEF AutoApply, TypeSwitch
    <3> QED
      BY <2>2, <3>1, <3>2, <3>3
  <2>5. TypeIO' /\ TypeBounds'
    BY <1>10, <2>3, <2>4 DEF Decide, TypeIO, TypeBounds
  <2>6. resume' \in BOOLEAN /\ ripe' \in BOOLEAN /\ manualCut' \in BOOLEAN
    BY Zenon, <2>2 DEF NoPhaseChange, AutoStage, AutoApply, AutoChange, NoCandidate, Stage,
       TypeFlags
  <2>7. TypeFlags'
    BY Zenon, <1>10, <2>8, <2>6 DEF Decide, TypeFlags
  <2> QED
    BY <2>1, <2>4, <2>5, <2>7
<1> QED
  BY <1>1, <1>2, <1>3, <1>4, <1>5, <1>6, <1>7, <1>8, <1>9, <1>10 DEF Cycle

(* The type invariant survives the passing of time. *)
LEMMA TypeTimeStep == TypeOK /\ Time => TypeOK'
<1> SUFFICES ASSUME TypeOK, Time PROVE TypeOK'
  OBVIOUS
<1> USE DEF TypeOK, Outputs, Commands, Optional, NoSelection, Reading, NoReading,
            device, commands, io, mode, selection, staged, mismatch, wish, bounds,
            history
<1>1. CASE TimerElapses
  <2>1. TypeIO' /\ TypeCycle' /\ TypeSwitch' /\ TypeBounds'
    BY <1>1 DEF TimerElapses,
       TypeIO, TypeCycle, TypeSwitch, TypeBounds
  <2>2. TypeFlags'
    BY Zenon, <1>1 DEF TimerElapses, TypeFlags
  <2> QED
    BY <2>1, <2>2
<1>2. CASE VerificationExpires
  <2>1. TypeIO' /\ TypeCycle' /\ TypeSwitch' /\ TypeBounds'
    BY <1>2 DEF VerificationExpires,
       TypeIO, TypeCycle, TypeSwitch, TypeBounds
  <2>2. TypeFlags'
    BY Zenon, <1>2 DEF VerificationExpires, TypeFlags
  <2> QED
    BY <2>1, <2>2
<1>3. CASE RetryElapses
  <2>1. TypeIO' /\ TypeCycle' /\ TypeSwitch' /\ TypeBounds'
    BY <1>3 DEF RetryElapses,
       TypeIO, TypeCycle, TypeSwitch, TypeBounds
  <2>2. TypeFlags'
    BY Zenon, <1>3 DEF RetryElapses, TypeFlags
  <2> QED
    BY <2>1, <2>2
<1>4. CASE LockoutElapses
  <2>1. TypeIO' /\ TypeCycle' /\ TypeSwitch' /\ TypeBounds'
    BY <1>4 DEF LockoutElapses,
       TypeIO, TypeCycle, TypeSwitch, TypeBounds
  <2>2. TypeFlags'
    BY Zenon, <1>4 DEF LockoutElapses, TypeFlags
  <2> QED
    BY <2>1, <2>2
<1>5. CASE CandidateRipens
  <2>1. TypeIO' /\ TypeCycle' /\ TypeSwitch' /\ TypeBounds'
    BY <1>5 DEF CandidateRipens,
       TypeIO, TypeCycle, TypeSwitch, TypeBounds
  <2>2. TypeFlags'
    BY Zenon, <1>5 DEF CandidateRipens, TypeFlags
  <2> QED
    BY <2>1, <2>2
<1>6. CASE CachedExpires
  <2>1. TypeIO' /\ TypeCycle' /\ TypeSwitch' /\ TypeBounds'
    BY <1>6 DEF CachedExpires,
       TypeIO, TypeCycle, TypeSwitch, TypeBounds
  <2>2. TypeFlags'
    BY Zenon, <1>6 DEF CachedExpires, TypeFlags
  <2> QED
    BY <2>1, <2>2
<1>7. CASE SnapshotExpires
  <2>1. TypeIO' /\ TypeCycle' /\ TypeSwitch' /\ TypeBounds'
    BY <1>7 DEF SnapshotExpires,
       TypeIO, TypeCycle, TypeSwitch, TypeBounds
  <2>2. TypeFlags'
    BY Zenon, <1>7 DEF SnapshotExpires, TypeFlags
  <2> QED
    BY <2>1, <2>2
<1> QED
  BY <1>1, <1>2, <1>3, <1>4, <1>5, <1>6, <1>7 DEF Time

(* The type invariant survives a restart of the service. *)
LEMMA TypeRestartStep == TypeOK /\ Restart => TypeOK'
<1> SUFFICES ASSUME TypeOK, Restart PROVE TypeOK'
  OBVIOUS
<1> USE DEF TypeOK, Outputs, Commands, Optional, NoSelection, Reading, NoReading,
            device, commands, io, mode, selection, staged, mismatch, wish, bounds,
            history
<1>1. TypeIO'
  <2>1. relay' \in Outputs
    BY DEF Restart, TypeIO
  <2>2. phases' \in Selections
    BY DEF Restart, Applying, TypeIO, TypeSwitch
  <2> QED
    BY <2>1, <2>2 DEF Restart, TypeIO
<1>2. TypeCycle' /\ TypeSwitch' /\ TypeBounds'
  BY DEF Restart, NoCandidate, TypeCycle, TypeSwitch, TypeBounds
<1>3. TypeFlags'
  BY Zenon DEF Restart, NoCandidate, TypeFlags
<1> QED
  BY <1>1, <1>2, <1>3

(* The type invariant holds when the service starts. *)
LEMMA TypeInit == Init => TypeOK
<1> SUFFICES ASSUME Init PROVE TypeOK
  OBVIOUS
<1>1. TypeIO /\ TypeCycle /\ TypeSwitch /\ TypeBounds
  BY DEF Init, TypeIO, TypeCycle, TypeSwitch, TypeBounds, Outputs, Commands, Optional,
     NoSelection
<1>2. TypeFlags
  BY Zenon DEF Init, TypeFlags
<1> QED
  BY <1>1, <1>2 DEF TypeOK

(* The type invariant survives every step. *)
LEMMA TypeStep == TypeOK /\ [Next]_vars => TypeOK'
<1> SUFFICES ASSUME TypeOK, [Next]_vars PROVE TypeOK'
  OBVIOUS
<1>1. CASE Next
  BY <1>1, TypeWriteStep, TypeWorkerStep, TypeCycleStep, TypeTimeStep, TypeRestartStep DEF Next
<1>2. CASE UNCHANGED vars
  <2> USE DEF vars, device, commands, io, mode, selection, staged, mismatch, wish, bounds,
              history, TypeOK
  <2>1. TypeIO' /\ TypeCycle' /\ TypeSwitch' /\ TypeBounds'
    BY <1>2 DEF TypeIO, TypeCycle, TypeSwitch, TypeBounds
  <2>2. TypeFlags'
    BY Zenon, <1>2 DEF TypeFlags
  <2> QED
    BY <2>1, <2>2
<1> QED
  BY <1>1, <1>2

(* The service's state keeps its shape however writes, worker, update cycles, *)
(* time and restarts interleave: in particular a staged switch always has a   *)
(* target and an idle one none, which _phase_switch_state and                 *)
(* _phase_switch_pending_selection are assigned separately for.               *)
THEOREM TypeCorrect == Spec => []TypeOK
  BY TypeInit, TypeStep, PTL DEF Spec

(* What a phase write that cut the relay leaves behind until the contactors move:   *)
(* the order to open it still waits; or the relay is open and nothing is on *)
(* its way that closes it; or a restart lost the order, and then no reading *)
(* and no running cycle claims that the relay is open.                      *)
CutOpen ==
    manualCut /\ state = "waiting" =>
      \/ pending = "off"
      \/ relay = "off" /\ pending # "on" /\ command # "on"
      \/ /\ relay = "on" /\ pending = "none" /\ command = "none"
         /\ snapshot.relay # "off" /\ cached.relay # "off" /\ sample.relay # "off"
         /\ ~(view.confirmed /\ view.relay = "off")

(* The cycle that is about to decide on the relay keeps it off, or is a      *)
(* Manual cycle, which leaves it alone.                                      *)
CutHeld == manualCut /\ state = "waiting" /\ cycle = "decide" => view.hold \/ ~view.auto

(* Without Auto no cycle ever runs in Auto. *)
ManualOnly == ~Serialized => ~auto /\ ~view.auto

(* The HTTP API's writes, which may fall into the middle of an update cycle, *)
(* are only used in Manual.                                                  *)
ThreadsApart == Serialized \/ (~AutoFirst /\ "auto" \notin Writes)

CutInv == CutOpen /\ CutHeld /\ ManualOnly

(* The cut survives a control write. *)
LEMMA CutWriteStep == TypeOK /\ ThreadsApart /\ CutInv /\ ControlWrite => CutInv'
<1> SUFFICES ASSUME TypeOK, ThreadsApart, CutInv, ControlWrite PROVE CutInv'
  OBVIOUS
<1> USE DEF CutInv, TypeOK, TypeIO, TypeFlags, Outputs, Commands, NoSelection, NoReading,
            device, commands, io, mode, selection, staged, history
<1>1. CASE \E s \in Selections : StagePhaseWrite(s)
  BY <1>1 DEF StagePhaseWrite, Write, Stage, Queue, Placeholder, ThreadsApart, CutOpen,
     CutHeld, ManualOnly
<1>2. CASE \E s \in Selections : DirectPhaseWrite(s)
  BY <1>2 DEF DirectPhaseWrite, Write, Move, CutOpen, CutHeld, ManualOnly
<1>3. CASE StopWrite
  BY <1>3 DEF StopWrite, Write, Queue, Placeholder, CutOpen, CutHeld, ManualOnly
<1>4. CASE StartWrite
  BY <1>4 DEF StartWrite, Write, Queue, Placeholder, CutOpen, CutHeld, ManualOnly
<1>5. CASE AutoWrite
  BY <1>5 DEF AutoWrite, Write, Queue, Placeholder, ThreadsApart, CutOpen, CutHeld, ManualOnly
<1>6. CASE ManualWrite
  BY <1>6 DEF ManualWrite, Write, Queue, Placeholder, CutOpen, CutHeld, ManualOnly
<1>7. CASE ResetWrite
  BY <1>7 DEF ResetWrite, Write, CutOpen, CutHeld, ManualOnly
<1> QED
  BY <1>1, <1>2, <1>3, <1>4, <1>5, <1>6, <1>7 DEF ControlWrite

(* The cut survives a step of the I/O worker. *)
LEMMA CutWorkerStep == TypeOK /\ ThreadsApart /\ CutInv /\ Worker => CutInv'
<1> SUFFICES ASSUME TypeOK, ThreadsApart, CutInv, Worker PROVE CutInv'
  OBVIOUS
<1> USE DEF CutInv, TypeOK, TypeIO, TypeFlags, Outputs, Commands, NoSelection, NoReading,
            device, commands, io, mode, selection, staged, history
<1>1. CASE WorkerTake
  BY <1>1 DEF WorkerTake, CutOpen, CutHeld, ManualOnly
<1>2. CASE WorkerSwitch
  BY <1>2 DEF WorkerSwitch, ClearPending, Placeholder, CutOpen, CutHeld, ManualOnly
<1>3. CASE WorkerSwitchFails
  BY <1>3 DEF WorkerSwitchFails, CutOpen, CutHeld, ManualOnly
<1>4. CASE WorkerSkip
  BY <1>4 DEF WorkerSkip, CutOpen, CutHeld, ManualOnly
<1>5. CASE WorkerRead
  BY <1>5 DEF WorkerRead, CutOpen, CutHeld, ManualOnly
<1>6. CASE WorkerPublish
  BY <1>6 DEF WorkerPublish, CutOpen, CutHeld, ManualOnly
<1>7. CASE WorkerReadFails
  BY <1>7 DEF WorkerReadFails, Placeholder, CutOpen, CutHeld, ManualOnly
<1> QED
  BY <1>1, <1>2, <1>3, <1>4, <1>5, <1>6, <1>7 DEF Worker

(* The cut survives a step of the update cycle. *)
LEMMA CutCycleStep == TypeOK /\ ThreadsApart /\ CutInv /\ Cycle => CutInv'
<1> SUFFICES ASSUME TypeOK, ThreadsApart, CutInv, Cycle PROVE CutInv'
  OBVIOUS
<1> USE DEF CutInv, TypeOK, TypeIO, TypeFlags, Outputs, Commands, NoSelection, NoReading,
            device, commands, io, mode, selection, staged, history
<1>1. CASE CycleOffline
  BY <1>1 DEF CycleOffline, CutOpen, CutHeld, ManualOnly
<1>2. CASE CycleBegin
  BY <1>2 DEF CycleBegin, Queue, Placeholder, Seen, Status, CutOpen, CutHeld, ManualOnly
<1>3. CASE NoSwitch
  BY <1>3 DEF NoSwitch, Orchestrate, CutOpen, CutHeld, ManualOnly
<1>4. CASE WaitForRelay
  BY <1>4 DEF WaitForRelay, Orchestrate, CutOpen, CutHeld, ManualOnly
<1>5. CASE ApplyPending
  <2>1. view \in Views
    BY <1>5 DEF ApplyPending, Orchestrate, TypeCycle
  <2>2. view'.auto = view.auto
    BY <1>5, <2>1 DEF ApplyPending, Held, Views
  <2>3. state' # "waiting"
    BY <1>5 DEF ApplyPending
  <2>4. auto' = auto
    BY <1>5 DEF ApplyPending
  <2> QED
    BY <2>2, <2>3, <2>4 DEF CutOpen, CutHeld, ManualOnly
<1>6. CASE ApplyFails
  <2>1. view \in Views
    BY <1>6 DEF ApplyFails, Orchestrate, TypeCycle
  <2>2. view'.auto = view.auto
    BY <1>6, <2>1 DEF ApplyFails, ResumeRelay, Views
  <2>3. state' # "waiting"
    BY <1>6 DEF ApplyFails, ResumeRelay, ClearSwitch
  <2>4. auto' = auto
    BY <1>6 DEF ApplyFails
  <2> QED
    BY <2>2, <2>3, <2>4 DEF CutOpen, CutHeld, ManualOnly
<1>7. CASE Stabilizing
  <2>1. view \in Views
    BY <1>7 DEF Stabilizing, Orchestrate, TypeCycle
  <2>2. view'.auto = view.auto
    BY <1>7, <2>1 DEF Stabilizing, Held, Views
  <2>3. state' # "waiting"
    BY <1>7 DEF Stabilizing, Orchestrate
  <2>4. auto' = auto
    BY <1>7 DEF Stabilizing
  <2> QED
    BY <2>2, <2>3, <2>4 DEF CutOpen, CutHeld, ManualOnly
<1>8. CASE MismatchReported
  <2>1. view \in Views
    BY <1>8 DEF MismatchReported, Orchestrate, TypeCycle
  <2>2. view'.auto = view.auto
    BY <1>8, <2>1 DEF MismatchReported, ResumeRelay, Views
  <2>3. state' # "waiting"
    BY <1>8 DEF MismatchReported, ResumeRelay, ClearSwitch
  <2>4. auto' = auto
    BY <1>8 DEF MismatchReported
  <2> QED
    BY <2>2, <2>3, <2>4 DEF CutOpen, CutHeld, ManualOnly
<1>9. CASE Complete
  <2>1. view \in Views
    BY <1>9 DEF Complete, Orchestrate, TypeCycle
  <2>2. view'.auto = view.auto
    BY <1>9, <2>1 DEF Complete, ResumeRelay, Views
  <2>3. state' # "waiting"
    BY <1>9 DEF Complete, ResumeRelay, ClearSwitch
  <2>4. auto' = auto
    BY <1>9 DEF Complete
  <2> QED
    BY <2>2, <2>3, <2>4 DEF CutOpen, CutHeld, ManualOnly
<1>10. CASE Decide
  BY <1>10 DEF Decide, NoView, NoPhaseChange, AutoStage, AutoApply, AutoChange, Stage,
     ApplyRelay, RelayNoop, Queue, Placeholder, Desired, CutOpen, CutHeld, ManualOnly
<1> QED
  BY <1>1, <1>2, <1>3, <1>4, <1>5, <1>6, <1>7, <1>8, <1>9, <1>10 DEF Cycle

(* The cut survives the passing of time. *)
LEMMA CutTimeStep == TypeOK /\ ThreadsApart /\ CutInv /\ Time => CutInv'
<1> SUFFICES ASSUME TypeOK, ThreadsApart, CutInv, Time PROVE CutInv'
  OBVIOUS
<1> USE DEF CutInv, TypeOK, TypeIO, TypeFlags, Outputs, Commands, NoSelection, NoReading,
            device, commands, io, mode, selection, staged, history
<1>1. CASE TimerElapses
  BY <1>1 DEF TimerElapses, CutOpen, CutHeld, ManualOnly
<1>2. CASE VerificationExpires
  BY <1>2 DEF VerificationExpires, CutOpen, CutHeld, ManualOnly
<1>3. CASE RetryElapses
  BY <1>3 DEF RetryElapses, CutOpen, CutHeld, ManualOnly
<1>4. CASE LockoutElapses
  BY <1>4 DEF LockoutElapses, CutOpen, CutHeld, ManualOnly
<1>5. CASE CandidateRipens
  BY <1>5 DEF CandidateRipens, CutOpen, CutHeld, ManualOnly
<1>6. CASE CachedExpires
  BY <1>6 DEF CachedExpires, CutOpen, CutHeld, ManualOnly
<1>7. CASE SnapshotExpires
  BY <1>7 DEF SnapshotExpires, CutOpen, CutHeld, ManualOnly
<1> QED
  BY <1>1, <1>2, <1>3, <1>4, <1>5, <1>6, <1>7 DEF Time

(* The cut survives a restart of the service. *)
LEMMA CutRestartStep == TypeOK /\ CutInv /\ Restart => CutInv'
<1> SUFFICES ASSUME TypeOK, CutInv, Restart PROVE CutInv'
  OBVIOUS
<1> QED
  BY DEF Restart, CutInv, CutOpen, CutHeld, ManualOnly, TypeOK, TypeIO, Outputs, Commands,
     NoReading, NoView, NoSelection, mode, staged, history

(* The cut holds when the service starts. *)
LEMMA CutInit == ThreadsApart /\ Init => CutInv
  BY DEF Init, ThreadsApart, CutInv, CutOpen, CutHeld, ManualOnly, NoView

(* The cut survives every step. *)
LEMMA CutStep == TypeOK /\ ThreadsApart /\ CutInv /\ [Next]_vars => CutInv'
<1> SUFFICES ASSUME TypeOK, ThreadsApart, CutInv, [Next]_vars PROVE CutInv'
  OBVIOUS
<1>1. CASE Next
  BY <1>1, CutWriteStep, CutWorkerStep, CutCycleStep, CutTimeStep, CutRestartStep DEF Next
<1>2. CASE UNCHANGED vars
  BY <1>2 DEF vars, device, commands, io, mode, staged, history, CutInv, CutOpen, CutHeld,
     ManualOnly
<1> QED
  BY <1>1, <1>2

(* Where the cut holds, contactors that a phase write staged move with the *)
(* relay open.                                                             *)
LEMMA CutMoves == TypeOK /\ CutInv /\ ApplyPending /\ manualCut => relay = "off"
  BY DEF TypeOK, TypeIO, Outputs, CutInv, CutOpen, ApplyPending, Applying, WaitingReady

(* As long as the writes that may fall into the middle of an update cycle are *)
(* used in Manual only, a phase write that found the relay closed never moves *)
(* the contactors under load: neither a reading from before the write, nor a  *)
(* command the worker was executing, nor a restart between the order to open  *)
(* the relay and its execution lets _apply_pending_phase_selection run early. *)
THEOREM StagedMovesOpenHolds ==
  ASSUME ThreadsApart
  PROVE  Spec => StagedMovesOpen
<1>1. Init => TypeOK /\ CutInv
  BY TypeInit, CutInit
<1>2. TypeOK /\ CutInv /\ [Next]_vars => TypeOK' /\ CutInv'
  BY TypeStep, CutStep
<1>3. TypeOK /\ CutInv => [ApplyPending /\ manualCut => relay = "off"]_vars
  BY CutMoves
<1> QED
  BY <1>1, <1>2, <1>3, PTL DEF Spec, StagedMovesOpen

=============================================================================
