--------------------------- MODULE SoftwareUpdate ---------------------------
(***************************************************************************)
(* The software update of the service (update/software_update_*.py):       *)
(* every cycle the housekeeping polls a running installer, and when none   *)
(* runs it performs the weekly check, the delayed update after boot and a  *)
(* requested update, in this order. A marker file forbids updates. Due     *)
(* times are countdowns in housekeeping turns.                             *)
(***************************************************************************)
EXTENDS Integers

CONSTANTS
    CheckTicks,    \* CHECK_INTERVAL_SECONDS
    DeferTicks,    \* optional_work_interval_seconds, under gateway pressure
    BootTicks      \* delay of the update after boot

ASSUME SwAssumption == {CheckTicks, DeferTicks, BootTicks} \subseteq Nat \ {0}

NotDue == -1          \* no due time

VARIABLES
    installer,   \* "none", or the installer that runs: "busy", "done", "broken"
    marker,      \* the noUpdate file exists
    script,      \* install.sh exists
    requested,   \* _software_update_run_requested_at is set
    nextCheck,   \* turns until the next check
    bootDue,     \* turns until the update after boot, or NotDue
    shown,       \* _software_update_state, available and last_result
    checked      \* _software_update_last_check_at is set

swVars == <<installer, marker, script, requested, nextCheck, bootDue, shown, checked>>

ChooseLarger(a, b) == IF a >= b THEN a ELSE b
SwLess(n) == IF n <= 0 THEN n ELSE n - 1

(***************************************************************************)
(* The steps of the housekeeping, as functions of a working state          *)
(***************************************************************************)
Working == [installer |-> installer, requested |-> requested, nextCheck |-> SwLess(nextCheck),
            bootDue |-> SwLess(bootDue), shown |-> shown, checked |-> checked]

\* _poll_software_update_process: the exit code decides the result
Mutant_FailureUnpolled(w) ==
    IF w.installer = "done"
    THEN [w EXCEPT !.installer = "none",
                   !.shown = [state |-> "installed", available |-> FALSE, result |-> "success"]]
    ELSE IF w.installer = "broken" THEN [w EXCEPT !.installer = "none"] ELSE w

Polled(w) ==
    CASE w.installer = "done" ->
            [w EXCEPT !.installer = "none",
                      !.shown = [state |-> "installed", available |-> FALSE, result |-> "success"]]
      [] w.installer = "broken" ->
            [w EXCEPT !.installer = "none", !.shown.state = "install-failed",
                      !.shown.result = "failed"]
      [] OTHER -> w

\* triggers that come while an installer runs are dropped
TriggersCleared(w) ==
    [w EXCEPT !.requested = FALSE, !.bootDue = IF @ = 0 THEN NotDue ELSE @]

AvailabilityState(available) ==
    IF available /\ marker THEN "available-blocked"
    ELSE IF available THEN "available" ELSE "up-to-date"

\* _run_software_update_check: the answer is TRUE, FALSE or "error"
CheckRun(w, answer) ==
    [w EXCEPT !.nextCheck = CheckTicks, !.checked = TRUE,
              !.shown = [state     |-> IF answer = "error" THEN "check-failed"
                                       ELSE AvailabilityState(answer = "newer"),
                         available |-> answer = "newer",
                         result    |-> w.shown.result]]

DueCheck(w, pressure, answer) ==
    IF w.nextCheck # 0 THEN w
    ELSE IF pressure THEN [w EXCEPT !.nextCheck = DeferTicks]
    ELSE CheckRun(w, answer)

\* _software_update_state_for_no_update_block
BlockedState(w) ==
    IF w.shown.available THEN "available-blocked"
    ELSE IF w.checked THEN "up-to-date" ELSE "idle"

\* _start_software_update_run
StartRun(w, spawned) ==
    IF w.installer # "none" THEN [w EXCEPT !.requested = FALSE]
    ELSE IF marker THEN [w EXCEPT !.requested = FALSE, !.shown.state = BlockedState(w)]
    ELSE IF ~script
         THEN [w EXCEPT !.requested = FALSE, !.shown.state = "update-unavailable",
                        !.shown.result = "failed"]
    ELSE IF ~spawned
         THEN [w EXCEPT !.requested = FALSE, !.shown.state = "install-failed",
                        !.shown.result = "failed"]
    ELSE [w EXCEPT !.requested = FALSE, !.installer = "busy", !.shown.state = "running",
                   !.shown.result = "running"]

DueBoot(w, pressure, spawned) ==
    IF w.bootDue # 0 THEN w
    ELSE IF pressure THEN [w EXCEPT !.bootDue = DeferTicks]
    ELSE StartRun([w EXCEPT !.bootDue = NotDue], spawned)

DueManual(w, spawned) == IF w.requested THEN StartRun(w, spawned) ELSE w

(***************************************************************************)
(* Actions                                                                 *)
(***************************************************************************)
SwInit ==
    /\ installer = "none"
    /\ marker \in BOOLEAN
    /\ script \in BOOLEAN
    /\ requested = FALSE
    /\ nextCheck = 1
    /\ bootDue \in {NotDue, BootTicks}
    /\ shown = [state |-> "idle", available |-> FALSE, result |-> ""]
    /\ checked = FALSE

\* each spawn may fail on its own: the boot update and the manual one
Housekeeping(pressure, answer, bootSpawned, manualSpawned) ==
    LET polled == Polled(Working)
        w == IF polled.installer # "none" THEN TriggersCleared(polled)
             ELSE DueManual(DueBoot(DueCheck(polled, pressure, answer), pressure, bootSpawned),
                            manualSpawned)
    IN  /\ installer' = w.installer
        /\ requested' = w.requested
        /\ nextCheck' = w.nextCheck
        /\ bootDue' = w.bootDue
        /\ shown' = w.shown
        /\ checked' = w.checked
        /\ UNCHANGED <<marker, script>>

\* a write to the software update run field
RequestRun == requested' = TRUE /\ UNCHANGED <<installer, marker, script, nextCheck, bootDue, shown, checked>>

InstallerEnds ==
    /\ installer = "busy"
    /\ installer' \in {"done", "broken"}
    /\ UNCHANGED <<marker, script, requested, nextCheck, bootDue, shown, checked>>

MarkerChanges ==
    /\ marker' = ~marker
    /\ UNCHANGED <<installer, script, requested, nextCheck, bootDue, shown, checked>>

SwNext ==
    \/ \E pressure, bootSpawned, manualSpawned \in BOOLEAN, answer \in {"newer", "same", "error"} :
           Housekeeping(pressure, answer, bootSpawned, manualSpawned)
    \/ RequestRun
    \/ InstallerEnds
    \/ MarkerChanges

SwSpec == SwInit /\ [][SwNext]_swVars

(***************************************************************************)
(* Properties                                                              *)
(***************************************************************************)
SwTypeOK ==
    /\ installer \in {"none", "busy", "done", "broken"}
    /\ shown.state \in {"idle", "up-to-date", "available", "available-blocked", "running",
                        "installed", "check-failed", "install-failed", "update-unavailable"}
    /\ nextCheck \in 0..ChooseLarger(CheckTicks, DeferTicks)
    /\ bootDue \in NotDue..ChooseLarger(BootTicks, DeferTicks)

\* One installer runs at a time, and what is shown tells it: the result reads
\* "running" exactly while an installer is running or has not been polled yet,
\* however the check, the update after boot, a request and the end of the
\* installer fall together in one turn of the housekeeping.
RunningIsTrue ==
    /\ shown.result = "running" <=> installer # "none"
    /\ shown.state = "running" <=> installer # "none"
=============================================================================
