----------------------------- MODULE CycleHealth -----------------------------
(***************************************************************************)
(* The part of an update cycle that decides whether the charger may be on  *)
(* (update/pm_snapshot.py, relay_charger_health.py, relay_charger_*.py,    *)
(* relay_status_publish.py, relay_phase_publish.py, offline_publish.py):   *)
(* which power-meter sample counts, the contactor heuristics with their    *)
(* lockout, the charger transport with its retry window, the current       *)
(* target, the command that follows and the status that is shown.          *)
(* Times are ages in cycles.                                               *)
(***************************************************************************)
EXTENDS Integers

CONSTANTS
    ChReadings,      \* what a cycle may find (see MaySee)
    ChSoftFail,        \* auto_shelly_soft_fail_seconds: sample age, heuristic delay
    DirectMaxAge,    \* twice the worker's poll interval
    SyncTimeout, LatchCount, LatchTicks,
    IssueMaxAge, RetryWindow,
    MinAmps, MaxAmpsAllowed,     \* min_current and max_current
    ChNone

ASSUME ChAssumption ==
    /\ {ChSoftFail, DirectMaxAge, SyncTimeout, LatchCount, LatchTicks, IssueMaxAge,
        RetryWindow, MinAmps, MaxAmpsAllowed} \subseteq Nat
    /\ ChNone \notin Int \cup {"lockout", "open", "welded"}   \* no age, health or reason

VARIABLES
    chSample,     \* the remembered confirmed sample [on, load, age], or ChNone
    suspects,   \* ages of the suspected-open and suspected-welded conditions
    faults,     \* counts per reason, the active reason with its age, the lockout
    sync,       \* the relay state a command waits for, and the cycles left
    transport,  \* age of the last transport issue, cycles left of the retry window
    amps,       \* _charger_target_current_amps, or ChNone
    sent,       \* what the last cycle commanded: "on", "off" or "nothing"
    status,     \* the status code shown
    enabler     \* what is switched: the "charger" backend or the "relay"

chVars == <<chSample, suspects, faults, sync, transport, amps, sent, status, enabler>>

Reasons == {"open", "welded"}
ChMax(a, b) == IF a >= b THEN a ELSE b
ChOlder(age, cap) ==
    IF age = ChNone THEN ChNone ELSE IF age >= cap THEN age ELSE age + 1
ChLess(n) == IF n = 0 THEN 0 ELSE n - 1

(***************************************************************************)
(* The power-meter sample                                                  *)
(***************************************************************************)
\* a confirmed sample of this age is used as it is
SampleDirect(r) == r.meter # ChNone /\ r.meter.age <= ChMax(ChSoftFail, DirectMaxAge)
SampleNewer(r) == chSample = ChNone \/ r.meter.age <= chSample.age

Remembered(r) ==
    IF r.meter # ChNone /\ (SampleDirect(r) \/ SampleNewer(r)) THEN r.meter ELSE chSample

\* the cached confirmed sample bridges a soft failure
CachedFor(s) == IF s # ChNone /\ s.age <= ChSoftFail THEN s ELSE ChNone
ResolvedMeter(r) == IF SampleDirect(r) THEN r.meter ELSE CachedFor(Remembered(r))

(***************************************************************************)
(* Contactor health                                                        *)
(***************************************************************************)
ObservedLoad(r, m) == m.load \/ (r.charger # ChNone /\ r.charger.load)
SuspectedOpen(r, m) ==
    m.on /\ r.charger # ChNone /\ (r.charger.load \/ r.charger.text = "charging")
         /\ ~ObservedLoad(r, m)
SuspectedWelded(r, m) == ~m.on /\ ObservedLoad(r, m)

\* the interlock and the feedback contact come before every heuristic
SafetyHealth(r, m) ==
    IF r.switch = ChNone THEN ChNone
    ELSE IF ~r.switch.interlock /\ (r.desire \/ m.on) THEN "interlock"
    ELSE IF r.switch.closed # ChNone /\ r.switch.closed # m.on THEN "mismatch"
    ELSE ChNone
SafetyFault(r, m) == SafetyHealth(r, m) # ChNone

HeuristicAge(age, condition) ==
    IF ~condition THEN ChNone ELSE IF age = ChNone THEN 0 ELSE age
SuspectAges(r, m) ==
    [open   |-> HeuristicAge(suspects.open, SuspectedOpen(r, m)),
     welded |-> HeuristicAge(suspects.welded, SuspectedWelded(r, m))]

SuspectedReason(s) ==
    IF s.welded # ChNone /\ s.welded >= ChSoftFail THEN "welded"
    ELSE IF s.open # ChNone /\ s.open >= ChSoftFail THEN "open"
    ELSE ChNone

Inactive(f) == [f EXCEPT !.active = ChNone, !.since = 0]

\* an episode is counted when it begins; enough of them, or a long one, latches
Activated(f, reason) ==
    IF f.active = reason THEN f
    ELSE [f EXCEPT !.active = reason, !.since = 0,
                   !.counts[reason] = IF @ < ChMax(1, LatchCount) THEN @ + 1 ELSE @]
Latches(f, reason) ==
    \/ LatchCount > 0 /\ f.counts[reason] >= LatchCount
    \/ LatchTicks > 0 /\ f.since >= LatchTicks
RememberFault(f, reason) ==
    LET g == Activated(f, reason)
    IN  IF Latches(g, reason) THEN [g EXCEPT !.lockout = reason] ELSE g

\* switch_feedback_health_override: what it leaves behind, and the health
FaultsAfter(r, m) ==
    IF SafetyFault(r, m) THEN Inactive(faults)
    ELSE IF faults.lockout # ChNone THEN faults
    ELSE IF SuspectedReason(SuspectAges(r, m)) = ChNone THEN Inactive(faults)
    ELSE RememberFault(faults, SuspectedReason(SuspectAges(r, m)))

Mutant_ForgetsLockout(r, m) ==
    IF SafetyFault(r, m) THEN SafetyHealth(r, m)
    ELSE IF SuspectedReason(SuspectAges(r, m)) # ChNone THEN "suspected"
    ELSE ChNone

SwitchHealth(r, m) ==
    IF SafetyFault(r, m) THEN SafetyHealth(r, m)
    ELSE IF FaultsAfter(r, m).lockout # ChNone THEN "lockout"
    ELSE IF SuspectedReason(SuspectAges(r, m)) # ChNone THEN "suspected"
    ELSE ChNone

SuspectsAfter(r, m) ==
    IF SafetyFault(r, m) THEN [open |-> ChNone, welded |-> ChNone]
    ELSE IF faults.lockout # ChNone THEN suspects
    ELSE SuspectAges(r, m)

(***************************************************************************)
(* Charger health and transport                                            *)
(***************************************************************************)
IssueFresh(t) == t.issue # ChNone /\ t.issue <= IssueMaxAge
RetryActive(t) == t.retry > 0
TransportIssue(t) == [issue |-> 0, retry |-> RetryWindow]
TransportClear == [issue |-> ChNone, retry |-> 0]

ChargerHealth(r, t) ==
    IF IssueFresh(t) \/ RetryActive(t) THEN "transport"
    ELSE IF r.charger # ChNone /\ r.charger.text = "fault" THEN "charger-fault"
    ELSE ChNone

(***************************************************************************)
(* Current target and enable command                                       *)
(***************************************************************************)
ClampedTarget(a) ==
    IF a = ChNone \/ (a <= 0 /\ MinAmps = 0) THEN ChNone
    ELSE IF a < MinAmps THEN MinAmps ELSE IF a > MaxAmpsAllowed THEN MaxAmpsAllowed ELSE a

\* derived_learned_target: a stable, recent learned power over voltage and phases
LearnedAmps(l) ==
    IF l = ChNone \/ l.stale THEN ChNone
    ELSE ClampedTarget((l.power + (l.volt * l.phases) \div 2) \div (l.volt * l.phases))

\* current_target: the scheduled night current, else the learned or the set one
NewAmps(r) ==
    IF r.night THEN ClampedTarget(MaxAmpsAllowed)
    ELSE IF LearnedAmps(r.learned) # ChNone THEN LearnedAmps(r.learned)
    ELSE ClampedTarget(r.set)
AmpsOutcome(r, desired, t) ==
    IF ~r.auto \/ ~desired THEN "reset"
    ELSE IF NewAmps(r) = ChNone \/ NewAmps(r) = amps \/ RetryActive(t) THEN "keep"
    ELSE r.write

AmpsAfter(r, desired, t) ==
    CASE AmpsOutcome(r, desired, t) = "reset" -> ChNone
      [] AmpsOutcome(r, desired, t) = "ok" -> NewAmps(r)
      [] OTHER -> amps

AfterWrite(outcome, t) ==
    CASE outcome = "ok" -> TransportClear
      [] outcome = "issue" -> TransportIssue(t)
      [] OTHER -> t

\* nothing is commanded when the state, or the command that is awaited, is the wanted one
RelayDecisionNoop(desired, on) == desired = on \/ sync.expected = desired
EnableOutcome(r, desired, on, t) ==
    IF RelayDecisionNoop(desired, on) THEN "noop"
    ELSE IF enabler = "relay" THEN "queued"
    ELSE IF RetryActive(t) THEN "refused"
    ELSE r.write

Commanded(outcome, desired) ==
    IF outcome \in {"queued", "ok"} THEN (IF desired THEN "on" ELSE "off") ELSE "nothing"

SyncRequested(desired) == [expected |-> desired, left |-> SyncTimeout]
NoSync == [expected |-> ChNone, left |-> 0]

\* relay_sync_health_override: confirmed, still waiting, or given up
SyncAfter(s, on, confirmed) ==
    IF s.expected = ChNone THEN NoSync
    ELSE IF confirmed /\ on = s.expected THEN NoSync
    ELSE IF s.left > 0 THEN s ELSE NoSync

(***************************************************************************)
(* The status shown                                                        *)
(***************************************************************************)
TextStatus(text, auto) ==
    CASE text = "finished" -> 3
      [] text = "waiting" -> IF auto THEN 4 ELSE 6
      [] text = "charging" -> 2
      [] OTHER -> ChNone

StatusCode(r, health, chargerHealth, on, load) ==
    LET enabled == IF r.charger = ChNone \/ r.charger.enabled = ChNone THEN on
                   ELSE r.charger.enabled
        drawing == IF r.charger = ChNone THEN load ELSE r.charger.load
    IN  IF health \in {"mismatch", "lockout"} THEN 0
        ELSE IF chargerHealth = "charger-fault" THEN 0
        ELSE IF r.charger # ChNone /\ TextStatus(r.charger.text, r.auto) # ChNone
        THEN TextStatus(r.charger.text, r.auto)
        ELSE IF enabled THEN (IF drawing THEN 2 ELSE 1)
        ELSE IF r.auto THEN 4 ELSE 6

(***************************************************************************)
(* Actions                                                                 *)
(***************************************************************************)
ChInit ==
    /\ chSample = ChNone
    /\ suspects = [open |-> ChNone, welded |-> ChNone]
    /\ faults = [counts |-> [reason \in Reasons |-> 0], active |-> ChNone, since |-> 0,
                 lockout |-> ChNone]
    /\ sync = NoSync
    /\ transport = TransportClear
    /\ amps = ChNone
    /\ sent = "nothing"
    /\ status = 0
    /\ enabler \in {"charger", "relay"}

\* no usable sample: nothing is decided, the status is 0
OfflineCycle(r) ==
    /\ ResolvedMeter(r) = ChNone
    /\ chSample' = Remembered(r)
    /\ sent' = "nothing"
    /\ status' = 0
    /\ UNCHANGED <<suspects, faults, sync, transport, amps, enabler>>

OnlineCycle(r) ==
    LET m == ResolvedMeter(r)
        health == SwitchHealth(r, m)
        chargerHealth == ChargerHealth(r, transport)
        desired == r.desire /\ health = ChNone /\ chargerHealth = ChNone
        afterAmps == AfterWrite(AmpsOutcome(r, desired, transport), transport)
        outcome == EnableOutcome(r, desired, m.on, afterAmps)
        applied == outcome \in {"queued", "ok"}
        on == IF applied THEN desired ELSE m.on
    IN  /\ m # ChNone
        /\ chSample' = Remembered(r)
        /\ suspects' = SuspectsAfter(r, m)
        /\ faults' = FaultsAfter(r, m)
        /\ amps' = AmpsAfter(r, desired, transport)
        /\ transport' = AfterWrite(outcome, afterAmps)
        /\ sync' = SyncAfter(IF outcome = "queued" THEN SyncRequested(desired) ELSE sync,
                             on, ~applied)
        /\ sent' = Commanded(outcome, desired)
        /\ status' = StatusCode(r, health, chargerHealth, on, m.load /\ ~applied)
        /\ UNCHANGED enabler

\* time between two cycles
Ages ==
    /\ chSample' = IF chSample = ChNone THEN ChNone
                 ELSE [chSample EXCEPT !.age = ChOlder(@, ChMax(ChSoftFail, DirectMaxAge) + 1)]
    /\ suspects' = [reason \in DOMAIN suspects |-> ChOlder(suspects[reason], ChSoftFail)]
    /\ faults' = [faults EXCEPT !.since = IF faults.active = ChNone THEN 0
                                          ELSE ChOlder(@, LatchTicks)]
    /\ sync' = [sync EXCEPT !.left = ChLess(@)]
    /\ transport' = [issue |-> ChOlder(transport.issue, IssueMaxAge + 1),
                     retry |-> ChLess(transport.retry)]
    /\ sent' = "nothing"
    /\ UNCHANGED <<amps, status, enabler>>

\* a manual start is commanded at once, whatever the health
ManualStart ==
    /\ enabler = "relay"
    /\ sync' = SyncRequested(TRUE)
    /\ UNCHANGED <<chSample, suspects, faults, transport, amps, sent, status, enabler>>

\* a write to auto_contactor_lockout_reset
ResetLockout ==
    /\ faults' = [counts |-> [reason \in Reasons |-> 0], active |-> ChNone, since |-> 0,
                  lockout |-> ChNone]
    /\ suspects' = [open |-> ChNone, welded |-> ChNone]
    /\ UNCHANGED <<chSample, sync, transport, amps, sent, status, enabler>>

ChNext ==
    \/ \E r \in ChReadings : OfflineCycle(r) \/ OnlineCycle(r)
    \/ Ages
    \/ ManualStart
    \/ ResetLockout

ChSpec == ChInit /\ [][ChNext]_chVars

(***************************************************************************)
(* Properties                                                              *)
(***************************************************************************)
\* the parts of the state fit together: only a suspicion that has lasted is an
\* active fault, and only a counted fault locks out
ChTypeOK ==
    /\ faults.active \in Reasons \cup {ChNone}
    /\ faults.lockout # ChNone => faults.counts[faults.lockout] > 0
    /\ faults.active # ChNone /\ faults.lockout = ChNone => suspects[faults.active] # ChNone
    /\ sync.expected \in {TRUE, FALSE, ChNone}
    /\ status \in {0, 1, 2, 3, 4, 6}

\* Once the contactor is locked out, no cycle switches the charger on until the
\* lockout is reset: not after the suspicion has calmed down, not when the
\* interlock fault that hid it is gone, and not for a pending command.
LockoutHolds == faults.lockout # ChNone => sent # "on"
=============================================================================
