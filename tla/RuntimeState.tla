---------------------------- MODULE RuntimeState -----------------------------
(***************************************************************************)
(* The runtime state file (controllers/state_persistence.py,               *)
(* state_runtime_snapshot.py, state_restore.py,                            *)
(* state_restore_victron_ess.py): what a restarted service takes back.     *)
(*                                                                         *)
(* A save writes only if the serialized state changed since the last one   *)
(* that was written or loaded.  At a restart the wall clock may be behind  *)
(* the times in the file, and the configuration may name another ESS       *)
(* source or other energy sources: time stamps of the future are dropped,  *)
(* and what was learned or tuned is taken back under its topology key.     *)
(* Phase switching, of which PhaseSwitch models the restore, is left out.  *)
(***************************************************************************)
EXTENDS Integers

CONSTANTS Sites,        \* configurations: [source, energy]
          RsHorizon,    \* bound on the wall clock
          MaxStarts,    \* bound on restarts
          MaxChanges    \* bound on changes of the state

VARIABLES mem,         \* the service's attributes
          doc,         \* the state file, or NoDoc
          serialized,  \* _runtime_state_serialized
          configured,  \* the configuration the service runs with
          wall,        \* the wall clock
          starts, changes

rsVars == <<mem, doc, serialized, configured, wall, starts, changes>>

NoStamp  == -1
NoDoc    == [there |-> FALSE]
NoRecord == [written |-> FALSE]

(* A topology key names the source and the energy sources. *)
TopologyKey(source, energy) == <<source, energy>>

NewLearning == [profiles |-> {}, tuning |-> "configured", suspended |-> NoStamp,
                safe |-> FALSE]

NewMem ==
    [mode |-> "manual", override |-> 0, cutover |-> FALSE, bypass |-> FALSE,
     offAt |-> NoStamp, lockout |-> "", lockoutAt |-> NoStamp, faults |-> 0,
     power |-> "unknown", powerAt |-> NoStamp, ess |-> NewLearning]

(***************************************************************************)
(* Snapshot.  The ESS part is written with the source and the key of the   *)
(* running configuration.                                                  *)
(***************************************************************************)
PastTime(stamp, now) == IF stamp > now THEN NoStamp ELSE stamp

EssPayload(state, site) ==
    [source |-> site.source,
     key    |-> TopologyKey(site.source, site.energy),
     state  |-> state.ess]

ContactorState(state, now) ==
    [lockout |-> state.lockout, faults |-> state.faults,
     lockoutAt |-> PastTime(state.lockoutAt, now)]

BaseState(state) ==
    [mode |-> state.mode, override |-> state.override,
     cutover |-> state.cutover, offAt |-> state.offAt]

PowerState(state) == [power |-> state.power, powerAt |-> state.powerAt]

Build(state, site, now) ==
    [written |-> TRUE, base |-> BaseState(state), power |-> PowerState(state),
     contactor |-> ContactorState(state, now), ess |-> EssPayload(state, site)]

(***************************************************************************)
(* Restore.  The mode stands for the four virtual switches, which are      *)
(* taken back alike; a missing or malformed field keeps its default.       *)
(***************************************************************************)
RestoreBasic(state, saved) ==
    [state EXCEPT !.mode = saved.base.mode, !.override = saved.base.override,
                  !.cutover = saved.base.cutover, !.bypass = FALSE]

RestoreLearnedPower(state, saved, now) ==
    [state EXCEPT !.power = saved.power.power,
                  !.powerAt = PastTime(saved.power.powerAt, now)]

RestoreContactor(state, saved, now) ==
    [state EXCEPT !.lockout = saved.contactor.lockout,
                  !.faults = saved.contactor.faults,
                  !.lockoutAt = PastTime(saved.contactor.lockoutAt, now)]

RestoreRelay(state, saved, now) ==
    [state EXCEPT !.offAt = PastTime(saved.base.offAt, now)]

(* Faulty variant: whatever was learned is taken back. *)
Mutant_AnyTopology(payload, site) == TRUE

(* The source is the payload's own: only the energy sources are compared. *)
MatchesTopology(payload, site) ==
    payload.key = TopologyKey(payload.source, site.energy)

RestoreLearning(ess, payload) == [ess EXCEPT !.profiles = payload.state.profiles]

RestoreTuning(ess, payload) ==
    [ess EXCEPT !.tuning = payload.state.tuning,
                !.suspended = payload.state.suspended,
                !.safe = payload.state.safe]

RestoreEss(state, saved, site) ==
    IF MatchesTopology(saved.ess, site)
    THEN [state EXCEPT !.ess = RestoreTuning(RestoreLearning(@, saved.ess), saved.ess)]
    ELSE state

Restored(saved, site, now) ==
    RestoreEss(
        RestoreRelay(
            RestoreContactor(
                RestoreLearnedPower(RestoreBasic(NewMem, saved), saved, now),
                saved, now),
            saved, now),
        saved, site)

(***************************************************************************)
(* Every handler that changes state ends with a save, whose write may      *)
(* fail; a service that dies between the two is a failed write followed    *)
(* by a restart.                                                           *)
(***************************************************************************)
(* Faulty variant: the state counts as saved before it is written. *)
Mutant_MarkedBeforeWritten(state) ==
    LET snapshot == Build(state, configured, wall) IN
    \/ /\ snapshot # serialized
       /\ doc' = [there |-> TRUE, state |-> snapshot]
       /\ serialized' = snapshot
    \/ /\ snapshot # serialized
       /\ serialized' = snapshot /\ UNCHANGED doc
    \/ snapshot = serialized /\ UNCHANGED <<doc, serialized>>

Save(state) ==
    LET snapshot == Build(state, configured, wall) IN
    \/ /\ snapshot # serialized
       /\ doc' = [there |-> TRUE, state |-> snapshot]
       /\ serialized' = snapshot
    \/ UNCHANGED <<doc, serialized>>     \* unchanged, or the write failed

Changes(state) ==
    /\ changes < MaxChanges
    /\ changes' = changes + 1
    /\ mem' = state
    /\ Save(state)
    /\ UNCHANGED <<configured, wall, starts>>

SetMode_ ==
    \E mode \in {"manual", "auto"} :
        Changes([mem EXCEPT !.mode = mode, !.override = wall,
                            !.cutover = mode = "auto", !.bypass = mode = "auto"])

RelayOff == Changes([mem EXCEPT !.offAt = wall, !.cutover = FALSE])

ContactorFault ==
    \/ /\ mem.faults = 0
       /\ Changes([mem EXCEPT !.faults = 1])
    \/ /\ mem.faults = 1 /\ mem.lockout = ""
       /\ Changes([mem EXCEPT !.lockout = "contactor-suspected-welded",
                              !.lockoutAt = wall])

ContactorCleared ==
    /\ mem.faults > 0
    /\ Changes([mem EXCEPT !.faults = 0, !.lockout = "", !.lockoutAt = NoStamp])

PowerLearned == Changes([mem EXCEPT !.power = "stable", !.powerAt = wall])

EssLearns ==
    \/ Changes([mem EXCEPT !.ess.profiles = @ \cup {configured}])
    \/ Changes([mem EXCEPT !.ess.tuning = "applied"])
    \/ Changes([mem EXCEPT !.ess.tuning = "restored", !.ess.suspended = wall,
                           !.ess.safe = TRUE])

(* A later cycle saves again, with nothing new of its own. *)
CycleSaves == Changes(mem)

(***************************************************************************)
(* load at the start of the process, with the clock and the configuration  *)
(* as they are by then; what was restored counts as saved.                 *)
(***************************************************************************)
Load(site, now) ==
    /\ mem' = IF doc.there THEN Restored(doc.state, site, now) ELSE NewMem
    /\ serialized' = IF doc.there THEN Build(mem', site, now) ELSE NoRecord

Restarts ==
    /\ starts < MaxStarts
    /\ starts' = starts + 1
    /\ \E site \in Sites, now \in 0..RsHorizon :
         /\ configured' = site /\ wall' = now
         /\ Load(site, now)
    /\ UNCHANGED <<doc, changes>>

WallMoves ==
    /\ wall < RsHorizon
    /\ wall' = wall + 1
    /\ UNCHANGED <<mem, doc, serialized, configured, starts, changes>>

RsInit ==
    /\ mem = NewMem /\ doc = NoDoc /\ serialized = NoRecord
    /\ configured \in Sites /\ wall = 0 /\ starts = 0 /\ changes = 0

RsNext ==
    \/ SetMode_ \/ RelayOff \/ ContactorFault \/ ContactorCleared
    \/ PowerLearned \/ EssLearns \/ CycleSaves \/ Restarts \/ WallMoves

RsSpec == RsInit /\ [][RsNext]_rsVars

RsTypeOK ==
    /\ mem.mode \in {"manual", "auto"} /\ mem.faults \in 0..1
    /\ mem.ess.profiles \subseteq Sites
    /\ wall \in 0..RsHorizon /\ starts \in 0..MaxStarts
    /\ changes \in 0..MaxChanges
    /\ doc.there => doc.state.written

(***************************************************************************)
(* What the service believes to be saved survives a restart at any moment: *)
(* mode, cutover, lockout, fault count, learned power and the ESS part     *)
(* come back as they are, whatever writes failed before and whatever the   *)
(* clock says.                                                             *)
(***************************************************************************)
Lasting(state) ==
    <<state.mode, state.override, state.cutover, state.lockout, state.faults,
      state.power, state.ess>>

NothingLost ==
    serialized.written /\ serialized = Build(mem, configured, wall) =>
        /\ doc.there
        /\ Lasting(Restored(doc.state, configured, wall)) = Lasting(mem)

(***************************************************************************)
(* Profiles learned among other energy sources are not taken back.         *)
(***************************************************************************)
LearnedAmongThese ==
    \A site \in mem.ess.profiles : site.energy = configured.energy

(***************************************************************************)
(* STATE_API.md:396: persisted learning can be reused only for the same    *)
(* source and energy sources.                                              *)
(***************************************************************************)
LearnedForThisSource == mem.ess.profiles \subseteq {configured}
=============================================================================
