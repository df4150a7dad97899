------------------------------ MODULE AutoInput ------------------------------
(***************************************************************************)
(* The auto-input helper process and its supervisor (inputs/supervisor*.py,*)
(* inputs/helper/snapshot.py, liveness.py). The helper writes a snapshot   *)
(* file from two threads, the polling main loop and a heartbeat; every     *)
(* update cycle the supervisor reads the file when it has changed, judges  *)
(* the helper by the heartbeat, stops one that has gone silent and starts  *)
(* the next. A helper of an earlier service instance may still be writing. *)
(* "mine" marks what the helper started last has written.                  *)
(***************************************************************************)
EXTENDS Integers

CONSTANTS
    StaleTicks,     \* auto_input_helper_stale_seconds
    RestartTicks,   \* auto_input_helper_restart_seconds
    Stretch,        \* factor on both under gateway pressure
    MaxSequence,    \* writes of one helper that are looked at
    NoValue

ASSUME AiAssumption ==
    {StaleTicks, RestartTicks, Stretch, MaxSequence} \subseteq Nat \ {0} /\ NoValue \notin Nat

VARIABLES
    helper,    \* the process: "none", "ok", "stuck" (only beats), "hung", "dead"
    signal,    \* "none", "term" or "kill", sent and not yet taken
    orphan,    \* a helper of an earlier service instance is still running
    seqno,     \* AtomicSnapshotWriter._sequence
    aiFlight,    \* per thread: the sequence number of the write it is in, or 0
    aiFile,      \* the snapshot file, or NoValue
    sup        \* what the supervisor keeps

aiVars == <<helper, signal, orphan, seqno, aiFlight, aiFile, sup>>

Threads == {"poll", "beat"}
AgeLimit == Stretch * (IF StaleTicks > RestartTicks THEN StaleTicks ELSE RestartTicks) + 1
AiOlder(a) == IF a = NoValue \/ a >= AgeLimit THEN a ELSE a + 1
Alive == helper \in {"ok", "stuck", "hung"}
Limit(ticks, pressure) == IF pressure THEN Stretch * ticks ELSE ticks

(***************************************************************************)
(* The helper's writes                                                     *)
(***************************************************************************)
\* the number is taken outside the lock for the polling thread: an increment of
\* the other thread's may be lost
BeginWrite(t) ==
    /\ helper = "ok" \/ (helper = "stuck" /\ t = "beat")
    /\ aiFlight[t] = 0
    /\ seqno < MaxSequence
    /\ \E n \in {seqno + 1} \cup ({aiFlight[u] : u \in Threads \ {t}} \ {0}) :
        /\ aiFlight' = [aiFlight EXCEPT ![t] = n]
        /\ seqno' = n
    /\ UNCHANGED <<helper, signal, orphan, aiFile, sup>>

\* write_text_atomically: the renaming makes the whole snapshot visible
EndWrite(t) ==
    /\ aiFlight[t] # 0
    /\ Alive
    /\ aiFile' = [mine |-> TRUE, seq |-> aiFlight[t], beat |-> 0, fresh |-> TRUE, flaw |-> "none"]
    /\ aiFlight' = [aiFlight EXCEPT ![t] = 0]
    /\ UNCHANGED <<helper, signal, orphan, seqno, sup>>

\* an earlier helper, of another version perhaps, writes until it notices that
\* its parent has gone
OrphanWrites ==
    /\ orphan
    /\ \E n \in 1..2, flaw \in {"none", "shape", "fields", "meaning"} :
        /\ flaw # "none" => n = 1
        /\ aiFile' = [mine |-> FALSE, seq |-> n, beat |-> 0, fresh |-> TRUE, flaw |-> flaw]
    /\ UNCHANGED <<helper, signal, orphan, seqno, aiFlight, sup>>

OrphanEnds ==
    /\ orphan
    /\ orphan' = FALSE
    /\ UNCHANGED <<helper, signal, seqno, aiFlight, aiFile, sup>>

HelperFails ==
    /\ helper = "ok"
    /\ helper' \in {"stuck", "hung", "dead"}
    /\ aiFlight' = [t \in Threads |-> 0]
    /\ UNCHANGED <<signal, orphan, seqno, aiFile, sup>>

\* a healthy helper ends on SIGTERM; nothing withstands SIGKILL
SignalTaken ==
    /\ Alive
    /\ signal = "kill" \/ (signal = "term" /\ helper = "ok")
    /\ helper' = "dead"
    /\ aiFlight' = [t \in Threads |-> 0]
    /\ UNCHANGED <<signal, orphan, seqno, aiFile, sup>>

(***************************************************************************)
(* refresh_snapshot                                                        *)
(***************************************************************************)
\* _sequence_advances: another writer, or a larger number of the same one
SequenceAdvances(s) == s.seq = 0 \/ s.mine # aiFile.mine \/ aiFile.seq > s.seq
\* validate: the shape and the version, then the fields, then what they mean
ShapeValid(f) == f.flaw # "shape"
FieldsValid(f) == f.flaw # "fields"
SemanticsValid(f) == f.flaw # "meaning"
Validated(f) == ShapeValid(f) /\ FieldsValid(f) /\ SemanticsValid(f)
Acceptable(s) == aiFile # NoValue /\ aiFile.fresh /\ Validated(aiFile) /\ SequenceAdvances(s)

\* a stale snapshot is taken over without its values
Applied(s, pressure) ==
    LET stale == aiFile.beat > Limit(StaleTicks, pressure)
        seen == ~stale /\ aiFile.mine
    IN  [s EXCEPT !.seen = seen,
                  !.lastSeen = IF seen THEN aiFile.beat ELSE IF ~s.seen THEN NoValue ELSE @,
                  !.seq = aiFile.seq, !.mine = aiFile.mine, !.valued = ~stale]
FileRead(s, pressure) == IF Acceptable(s) THEN Applied(s, pressure) ELSE s

(***************************************************************************)
(* ensure_helper_process                                                   *)
(***************************************************************************)
\* _helper_snapshot_age: since the last heartbeat of this helper, or its start
SnapshotAge(s) == IF s.seen /\ s.lastSeen # NoValue THEN s.lastSeen ELSE s.started
Silent(s, pressure) == SnapshotAge(s) # NoValue /\ SnapshotAge(s) > Limit(StaleTicks, pressure)

Mutant_NeverForces(s, pressure) ==
    IF ~Silent(s, pressure) THEN [sup |-> s, signal |-> signal]
    ELSE [sup |-> [s EXCEPT !.asked = 0], signal |-> "term"]

\* _handle_stale_running_helper: ask once, force when asking has not helped
SilentHandled(s, pressure) ==
    IF ~Silent(s, pressure) THEN [sup |-> s, signal |-> signal]
    ELSE IF s.asked = NoValue THEN [sup |-> [s EXCEPT !.asked = 0], signal |-> "term"]
    ELSE IF s.asked > Limit(RestartTicks, pressure) THEN [sup |-> s, signal |-> "kill"]
    ELSE [sup |-> s, signal |-> signal]

CoolingDown(s, pressure) ==
    s.started # NoValue /\ s.started < Limit(RestartTicks, pressure)

\* _reset_snapshot_liveness_for_new_helper
Mutant_StaleEvidence(s) == [s EXCEPT !.seq = 0, !.mine = FALSE]

LivenessReset(s) ==
    [s EXCEPT !.seen = FALSE, !.lastSeen = NoValue, !.seq = 0, !.mine = FALSE]

\* the helper runs: read, judge, and read again in the same cycle
SuperviseRunning(pressure) ==
    /\ sup.proc /\ Alive
    /\ LET read == FileRead(sup, pressure)
           handled == SilentHandled(read, pressure)
       IN  /\ sup' = handled.sup
           /\ signal' = handled.signal
           /\ aiFile' = IF Acceptable(sup) THEN [aiFile EXCEPT !.fresh = FALSE] ELSE aiFile
    /\ UNCHANGED <<helper, orphan, seqno, aiFlight>>

SuperviseWaiting(pressure) ==
    /\ ~(sup.proc /\ Alive)
    /\ CoolingDown(sup, pressure)
    /\ sup' = FileRead([sup EXCEPT !.proc = FALSE, !.asked = NoValue], pressure)
    /\ aiFile' = IF Acceptable(sup) THEN [aiFile EXCEPT !.fresh = FALSE] ELSE aiFile
    /\ UNCHANGED <<helper, signal, orphan, seqno, aiFlight>>

\* spawn_helper: the file may be unlinked or not; Popen may fail after the reset
SpawnReset ==
    /\ ~(sup.proc /\ Alive)
    /\ \E pressure \in BOOLEAN : ~CoolingDown(sup, pressure)
    /\ aiFile' \in {NoValue} \cup (IF aiFile = NoValue THEN {} ELSE {[aiFile EXCEPT !.mine = FALSE]})
    /\ seqno' = 0
    /\ aiFlight' = [t \in Threads |-> 0]
    /\ signal' = "none"

Spawn ==
    /\ SpawnReset
    /\ helper' = "ok"
    /\ sup' = [LivenessReset(sup) EXCEPT !.proc = TRUE, !.started = 0, !.asked = NoValue]
    /\ UNCHANGED orphan

SpawnFails ==
    /\ SpawnReset
    /\ helper' = "none"
    /\ sup' = [LivenessReset(sup) EXCEPT !.proc = FALSE, !.asked = NoValue]
    /\ UNCHANGED orphan

(***************************************************************************)
(* Time, a restart of the service, and the specification                   *)
(***************************************************************************)
AiTick ==
    /\ sup' = [sup EXCEPT !.started = AiOlder(@), !.asked = AiOlder(@),
                          !.lastSeen = AiOlder(@)]
    /\ aiFile' = IF aiFile = NoValue \/ ~Validated(aiFile) THEN aiFile
               ELSE [aiFile EXCEPT !.beat = AiOlder(@)]
    /\ UNCHANGED <<helper, signal, orphan, seqno, aiFlight>>

NewSupervisor == [proc |-> FALSE, started |-> NoValue, asked |-> NoValue, seen |-> FALSE,
                  lastSeen |-> NoValue, seq |-> 0, mine |-> FALSE, valued |-> FALSE]

ServiceRestarts ==
    /\ ~orphan
    /\ orphan' = Alive
    /\ helper' = "none"
    /\ signal' = "none"
    /\ seqno' = 0
    /\ aiFlight' = [t \in Threads |-> 0]
    /\ aiFile' = IF aiFile = NoValue THEN aiFile ELSE [aiFile EXCEPT !.mine = FALSE, !.fresh = TRUE]
    /\ sup' = NewSupervisor

AiInit ==
    /\ helper = "none"
    /\ signal = "none"
    /\ orphan = FALSE
    /\ seqno = 0
    /\ aiFlight = [t \in Threads |-> 0]
    /\ aiFile = NoValue
    /\ sup = NewSupervisor

Supervise ==
    \/ \E pressure \in BOOLEAN : SuperviseRunning(pressure) \/ SuperviseWaiting(pressure)
    \/ Spawn
    \/ SpawnFails

AiNext ==
    \/ \E t \in Threads : BeginWrite(t) \/ EndWrite(t)
    \/ OrphanWrites \/ OrphanEnds \/ HelperFails \/ SignalTaken
    \/ Supervise
    \/ AiTick
    \/ ServiceRestarts

\* time passes; the update cycle supervises; signals are delivered; a spawn that
\* is tried again and again succeeds; an orphan's watchdog runs every second
AiFairness ==
    /\ WF_aiVars(AiTick)
    /\ SF_aiVars(\E pressure \in BOOLEAN : SuperviseRunning(pressure))
    /\ WF_aiVars(SignalTaken)
    /\ SF_aiVars(Spawn)
    /\ WF_aiVars(OrphanEnds)

AiSpec == AiInit /\ [][AiNext]_aiVars /\ AiFairness

(***************************************************************************)
(* Properties                                                              *)
(***************************************************************************)
AiTypeOK ==
    /\ helper \in {"none", "ok", "stuck", "hung", "dead"}
    /\ signal \in {"none", "term", "kill"}
    /\ aiFlight \in [Threads -> 0..MaxSequence]
    /\ sup.seen => sup.lastSeen # NoValue

\* The heartbeat that keeps a helper alive in the supervisor's eyes is its own:
\* neither the file an earlier helper left behind nor one that an orphan still
\* writes vouches for the helper that was started last.
HelperVouches == sup.seen => sup.mine

\* A helper that has stopped writing without ending is replaced by a working one:
\* silence is noticed, asking is followed by force, and the next one is started.
HungReplaced == (helper = "hung") ~> (helper = "ok")
=============================================================================
