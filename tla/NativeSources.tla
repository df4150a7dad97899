---------------------------- MODULE NativeSources ---------------------------
(***************************************************************************)
(* The configured energy sources of the native auto-input helper           *)
(* (rust/auto-input-helper external.rs, energy.rs, grid_fusion.rs and the  *)
(* connectors): one attempt per cycle, round robin over the sources that   *)
(* are due; Modbus and OpenDTU read one part per attempt and deliver a     *)
(* snapshot when the last part is in; last good snapshots are kept for a   *)
(* while; what contributes is aggregated with the gateway's battery into a *)
(* SOC, a PV projection and the fused grid reading.                        *)
(*                                                                         *)
(* Sources are numbered 1 .. NsCount, the gateway is source 0.  A SOC is   *)
(* kept as the set of sources it was averaged from, a time as an age.      *)
(***************************************************************************)
EXTENDS Integers, FiniteSets, Sequences

CONSTANTS
    NsCount,      \* number of configured sources
    ConnectorsOf, \* the possible choices, source -> "http", "command",
                  \* "opendtu", "tcp", "udp" or "serial"
    PartsOf,      \* source -> parts a complete read takes at most
    PhysicalOf,   \* source (0 too) -> physical_id, 0 for none
    PriorityOf,   \* source (0 too) -> physical_priority
    IdOf,         \* source (0 too) -> place of its source_id among all, as strings
    NsAnswers,    \* what a complete read may report
    NsGateways,   \* what the gateway may measure
    UseCombined,  \* use_combined_battery_soc
    NsSelectedPv,   \* pv_projection.external_source_id, 0 for all
    NsInterval, NsBackoffBase, NsBackoffMax, NsKeep, \* ExternalPollingPolicy, in ticks
    Failover, Recover, Mismatches, \* grid_fusion: sample counts
    PrimaryAge, GatewayAge, HoldAge, \* grid_fusion: ages and the failover hold
    Tolerance      \* mismatch_absolute_watts

\* What the gateway measures, of one of the given ages.
GatewayReadings(ages) ==
    [soc : BOOLEAN, wh : BOOLEAN, ah : BOOLEAN, lfp : BOOLEAN, configured : BOOLEAN,
     grid : [has : BOOLEAN, w : Int], age : ages]

ASSUME NsAssumption ==
    /\ NsCount \in Nat \ {0}
    /\ PartsOf \in [1 .. NsCount -> Nat \ {0}]
    /\ {NsInterval, NsBackoffBase, Failover, Recover, Mismatches} \subseteq Nat \ {0}
    /\ {NsBackoffMax, NsKeep, PrimaryAge, GatewayAge, HoldAge} \subseteq Nat
    /\ NsGateways \subseteq GatewayReadings({0})   \* measured just now
    /\ \A i, k \in 0 .. NsCount : IdOf[i] = IdOf[k] => i = k

VARIABLES
    kinds,     \* per source: its configured connector_type
    conn,      \* per source: the connector and how far its read has come
    src,       \* per source: SourceState
    turn,      \* ExternalSourceScheduler.cursor
    gate,      \* the gateway's battery and grid measurements
    fuse,      \* GridMeasurementFusion
    told,      \* what the last cycle projected
    era,       \* per source: flips whenever a read of it fails
    cycled     \* a cycle ran in this tick

nsVars == <<kinds, conn, src, turn, gate, fuse, told, era, cycled>>

Sources_ == 1 .. NsCount
NsCap == NsKeep + PrimaryAge + HoldAge + 1

Most(S) == CHOOSE x \in S : \A y \in S : y <= x
NoPower == [has |-> FALSE, w |-> 0]
NoGood == [has |-> FALSE, parts |-> <<>>, soc |-> FALSE, capacity |-> FALSE,
           pv |-> FALSE, grid |-> NoPower, sure |-> FALSE, age |-> 0]
NoReading == [has |-> FALSE, from |-> {}, age |-> 0]

----------------------------------------------------------------------------
\* Connectors.  A connector is built on its first attempt from its own file;
\* parts are the parts read so far, each marked with the era it was read in,
\* left how many the read under way still needs after the next one.

NoConnector == [built |-> FALSE, owned |-> FALSE, parts |-> <<>>, left |-> 0]

\* The four load functions on what the file holds: a usable request, valid
\* fields, something readable, or at least a configured capacity
HttpLoads(file) == file.there /\ file.request /\ (file.readable \/ file.capacity)
CommandLoads(file) == file.there /\ file.request /\ (file.readable \/ file.capacity)
OpenDtuLoads(file) == file.there /\ file.request
TransportLoads(file) == file.request
FieldsLoad(file) == file.valid /\ (file.readable \/ file.capacity)
ModbusLoads(file) == file.there /\ TransportLoads(file) /\ FieldsLoad(file)
Files == [there : BOOLEAN, request : BOOLEAN, valid : BOOLEAN,
          readable : BOOLEAN, capacity : BOOLEAN]

\* build_connector
Loads(kind, file) ==
    CASE kind = "http" -> HttpLoads(file)
      [] kind = "command" -> CommandLoads(file)
      [] kind = "opendtu" -> OpenDtuLoads(file)
      [] OTHER -> ModbusLoads(file)
Loadable(kind) == {Loads(kind, file) : file \in Files}

\* request_json, digest_retry, decode_json_response: a digest challenge is
\* answered once
Replies == [status : {"ok", "unauthorized", "error"}, bounded : BOOLEAN, object : BOOLEAN]
DigestRetry(digest, reply, retried) ==
    IF digest /\ reply.status = "unauthorized" THEN retried ELSE reply
RequestJson(reply) == reply.status = "ok" /\ reply.bounded /\ reply.object
JsonResults == {RequestJson(DigestRetry(d, r, q)) : d \in BOOLEAN, r \in Replies, q \in Replies}

\* run_bounded_command: started, ended before the deadline, within the output
\* limits, with success
CommandRuns == [started : BOOLEAN, ended : BOOLEAN, bounded : BOOLEAN, success : BOOLEAN]
RunBoundedCommand(r) == r.started /\ r.ended /\ r.bounded /\ r.success
CommandResults == {RunBoundedCommand(r) : r \in CommandRuns}

\* exchange_tcp, exchange_udp with the checks of the answering frame
Frames == [ours : BOOLEAN, function : {"asked", "exception", "other"}, sized : BOOLEAN]
ValidateMbap(f) == f.ours
ValidatePdu(f) == f.function = "asked"
DecodeResponse(f) == f.sized
ExchangeOnce(f) == ValidateMbap(f) /\ ValidatePdu(f) /\ DecodeResponse(f)

\* exchange_serial: up to two attempts, the owner stopped again in between
SerialTries == [1 .. 2 -> [answered : BOOLEAN, stopped : BOOLEAN]]
ExchangeSerial(tries) ==
    \E i \in 1 .. 2 : tries[i].answered /\ \A k \in 1 .. i - 1 : tries[k].stopped
Exchange(kind) == IF kind = "serial" THEN {ExchangeSerial(t) : t \in SerialTries}
                  ELSE {ExchangeOnce(f) : f \in Frames}

\* ensure_owned: the serial port's owner is stopped once
Own(kind, c) == IF kind = "serial" THEN [c EXCEPT !.owned = TRUE] ELSE c

\* reset_progress
ResetProgress(c) == [c EXCEPT !.parts = <<>>, !.left = 0]

Mutant_ProgressKept(c) == c

\* the failing branches of read_step: a failed part discards the ones before
\* it; for OpenDTU because progress.take() has already removed them
FailedRead(c) == ResetProgress(c)

\* one step of a read: failed, more to come, or complete with an answer
Step(c, verdict, answer) == [conn |-> c, verdict |-> verdict, answer |-> answer]
NoAnswer_ == [online |-> FALSE, soc |-> FALSE, capacity |-> FALSE, pv |-> FALSE,
              other |-> FALSE, grid |-> NoPower, sure |-> FALSE]
TakePart(s, c) == [c EXCEPT !.parts = Append(@, era[s])]

\* TemplateHttpConnector and CommandJsonConnector: complete in one step
HttpStep(s, c) ==
    {IF ok THEN Step(TakePart(s, c), "complete", answer)
     ELSE Step(FailedRead(c), "failed", NoAnswer_) : ok \in JsonResults, answer \in NsAnswers}
CommandStep(s, c) ==
    {IF ok THEN Step(TakePart(s, c), "complete", answer)
     ELSE Step(FailedRead(c), "failed", NoAnswer_) : ok \in CommandResults, answer \in NsAnswers}

\* ModbusConnector.snapshot: always online, never in doubt
ModbusSnapshot(answer) == [answer EXCEPT !.online = TRUE, !.sure = TRUE]

\* ModbusConnector.read_step: the next field, the snapshot after the last
ModbusStep(s, kind, c) ==
    LET owned == Own(kind, c)
        taken == TakePart(s, owned)
        refused == IF kind = "serial" /\ ~c.owned
                   THEN {Step(FailedRead(c), "failed", NoAnswer_)} ELSE {}
    IN  refused \cup
        {CASE ~ok -> Step(FailedRead(owned), "failed", NoAnswer_)
           [] ok /\ Len(taken.parts) < PartsOf[s] -> Step(taken, "more", NoAnswer_)
           [] OTHER -> Step(taken, "complete", ModbusSnapshot(answer)) :
            ok \in Exchange(kind), answer \in NsAnswers}

\* OpenDtuConnector.completed_snapshot over the kinds of inverters present
Inverters == [reachable : BOOLEAN, recent : BOOLEAN, producing : BOOLEAN]
CompletedSnapshot(present, radio, idleAllowed) ==
    LET online == {i \in present : i.reachable /\ i.recent}
        idle == /\ idleAllowed /\ present # {} /\ online = {} /\ ~radio
                /\ \A i \in present : ~i.reachable /\ ~i.producing
    IN  [online |-> online # {} \/ idle, soc |-> FALSE, capacity |-> FALSE,
         pv |-> online # {}, other |-> online # {} \/ idle, grid |-> NoPower,
         sure |-> idle \/ (present # {} /\ online = present)]
OpenDtuAnswers == {CompletedSnapshot(p, r, a) :
                     p \in SUBSET Inverters, r \in BOOLEAN, a \in BOOLEAN}

\* OpenDtuConnector.read_step: the overview (start) tells how many inverters
\* have to be asked one by one (continue_read)
OpenDtuStep(s, c) ==
    LET fresh == c.parts = <<>>
        lefts == IF fresh THEN 0 .. PartsOf[s] - 1 ELSE {c.left - 1}
    IN  {CASE ~ok -> Step(FailedRead(c), "failed", NoAnswer_)
           [] ok /\ n > 0 -> Step([TakePart(s, c) EXCEPT !.left = n], "more", NoAnswer_)
           [] OTHER -> Step(TakePart(s, c), "complete", answer) :
            ok \in JsonResults, n \in lefts, answer \in OpenDtuAnswers}

\* read_step of the connector; the retries lie within this one step
ReadStep(s, c) ==
    CASE kinds[s] = "http" -> HttpStep(s, c)
      [] kinds[s] = "command" -> CommandStep(s, c)
      [] kinds[s] = "opendtu" -> OpenDtuStep(s, c)
      [] OTHER -> ModbusStep(s, kinds[s], c)

\* the complete read as a snapshot, dated with the cycle that completed it
SnapshotOf(c, answer) ==
    [has |-> TRUE, parts |-> c.parts, soc |-> answer.soc,
     capacity |-> answer.capacity, pv |-> answer.pv, grid |-> answer.grid,
     sure |-> answer.sure, age |-> 0]

\* confirms_measurement, has_contributing_value
Confirms(answer) ==
    /\ answer.online
    /\ answer.soc \/ answer.capacity \/ answer.pv \/ answer.other \/ answer.grid.has

----------------------------------------------------------------------------
\* Scheduler

NewSource == [good |-> NoGood, wait |-> 0, fails |-> 0, progress |-> FALSE]

\* next_due: the first source from the cursor on whose time has come
DueSources_ == {s \in Sources_ : src[s].wait = 0}
Offset(s) == (s - 1 - turn) % NsCount
NsNextDue == CHOOSE s \in DueSources_ : \A o \in DueSources_ : Offset(s) <= Offset(o)

\* backoff_seconds: doubled per failure up to the maximum
BackoffFor(fails) ==
    LET exponent == IF fails - 1 < 30 THEN fails - 1 ELSE 30
        grown == NsBackoffBase * 2 ^ exponent
    IN  IF grown < NsBackoffMax THEN grown ELSE NsBackoffMax

\* record_failure; the failure count is cut where the backoff no longer grows
FailCut == NsBackoffMax + 1
NsRecordFailure(st) ==
    LET fails == IF st.fails < FailCut THEN st.fails + 1 ELSE FailCut
    IN  [st EXCEPT !.fails = fails, !.progress = FALSE, !.wait = BackoffFor(fails)]

NsRecordSuccess(snapshot) ==
    [good |-> snapshot, wait |-> NsInterval, fails |-> 0, progress |-> FALSE]

RecordProgress(st) == [st EXCEPT !.progress = TRUE, !.wait = 0]

\* poll_result
NsContributing(st) == st.good.has /\ st.good.age <= NsKeep
MeasurementStatus(st) ==
    CASE ~st.good.has -> "missing"
      [] st.good.has /\ ~NsContributing(st) -> "expired"
      [] NsContributing(st) /\ st.fails = 0 -> "fresh"
      [] OTHER -> "stale"

----------------------------------------------------------------------------
\* Aggregation.  all is a function from the ids that contribute (0 for the
\* gateway) to their snapshots.

\* gateway_source, GatewayBatteryMeasurements: there when anything was
\* measured; resolved_gateway_capacity, infer_lfp_capacity decide its capacity
NsGatewayCapacity == gate.wh \/ gate.configured \/ (gate.ah /\ gate.soc /\ gate.lfp)
GatewaySnapshot == [has |-> TRUE, parts |-> <<>>, soc |-> gate.soc,
                    capacity |-> NsGatewayCapacity, pv |-> FALSE,
                    grid |-> NoPower, sure |-> TRUE, age |-> gate.age]
GatewayThere == gate.soc \/ gate.wh \/ gate.ah

Contributors(state) ==
    [i \in {s \in Sources_ : NsContributing(state[s])}
            \cup (IF GatewayThere THEN {0} ELSE {}) |->
        IF i = 0 THEN GatewaySnapshot ELSE state[i].good]

Provides(all, i) == all[i].soc /\ all[i].capacity

\* soc_quality: (online, captured, priority, confidence, id); the first two
\* hold of every contributor
Outranks(all, i, k) ==
    \/ PriorityOf[i] > PriorityOf[k]
    \/ /\ PriorityOf[i] = PriorityOf[k]
       /\ \/ all[i].sure /\ ~all[k].sure
          \/ all[i].sure = all[k].sure /\ IdOf[i] > IdOf[k]

\* aggregate_energy_sources, unique_weighted_soc_sources: one source per
\* physical battery, chosen before it is asked whether it has a SOC at all
AveragedSources(all) ==
    {i \in DOMAIN all :
        /\ Provides(all, i)
        /\ PhysicalOf[i] # 0 =>
             \A k \in DOMAIN all \ {i} :
                PhysicalOf[k] = PhysicalOf[i] => Outranks(all, i, k)}

\* weighted_soc_sources: the sources that date it, chosen among those with a
\* SOC and a capacity; between equals the first one stays
DatingSources(all) ==
    LET giving == {i \in DOMAIN all : Provides(all, i)}
        Place(i) == IF i = 0 THEN NsCount + 1 ELSE i
        Better(i, k) ==
            \/ PriorityOf[i] > PriorityOf[k]
            \/ /\ PriorityOf[i] = PriorityOf[k]
               /\ \/ all[i].sure /\ ~all[k].sure
                  \/ all[i].sure = all[k].sure /\ Place(i) < Place(k)
    IN  {i \in giving : PhysicalOf[i] # 0 =>
            \A k \in giving \ {i} : PhysicalOf[k] = PhysicalOf[i] => Better(i, k)}

Mutant_Newest(all, S) ==
    CHOOSE a \in {all[i].age : i \in S} : \A i \in S : a <= all[i].age

Oldest(all, S) == Most({all[i].age : i \in S})

\* select_soc
SelectSoc(all) ==
    LET averaged == AveragedSources(all)
        own == {i \in DOMAIN all \ {0} : all[i].soc}
        first == CHOOSE i \in own : \A k \in own : i <= k
    IN  CASE UseCombined /\ averaged # {} ->
                [has |-> TRUE, from |-> averaged,
                 age |-> Oldest(all, DatingSources(all))]
          [] ~(UseCombined /\ averaged # {}) /\ own # {} ->
                [has |-> TRUE, from |-> {first}, age |-> all[first].age]
          [] ~(UseCombined /\ averaged # {}) /\ own = {} /\ 0 \in DOMAIN all /\ gate.soc ->
                [has |-> TRUE, from |-> {0}, age |-> gate.age]
          [] OTHER -> NoReading

\* external_pv_projection, single_pv_projection: the selected source, or the
\* sum of all dated with the oldest
ProjectPv(state) ==
    LET able == {s \in Sources_ : /\ NsContributing(state[s]) /\ state[s].good.pv
                                  /\ NsSelectedPv \in {0, s}}
        goods == [s \in able |-> state[s].good]
    IN  IF able = {} THEN NoReading
        ELSE [has |-> TRUE, from |-> able, age |-> Oldest(goods, able)]

----------------------------------------------------------------------------
\* GridMeasurementFusion; source 1 is the primary, the gateway the backup

NewFusion == [active |-> "none", last |-> NoReading, invalid |-> 0,
              recovered |-> 0, mismatch |-> 0]

\* GridMeasurement::usable
PrimaryValid(state) ==
    LET g == state[1].good
    IN  g.has /\ g.grid.has /\ g.sure /\ g.age <= PrimaryAge
BackupValid == gate.grid.has /\ gate.age <= GatewayAge

Activate(f, side) == [f EXCEPT !.active = side, !.invalid = 0, !.recovered = 0]
Pick(f, source, age) == [fusion |-> f, source |-> source, age |-> age]

\* select, select_initial, select_primary, select_backup, held_primary
SelectGrid(f, state, p, b) ==
    LET primary == Pick(Activate(f, "primary"), "primary", state[1].good.age)
        backup == Pick(Activate(f, "backup"), "backup", gate.age)
        missed == [f EXCEPT !.invalid = IF @ < Failover THEN @ + 1 ELSE @]
        held == /\ missed.invalid < Failover /\ f.last.has
                /\ f.last.age <= PrimaryAge + HoldAge
        again == [f EXCEPT !.recovered = CASE ~p -> 0
                                            [] p /\ @ < Recover -> @ + 1
                                            [] OTHER -> @]
    IN  CASE f.active = "none" ->
               (CASE p -> primary
                  [] ~p /\ b -> backup
                  [] OTHER -> Pick(f, "nobody", 0))
          [] f.active = "primary" ->
               (CASE p -> Pick([f EXCEPT !.invalid = 0], "primary", state[1].good.age)
                  [] ~p /\ held -> Pick(missed, "held", f.last.age)
                  [] ~p /\ ~held /\ b -> backup
                  [] OTHER -> Pick(missed, "nobody", 0))
          [] f.active = "backup" ->
               (CASE p /\ again.recovered >= Recover -> primary
                  [] ~(p /\ again.recovered >= Recover) /\ b ->
                        Pick(again, "backup", gate.age)
                  [] p /\ again.recovered < Recover /\ ~b ->
                        Pick(again, "emergency", state[1].good.age)
                  [] OTHER -> Pick(again, "nobody", 0))

\* plausibility, conservative: two valid readings that differ for long enough
\* are replaced by the larger, dated with the older
Plausible(f, state, p, b) ==
    LET gap == state[1].good.grid.w - gate.grid.w
        apart == gap > Tolerance \/ -gap > Tolerance
    IN  [f EXCEPT !.mismatch =
            IF ~(p /\ b) \/ ~apart THEN 0
            ELSE IF @ < Mismatches THEN @ + 1 ELSE @]

\* resolve
ResolveFusion(f, state) ==
    LET p == PrimaryValid(state)
        b == BackupValid
        seen == IF p THEN [f EXCEPT !.last = [has |-> TRUE, from |-> {1},
                                              age |-> state[1].good.age]] ELSE f
        chosen == SelectGrid(seen, state, p, b)
        checked == Plausible(chosen.fusion, state, p, b)
    IN  IF p /\ b /\ checked.mismatch >= Mismatches
        THEN Pick(checked, "conservative", Most({state[1].good.age, gate.age}))
        ELSE Pick(checked, chosen.source, chosen.age)

----------------------------------------------------------------------------
\* attempt: the connector and the source's state afterwards, and whether the
\* attempt failed.  A connector that cannot be built is tried again next time.
Failed_(s, c) == [conn |-> c, src |-> NsRecordFailure(src[s]), failed |-> TRUE]

Concluded(s, step) ==
    CASE step.verdict = "failed" -> Failed_(s, step.conn)
      [] step.verdict = "more" ->
           [conn |-> step.conn, src |-> RecordProgress(src[s]), failed |-> FALSE]
      [] step.verdict = "complete" /\ Confirms(step.answer) ->
           [conn |-> ResetProgress(step.conn), failed |-> FALSE,
            src |-> NsRecordSuccess(SnapshotOf(step.conn, step.answer))]
      [] OTHER -> Failed_(s, ResetProgress(step.conn))

AttemptOutcomes(s) ==
    (IF conn[s].built \/ FALSE \notin Loadable(kinds[s]) THEN {} ELSE {Failed_(s, conn[s])})
    \cup {Concluded(s, step) : step \in ReadStep(s, [conn[s] EXCEPT !.built = TRUE])}

\* collect_cycle with resolve_grid after it: at most one attempt, then
\* everything is projected from what is kept
CollectCycle ==
    /\ ~cycled
    /\ IF DueSources_ = {}
       THEN UNCHANGED <<conn, src, turn, era>>
       ELSE /\ turn' = NsNextDue % NsCount
            /\ \E out \in AttemptOutcomes(NsNextDue) :
                 /\ conn' = [conn EXCEPT ![NsNextDue] = out.conn]
                 /\ src' = [src EXCEPT ![NsNextDue] = out.src]
                 /\ era' = [era EXCEPT ![NsNextDue] = IF out.failed THEN 1 - @ ELSE @]
    /\ LET grid == ResolveFusion(fuse, src')
           all == Contributors(src')
       IN  /\ fuse' = grid.fusion
           /\ told' = [soc |-> SelectSoc(all), pv |-> ProjectPv(src'),
                       grid |-> [source |-> grid.source, age |-> grid.age]]
    /\ cycled' = TRUE
    /\ UNCHANGED <<kinds, gate>>

\* the process is restarted: kept snapshots and connectors are gone, a serial
\* port that was taken over is given back by Drop
HelperRestarts ==
    /\ conn' = [s \in Sources_ |-> NoConnector]
    /\ src' = [s \in Sources_ |-> NewSource]
    /\ turn' = 0
    /\ fuse' = NewFusion
    /\ told' = [soc |-> NoReading, pv |-> NoReading,
                grid |-> [source |-> "nobody", age |-> 0]]
    /\ era' = [s \in Sources_ |-> 0]
    /\ UNCHANGED <<kinds, gate, cycled>>

GatewayMeasures ==
    /\ gate.age > 0
    /\ gate' \in NsGateways
    /\ UNCHANGED <<kinds, conn, src, turn, fuse, told, era, cycled>>

Grown(n) == IF n < NsCap THEN n + 1 ELSE n
Later(dated) == [dated EXCEPT !.age = Grown(@)]
Older(reading) == IF reading.has THEN Later(reading) ELSE reading

TickGoesBy ==
    /\ cycled
    /\ src' = [s \in Sources_ |->
                 [src[s] EXCEPT !.wait = IF @ > 0 THEN @ - 1 ELSE 0, !.good = Older(@)]]
    /\ gate' = Later(gate)
    /\ fuse' = [fuse EXCEPT !.last = Older(@)]
    /\ told' = [told EXCEPT !.soc = Older(@), !.pv = Older(@), !.grid = Later(@)]
    /\ cycled' = FALSE
    /\ UNCHANGED <<kinds, conn, turn, era>>

NsInit ==
    /\ kinds \in ConnectorsOf
    /\ conn = [s \in Sources_ |-> NoConnector]
    /\ src = [s \in Sources_ |-> NewSource]
    /\ turn = 0
    /\ gate \in NsGateways
    /\ fuse = NewFusion
    /\ told = [soc |-> NoReading, pv |-> NoReading,
               grid |-> [source |-> "nobody", age |-> 0]]
    /\ era = [s \in Sources_ |-> 0]
    /\ cycled = FALSE

NsNext == CollectCycle \/ HelperRestarts \/ GatewayMeasures \/ TickGoesBy

----------------------------------------------------------------------------
\* Shape of the state: the type invariant of this component.
NsTypeOK ==
    /\ \A s \in Sources_ :
         /\ Len(conn[s].parts) < PartsOf[s]
         /\ src[s].wait \in 0 .. (IF NsInterval > NsBackoffMax THEN NsInterval ELSE NsBackoffMax)
         /\ src[s].fails \in 0 .. FailCut
         /\ src[s].good.age \in 0 .. NsCap
         /\ src[s].progress => conn[s].parts # <<>>
    /\ turn \in 0 .. NsCount - 1
    /\ fuse.active \in {"none", "primary", "backup"}
    /\ told.soc.from \subseteq 0 .. NsCount

\* A snapshot that was accepted holds only parts of one uninterrupted read:
\* after a failed part, whether of the transport or because the source turned
\* out to be offline, nothing read before it is used again, whatever other
\* sources were attempted in between (modbus.rs reset_progress, opendtu.rs
\* progress.take, external.rs attempt).
OnePass ==
    \A s \in Sources_ : src[s].good.has =>
        Cardinality({src[s].good.parts[i] : i \in DOMAIN src[s].good.parts}) = 1

\* What the code cannot tell from i by rank: observers of i's battery with a
\* SOC, a capacity, and i's priority and confidence.
SureIn(state, i) == IF i = 0 THEN TRUE ELSE state[i].good.sure
EquallyGood(state, i) ==
    {i} \cup {k \in 0 .. NsCount :
                /\ PhysicalOf[i] # 0 /\ PhysicalOf[k] = PhysicalOf[i]
                /\ PriorityOf[k] = PriorityOf[i] /\ SureIn(state, k) = SureIn(state, i)
                /\ k # 0 => state[k].good.has /\ state[k].good.soc /\ state[k].good.capacity}

\* The SOC is never dated newer than a source it was averaged from, or than an
\* equally good observer of that source's battery: averaging (energy.rs
\* unique_weighted_soc_sources) and dating (external.rs weighted_soc_sources)
\* choose the observer of a battery by different rules, and agree up to ties.
SocDated ==
    \A i \in told.soc.from : \E k \in EquallyGood(src, i) :
        told.soc.age >= (IF k = 0 THEN gate.age ELSE src[k].good.age)
=============================================================================
