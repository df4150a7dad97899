-------------------------- MODULE MCGateway_proofs --------------------------
(***************************************************************************)
(* The gateway's components together: whatever is proved of a component    *)
(* holds in the bundle, where one component moves and the others stand     *)
(* still.                                                                  *)
(***************************************************************************)
EXTENDS MCGateway, Gateway_proofs,
        FiniteSetTheorems, SequenceTheorems, WellFoundedInduction

BundleSpec == BundleInit /\ [][BundleNext]_bundleVars

(***************************************************************************)
(* Every component sees a behaviour of its own specification.              *)
(***************************************************************************)
LEMMA BundleStarts ==
    BundleInit => /\ part \in Parts /\ Init /\ HealthInit /\ PvInit /\ NhInit /\ ObsInit
                  /\ BootInit /\ SwInit /\ CeInit
BY DEF BundleInit

LEMMA BundleSteps ==
    ASSUME [BundleNext]_bundleVars
    PROVE  /\ part' = part
           /\ [Next]_vars /\ [HealthNext]_healthVars /\ [PvNext]_pvVars /\ [NhNext]_nhVars
           /\ [ObsNext]_obsVars /\ [BootNext]_bootVars /\ [SwNext]_swVars /\ [CeNext]_ceVars
<1>1. CASE UNCHANGED bundleVars
  BY <1>1 DEF bundleVars
<1>2. CASE BundleNext
  BY <1>2 DEF BundleNext, Others
<1> QED BY <1>1, <1>2

LEMMA ComponentsRun ==
    BundleSpec => /\ HealthSpec /\ PvSpec /\ NhSpec /\ ObsSpec /\ BootSpec /\ SwSpec /\ CeSpec
                  /\ Init /\ [][Next]_vars
BY BundleStarts, BundleSteps, PTL
   DEF BundleSpec, HealthSpec, PvSpec, NhSpec, ObsSpec, BootSpec, SwSpec, CeSpec

\* What no step of the gateway may do, for any samples, windows, holds and
\* topologies (health/state.py, health/breaker, PV discovery, capacity_persistence.rs).
THEOREM StepsAreEarned == BundleSpec => GatewaySteps
BY ComponentsRun, RecoveryIsCalm, TripWasEarned, GenerationsTellTopology, WrittenWasEarned, PTL
   DEF GatewaySteps

(***************************************************************************)
(* The capacity estimate.                                                  *)
(***************************************************************************)
CapacityShape ==
    /\ ini \in [estimate : Inferred, explicit : BOOLEAN, edits : 0 .. MaxEdits]
    /\ draft.explicit \in BOOLEAN /\ draft.edits \in 0 .. MaxEdits
    /\ keeper.attempts \in 0 .. MaxWrites /\ keeper.candidate \in Inferred
    /\ Collecting(keeper) => keeper.attempts < MaxWrites
    /\ recent \in [1 .. StableNeeded -> Inferred]
    /\ draft.open => keeper.candidate # 0

LEMMA CapacityBounds == MaxWrites \in Nat \ {0} /\ MaxEdits \in Nat /\ 0 \in Inferred
BY CeAssumption DEF CeAssumption, Inferred

\* A write that fails is counted, and the last one allowed ends the collection.
LEMMA AttemptsCounted ==
    ASSUME NEW k, KeeperOk(k), k.attempts \in 0 .. MaxWrites, Collecting(k) => k.attempts < MaxWrites
    PROVE  /\ Passed(k).attempts = k.attempts /\ (Collecting(Passed(k)) <=> Collecting(k))
           /\ [Passed(k) EXCEPT !.complete = TRUE].attempts = k.attempts
           /\ ~Collecting([Passed(k) EXCEPT !.complete = TRUE])
           /\ Collecting(k) => /\ WriteFailed(k).attempts \in 0 .. MaxWrites
                               /\ Collecting(WriteFailed(k)) => WriteFailed(k).attempts < MaxWrites
<1> DEFINE p == Passed(k)  f == WriteFailed(k)
<1>1. /\ p.attempts = k.attempts /\ p.enabled = k.enabled /\ p.complete = k.complete
      /\ p \in [enabled : {p.enabled}, complete : {p.complete}, configured : {p.configured},
                candidate : {p.candidate}, stable : {p.stable}, attempts : {p.attempts},
                notBefore : {p.notBefore}, retryIn : {p.retryIn}]
  BY DEF Passed, KeeperOk
<1>2. f.attempts = k.attempts + 1 /\ (k.attempts + 1 >= MaxWrites => f.complete)
  BY DEF WriteFailed, KeeperOk
<1> HIDE DEF p, f
<1> DEFINE c == [p EXCEPT !.complete = TRUE]
<1>3. c.attempts = p.attempts /\ c.complete = TRUE
  BY <1>1
<1> HIDE DEF c
<1>4. /\ p.attempts = k.attempts /\ (Collecting(p) <=> Collecting(k))
      /\ c.attempts = k.attempts /\ ~Collecting(c)
  BY <1>1, <1>3 DEF Collecting
<1>5. Collecting(k) => f.attempts \in 0 .. MaxWrites /\ (Collecting(f) => f.attempts < MaxWrites)
  BY <1>2, CapacityBounds DEF Collecting
<1> QED BY <1>4, <1>5 DEF p, f, c

LEMMA CountedCandidate ==
    ASSUME KeeperOk(keeper), NEW e
    PROVE  /\ Counted_(keeper, e).candidate \in {0, e} /\ Counted_(keeper, e).attempts = keeper.attempts
           /\ e # 0 => Counted_(keeper, e).candidate = e
<1> DEFINE n == IF keeper.stable < StableNeeded THEN keeper.stable + 1 ELSE keeper.stable
<1>1. \/ e = 0 /\ Counted_(keeper, e) = [keeper EXCEPT !.candidate = 0, !.stable = 0]
      \/ e # 0 /\ keeper.candidate = e /\ Counted_(keeper, e) = [keeper EXCEPT !.stable = n]
      \/ e # 0 /\ Counted_(keeper, e) = [keeper EXCEPT !.candidate = e, !.stable = 1]
  BY DEF Counted_, StableWith
<1> HIDE DEF n
<1> QED BY <1>1 DEF KeeperOk

LEMMA NotedAmongInferred ==
    ASSUME CeInv, CapacityShape, NEW e \in Inferred
    PROVE  Noted(e) \in [1 .. StableNeeded -> Inferred]
<1>1. /\ Noted(e) \in Seq(Nat) /\ Len(Noted(e)) = StableNeeded /\ Noted(e)[StableNeeded] = e
      /\ \A i \in 1 .. StableNeeded - 1 : Noted(e)[i] = recent[i + 1]
  BY CeConstants, NotedFacts DEF CeInv
<1> HIDE DEF Noted
<1>2. ASSUME NEW i \in 1 .. StableNeeded PROVE Noted(e)[i] \in Inferred
  <2>1. CASE i = StableNeeded
    BY <1>1, <2>1
  <2>2. CASE i # StableNeeded
    <3>1. i \in 1 .. StableNeeded - 1 /\ i + 1 \in 1 .. StableNeeded
      BY <2>2, CeConstants
    <3> QED BY <1>1, <3>1 DEF CapacityShape
  <2> QED BY <2>1, <2>2
<1>3. Noted(e) = [i \in 1 .. StableNeeded |-> Noted(e)[i]]
  BY <1>1
<1> QED BY <1>2, <1>3

LEMMA CapacityKeepsShape == ASSUME CeInv, CapacityShape, [CeNext]_ceVars PROVE CapacityShape'
<1>0. KeeperOk(keeper) /\ (Collecting(keeper) => keeper.attempts < MaxWrites)
      /\ keeper.attempts \in 0 .. MaxWrites
  BY DEF CeInv, CapacityShape
<1>1. CASE Observe
  <2>1. PICK e \in Inferred :
          /\ recent' = Noted(e) /\ ini' = ini
          /\ \/ keeper' = Passed(keeper) /\ draft' = draft /\ ~draft.open
             \/ /\ Collecting(keeper) /\ draft' = draft /\ ~draft.open
                /\ keeper' \in {Passed(Counted_(keeper, e)), WriteFailed(Counted_(keeper, e)),
                                [Passed(Counted_(keeper, e)) EXCEPT !.complete = TRUE]}
             \/ /\ Collecting(keeper) /\ keeper' = Counted_(keeper, e) /\ e # 0
                /\ draft' = [open |-> TRUE, estimate |-> ini.estimate, explicit |-> ini.explicit,
                             edits |-> ini.edits]
    BY <1>1 DEF Observe, Collecting
  <2> DEFINE k == Counted_(keeper, e)
  <2>2. recent' \in [1 .. StableNeeded -> Inferred]
    BY <2>1, NotedAmongInferred
  <2>3. k.candidate \in Inferred /\ k.attempts = keeper.attempts /\ (e # 0 => k.candidate # 0)
    BY <1>0, CountedCandidate, CapacityBounds
  <2>4. Collecting(keeper) => KeeperOk(k) /\ (Collecting(k) <=> Collecting(keeper))
    BY CountedFacts, CeConstants DEF CeInv, Collecting
  <2>5. Collecting(keeper) => /\ KeeperOk(k) /\ Collecting(k) /\ k.attempts < MaxWrites
                              /\ k.attempts \in 0 .. MaxWrites
    BY <1>0, <2>3, <2>4
  <2>6. CASE keeper' = Passed(keeper) /\ draft' = draft /\ ~draft.open
    <3>1. /\ keeper'.attempts = keeper.attempts /\ (Collecting(keeper') <=> Collecting(keeper))
          /\ keeper'.candidate = keeper.candidate
      BY <1>0, <2>6, AttemptsCounted, KeeperSteps
    <3> QED BY <2>1, <2>2, <2>6, <3>1 DEF CapacityShape
  <2>7. CASE /\ Collecting(keeper) /\ draft' = draft /\ ~draft.open
             /\ keeper' \in {Passed(k), WriteFailed(k), [Passed(k) EXCEPT !.complete = TRUE]}
    <3> HIDE DEF k
    <3>1. keeper'.candidate = k.candidate
      BY <2>5, <2>7, KeeperSteps
    <3>2. keeper'.attempts \in 0 .. MaxWrites /\ (Collecting(keeper') => keeper'.attempts < MaxWrites)
      BY <2>5, <2>7, AttemptsCounted
    <3> QED BY <2>1, <2>2, <2>3, <2>7, <3>1, <3>2 DEF CapacityShape
  <2>8. CASE /\ Collecting(keeper) /\ keeper' = k /\ e # 0
             /\ draft' = [open |-> TRUE, estimate |-> ini.estimate, explicit |-> ini.explicit,
                             edits |-> ini.edits]
    <3> HIDE DEF k
    <3>1. draft'.explicit \in BOOLEAN /\ draft'.edits \in 0 .. MaxEdits
      BY <2>8 DEF CapacityShape
    <3> QED BY <2>1, <2>2, <2>3, <2>5, <2>8, <3>1 DEF CapacityShape
  <2> QED BY <2>1, <2>6, <2>7, <2>8
<1>2. CASE Persist
  <2>1. /\ draft.open /\ recent' = recent /\ draft' = NoDraft
        /\ \/ ini' \in {ini, Upsert(draft, keeper.candidate)}
              /\ keeper' = [Passed(keeper) EXCEPT !.complete = TRUE]
           \/ keeper' = WriteFailed(keeper) /\ ini' = ini
    BY <1>2 DEF Persist
  <2>2. Collecting(keeper)
    BY <2>1 DEF CeInv
  <2>7. keeper' \in {Passed(keeper), WriteFailed(keeper), [Passed(keeper) EXCEPT !.complete = TRUE]}
    BY <2>1
  <2>3. keeper'.candidate = keeper.candidate
    BY <1>0, <2>7, KeeperSteps
  <2>6. keeper'.attempts \in 0 .. MaxWrites /\ (Collecting(keeper') => keeper'.attempts < MaxWrites)
    BY <1>0, <2>2, <2>7, AttemptsCounted
  <2>4. ini' \in [estimate : Inferred, explicit : BOOLEAN, edits : 0 .. MaxEdits]
    BY <2>1 DEF Upsert, CapacityShape
  <2>5. draft'.open = FALSE /\ draft'.explicit \in BOOLEAN /\ draft'.edits \in 0 .. MaxEdits
    BY <2>1, CapacityBounds DEF NoDraft
  <2> QED BY <2>1, <2>3, <2>4, <2>5, <2>6 DEF CapacityShape
<1>3. CASE HelperStartsAgain
  <2>1. /\ ini' = ini /\ draft'.open = FALSE /\ draft'.explicit \in BOOLEAN /\ draft'.edits \in 0 .. MaxEdits
        /\ recent' = [i \in 1 .. StableNeeded |-> 0] /\ keeper' = NewKeeper(ini)
    BY <1>3, CapacityBounds DEF HelperStartsAgain, NoDraft
  <2>2. keeper'.attempts = 0 /\ keeper'.candidate = 0
    BY <2>1 DEF NewKeeper
  <2> QED BY <2>1, <2>2, CapacityBounds DEF CapacityShape
<1>4. CASE OthersEdit
  <2>1. PICK explicit \in BOOLEAN : ini' = [ini EXCEPT !.edits = @ + 1, !.explicit = explicit]
    BY <1>4 DEF OthersEdit
  <2>2. ini' \in [estimate : Inferred, explicit : BOOLEAN, edits : 0 .. MaxEdits]
    <3>1. ini.edits + 1 \in 0 .. MaxEdits
      BY <1>4, CapacityBounds DEF OthersEdit, CapacityShape
    <3> QED BY <2>1, <3>1 DEF CapacityShape
  <2> QED BY <1>4, <2>2 DEF OthersEdit, CapacityShape
<1>5. CASE UNCHANGED ceVars
  BY <1>5 DEF ceVars, CapacityShape
<1> QED BY <1>1, <1>2, <1>3, <1>4, <1>5 DEF CeNext

LEMMA CapacityTypes == CeSpec => []CeTypeOK
<1>1. CeInit => CeInv /\ CapacityShape
  <2> SUFFICES ASSUME CeInit PROVE CeInv /\ CapacityShape
    OBVIOUS
  <2>1. keeper = NewKeeper(ini) /\ draft.open = FALSE /\ draft.explicit = FALSE /\ draft.edits = 0
        /\ recent = [i \in 1 .. StableNeeded |-> 0]
    BY DEF CeInit, NoDraft
  <2>2. ini \in [estimate : Inferred, explicit : BOOLEAN, edits : {0}]
    BY DEF CeInit
  <2>3. keeper.attempts = 0 /\ keeper.candidate = 0
    BY <2>1 DEF NewKeeper
  <2>4. ini \in [estimate : {ini.estimate}, explicit : {ini.explicit}, edits : {ini.edits}]
    BY <2>2
  <2>5. CeInv
    BY <2>1, <2>4, StartFacts DEF CeInv
  <2>6. CapacityShape
    <3>1. 0 \in 0 .. MaxEdits /\ 0 \in 0 .. MaxWrites /\ 0 < MaxWrites
      BY CapacityBounds
    <3>2. ini \in [estimate : Inferred, explicit : BOOLEAN, edits : 0 .. MaxEdits]
      BY <2>2, <3>1
    <3>3. recent \in [1 .. StableNeeded -> Inferred]
      BY <2>1, CapacityBounds
    <3>4. draft.explicit \in BOOLEAN
      BY <2>1
    <3> QED BY <2>1, <2>3, <3>1, <3>2, <3>3, <3>4, CapacityBounds DEF CapacityShape
  <2> QED BY <2>5, <2>6
<1>2. (CeInv /\ CapacityShape) /\ [CeNext]_ceVars => (CeInv /\ CapacityShape)'
  BY CapacityStep, CapacityKeepsShape
<1>3. CeInv /\ CapacityShape => CeTypeOK
  BY DEF CeInv, CapacityShape, CeTypeOK, KeeperOk
<1> QED BY <1>1, <1>2, <1>3, PTL DEF CeSpec

(***************************************************************************)
(* The native health.                                                      *)
(***************************************************************************)
NhConditions == {"ok", "degraded", "protective"}
NhPressures == {"ok", "busy", "constrained"}

BreakerCounts == \A i \in 0 .. OpWindow : timeouts_[i] \in 0 .. NhCap
BreakerHolds == circuit.protect \in 0 .. ProtectTicks /\ circuit.degrade \in 0 .. DegradeTicks
NhLatches ==
    /\ resource \in [state : NhPressures, target : {resource.target}, since : {resource.since},
                     causes : {resource.causes}]
    /\ overall \in [state : NhConditions, target : {overall.target}, since : {overall.since}]

NhShape == BreakerCounts /\ BreakerHolds /\ NhLatches /\ tickLength \in ShortTick .. LongTick

LEMMA NhBounds ==
    /\ OpWindow \in Nat /\ ProtectAbove \in Nat /\ DegradeTicks \in Nat /\ ProtectTicks \in Nat
    /\ LongTick \in Nat /\ ShortTick \in Nat /\ 1 <= ShortTick /\ ShortTick <= LongTick
    /\ NhCap \in Nat /\ 0 <= NhCap
BY NhAssumption DEF NhAssumption, NhCap

\* The tick is never shorter or longer than its bounds.
LEMMA TickLengths ==
    ASSUME NEW d \in NhDemands
    PROVE  TickFor(d) \in ShortTick .. LongTick
<1> DEFINE count == d.reads + d.queue
           base == IF count = 0 \/ NhStateBaseline > NhServiceFloor(d) THEN NhStateBaseline ELSE NhServiceFloor(d)
           spare == (CriticalDeadline(d) * 8) \div 10 - d.p95 * count
           left == Within(spare, 0, 100000)
           room == Within(left \div (IF count = 0 THEN 1 ELSE count), NhServiceFloor(d), LongTick)
<1>1. /\ d.reads \in Nat /\ d.queue \in Nat /\ d.p95 \in Nat /\ d.readDeadline \in Nat
      /\ d.readAge \in Nat /\ d.queueDeadline \in Nat /\ d.queueAge \in Nat
  BY NhAssumption DEF NhAssumption
<1>2. NhStateBaseline \in ShortTick .. LongTick
  <2>1. (IF ShortTick * 5 > 100 THEN (ShortTick * 5) \div 2 ELSE 50) \in Int
        /\ (IF ShortTick * 3 > 60 THEN (ShortTick * 3) \div 2 ELSE 30) \in Int
    BY NhBounds
  <2> QED BY <2>1, NhBounds DEF NhStateBaseline, Within
<1>3. NhServiceFloor(d) \in ShortTick .. LongTick
  BY <1>1, NhBounds DEF NhServiceFloor, Within
<1>4. CriticalDeadline(d) \in Int
  <2>1. \A n \in Int : Within(n, 0, 100000) \in Int
    BY DEF Within
  <2>2. d.readDeadline - d.readAge \in Int /\ d.queueDeadline - d.queueAge \in Int
    BY <1>1
  <2> QED BY <2>1, <2>2 DEF CriticalDeadline
<1>5. count \in Nat
  BY <1>1
<1>6. base \in ShortTick .. LongTick
  BY <1>2, <1>3
<1>7. left \in Int
  <2>1. d.p95 * count \in Int
    BY <1>1, <1>5
  <2>2. spare \in Int
    <3>1. (CriticalDeadline(d) * 8) \div 10 \in Int
      BY <1>4
    <3> QED BY <2>1, <3>1
  <2> HIDE DEF spare
  <2> QED BY <2>2 DEF Within
<1> HIDE DEF base, left, spare
<1>8. room \in NhServiceFloor(d) .. LongTick
  <2>1. left \div (IF count = 0 THEN 1 ELSE count) \in Int
    BY <1>5, <1>7
  <2> QED BY <2>1, <1>3, NhBounds DEF Within
<1>9. room \in ShortTick .. LongTick
  BY <1>3, <1>8, NhBounds
<1> HIDE DEF room
<1>10. TickFor(d) \in {LongTick, base, room}
  BY DEF TickFor, base, left, room, spare
<1> QED BY <1>6, <1>9, <1>10, NhBounds

\* A latch holds what it is told to, or what it held.
LEMMA LatchedFacts ==
    ASSUME NEW latch, NEW wanted, NEW hold
    PROVE  Latched(latch, wanted, hold)
             \in {[latch EXCEPT !.state = wanted, !.target = wanted, !.since = 0]}
                 \cup {[latch EXCEPT !.target = wanted, !.since = s] : s \in {0, latch.since}}
BY DEF Latched

LEMMA CandidateFacts == ASSUME NEW s PROVE Candidate(s) \in NhPressures
BY DEF Candidate, Classified, NhPressures

LEMMA WantedFacts ==
    ASSUME NEW violated, NEW p
    PROVE  Worse(OperationalState, PerformanceState(violated, p)) \in NhConditions
BY DEF Worse, OperationalState, PerformanceState, NhConditions

LEMMA SampleKeeps == ASSUME NhLatches, SampleResources PROVE NhLatches'
<1>1. PICK s \in NhSamples :
        resource' = [Latched(resource, Candidate(s), ResourceTicks) EXCEPT !.causes =
                       PressureEvidence(resource.state, Latched(resource, Candidate(s), ResourceTicks).state,
                                        resource.causes, s)]
  BY DEF SampleResources
<1> DEFINE to == Candidate(s)
           next == Latched(resource, to, ResourceTicks)
           causes == PressureEvidence(resource.state, next.state, resource.causes, s)
<1>2. to \in NhPressures
  BY CandidateFacts
<1>3. next \in {[resource EXCEPT !.state = to, !.target = to, !.since = 0]}
                 \cup {[resource EXCEPT !.target = to, !.since = t] : t \in {0, resource.since}}
  BY LatchedFacts
<1> HIDE DEF to, next
<1>4. next \in [state : NhPressures, target : {next.target}, since : {next.since}, causes : {next.causes}]
  BY <1>2, <1>3 DEF NhLatches
<1>5. resource' = [next EXCEPT !.causes = causes]
  BY <1>1 DEF to, next
<1> HIDE DEF causes
<1>6. resource' \in [state : NhPressures, target : {resource'.target}, since : {resource'.since},
                     causes : {resource'.causes}]
  BY <1>4, <1>5
<1> QED BY <1>6 DEF SampleResources, NhLatches

LEMMA PublishKeepsHealth ==
    ASSUME NhLatches, PublishHealth
    PROVE  NhLatches' /\ tickLength' \in ShortTick .. LongTick
<1>1. PICK o \in NhSlo, d \in NhDemands :
        /\ overall' = Latched(overall, Worse(OperationalState, PerformanceState(SloViolated(o), SloPressure(o))),
                              AggregateTicks)
        /\ tickLength' = TickFor(d)
  BY DEF PublishHealth
<1> DEFINE to == Worse(OperationalState, PerformanceState(SloViolated(o), SloPressure(o)))
<1>2. to \in NhConditions
  BY WantedFacts
<1>3. overall' \in {[overall EXCEPT !.state = to, !.target = to, !.since = 0]}
                 \cup {[overall EXCEPT !.target = to, !.since = t] : t \in {0, overall.since}}
  BY <1>1, LatchedFacts
<1> HIDE DEF to
<1>4. overall' \in [state : NhConditions, target : {overall'.target}, since : {overall'.since}]
  BY <1>2, <1>3 DEF NhLatches
<1> QED BY <1>1, <1>4, TickLengths DEF PublishHealth, NhLatches

LEMMA OperationKeeps ==
    ASSUME TripInv, NhShape, RecordOperation
    PROVE  NhShape'
<1>1. PICK op \in [kind : NhOperations, result : {"ok", "error", "timeout"}] :
        /\ timeouts_' = [timeouts_ EXCEPT ![0] = IF CountsAsTimeout(op) THEN Within(@ + 1, 0, NhCap) ELSE @]
        /\ \/ \E n : Tripped(op, n)
           \/ circuit' \in {circuit, [circuit EXCEPT !.degrade = DegradeTicks]}
        /\ resource' = resource /\ overall' = overall /\ tickLength' = tickLength
  BY DEF RecordOperation
<1>2. BreakerCounts'
  <2> SUFFICES ASSUME NEW i \in 0 .. OpWindow PROVE timeouts_'[i] \in 0 .. NhCap
    BY DEF BreakerCounts
  <2>1. timeouts_[i] \in 0 .. NhCap
    BY DEF NhShape, BreakerCounts
  <2>2. Within(timeouts_[i] + 1, 0, NhCap) \in 0 .. NhCap
    BY <2>1, NhBounds DEF Within
  <2> QED BY <1>1, <2>1, <2>2 DEF TripInv
<1>3. BreakerHolds'
  <2>1. CASE \E n : Tripped(op, n)
    <3>1. circuit' = [circuit EXCEPT !.protect = ProtectTicks]
      BY <2>1 DEF Tripped
    <3> QED BY <3>1, NhBounds DEF BreakerHolds, NhShape, TripInv
  <2>2. CASE circuit' \in {circuit, [circuit EXCEPT !.degrade = DegradeTicks]}
    BY <2>2, NhBounds DEF BreakerHolds, NhShape, TripInv
  <2> QED BY <1>1, <2>1, <2>2
<1> QED BY <1>1, <1>2, <1>3 DEF NhShape, NhLatches

LEMMA NhTickKeeps ==
    ASSUME TripInv, NhShape, NhTick
    PROVE  NhShape'
<1>1. BreakerCounts'
  <2> SUFFICES ASSUME NEW i \in 0 .. OpWindow PROVE timeouts_'[i] \in 0 .. NhCap
    BY DEF BreakerCounts
  <2>1. timeouts_' = [j \in 0 .. OpWindow |-> IF j = 0 THEN 0 ELSE timeouts_[j - 1]]
    BY DEF NhTick, Pruned, Shifted
  <2>2. CASE i = 0
    BY <2>1, <2>2, NhBounds
  <2>3. CASE i # 0
    <3>1. i - 1 \in 0 .. OpWindow
      BY <2>3, NhBounds
    <3> QED BY <2>1, <2>3, <3>1 DEF NhShape, BreakerCounts
  <2> QED BY <2>2, <2>3
<1>2. BreakerHolds'
  <2>1. circuit' = [circuit EXCEPT !.protect = Fewer(circuit.protect), !.degrade = Fewer(circuit.degrade)]
    BY DEF NhTick
  <2>2. Fewer(circuit.protect) \in 0 .. ProtectTicks /\ Fewer(circuit.degrade) \in 0 .. DegradeTicks
    BY NhBounds, FewerFacts DEF NhShape, BreakerHolds
  <2> QED BY <2>1, <2>2 DEF BreakerHolds, TripInv
<1>3. NhLatches'
  <2>1. /\ resource' = [resource EXCEPT !.since = Within(resource.since + 1, 0, ResourceTicks)]
        /\ overall' = [overall EXCEPT !.since = Within(overall.since + 1, 0, AggregateTicks)]
    BY DEF NhTick
  <2> QED BY <2>1 DEF NhShape, NhLatches
<1> QED BY <1>1, <1>2, <1>3 DEF NhTick, NhShape

LEMMA NativeHealthTypes == NhSpec => []NhTypeOK
<1>1. NhInit => TripInv /\ NhShape
  <2> SUFFICES ASSUME NhInit PROVE TripInv /\ NhShape
    OBVIOUS
  <2>1. TripInv
    BY DEF NhInit, TripInv, NoTrigger
  <2>2. BreakerCounts /\ BreakerHolds
    BY NhBounds DEF NhInit, BreakerCounts, BreakerHolds
  <2>3. NhLatches
    BY DEF NhInit, NhLatches, NhPressures, NhConditions
  <2> QED BY <2>1, <2>2, <2>3, NhBounds DEF NhInit, NhShape
<1>2. (TripInv /\ NhShape) /\ [NhNext]_nhVars => (TripInv /\ NhShape)'
  <2> SUFFICES ASSUME TripInv, NhShape, [NhNext]_nhVars PROVE TripInv' /\ NhShape'
    OBVIOUS
  <2>1. CASE RecordOperation
    BY <2>1, RecordFacts, OperationKeeps
  <2>2. CASE NhTick
    BY <2>2, TickFacts, NhTickKeeps
  <2>3. CASE SampleResources
    BY <2>3, SampleKeeps DEF SampleResources, TripInv, NhShape, BreakerCounts, BreakerHolds
  <2>4. CASE PublishHealth
    BY <2>4, PublishKeepsHealth DEF PublishHealth, TripInv, NhShape, BreakerCounts, BreakerHolds
  <2>5. CASE UNCHANGED nhVars
    BY <2>5 DEF nhVars, TripInv, NhShape, BreakerCounts, BreakerHolds, NhLatches
  <2> QED BY <2>1, <2>2, <2>3, <2>4, <2>5 DEF NhNext
<1>3. TripInv /\ NhShape => NhTypeOK
  BY DEF NhShape, NhTypeOK, BreakerCounts, BreakerHolds, NhLatches, NhPressures, NhConditions
<1> QED BY <1>1, <1>2, <1>3, PTL DEF NhSpec

(***************************************************************************)
(* The gateway's health.                                                   *)
(***************************************************************************)
HealthPressures == {"ok", "congested", "slow", "protective"}

BreakerShape ==
    /\ timeouts \in Seq(Int) /\ Len(timeouts) <= ProtectiveTimeouts + 1
    /\ circuitLeft \in [degraded : 0 .. DegradedTicks, protective : 0 .. ProtectiveTicks]
    /\ healthTrigger \in -1 .. ProtectiveTicks
    /\ circuitLeft.protective > 0 => healthTrigger = circuitLeft.protective

RegulationShape ==
    /\ healthEvidence \subseteq Metrics /\ healthEpisode \subseteq Metrics
    /\ budget.gui >= 1 /\ budget.burst >= 1 /\ pace \in MinTick .. MaxTick

LEMMA HealthBounds ==
    /\ DegradedTicks \in Nat /\ 0 < DegradedTicks /\ ProtectiveTicks \in Nat /\ 0 < ProtectiveTicks
    /\ BaseBurst \in Nat /\ 1 <= BaseBurst /\ MinTick \in Nat /\ 1 <= MinTick
    /\ MaxTick \in Nat /\ MinTick <= MaxTick /\ ProtectiveTimeouts \in Nat /\ SloTenths \in Nat
BY HealthAssumption DEF HealthAssumption

\* Time takes nothing but old timeouts out of the window.
LEMMA PruneFacts ==
    ASSUME NEW ages \in Seq(Int)
    PROVE  Prune(ages) \in Seq(Int) /\ Len(Prune(ages)) <= Len(ages)
<1> DEFINE old == {i \in DOMAIN ages : ages[i] + 1 >= TimeoutWindow}
           gone == Cardinality(old)
           n == Len(ages)
<1>1. n \in Nat /\ DOMAIN ages = 1 .. n
  OBVIOUS
<1>2. IsFiniteSet(1 .. n) /\ Cardinality(1 .. n) = n
  <2>1. 1 \in Int /\ n \in Int
    BY <1>1
  <2>2. Cardinality(1 .. n) = IF 1 > n THEN 0 ELSE n - 1 + 1
    BY <2>1, FS_Interval
  <2>3. IsFiniteSet(1 .. n)
    BY <2>1, FS_Interval
  <2> HIDE DEF n
  <2>4. Cardinality(1 .. n) = n
    BY <1>1, <2>2
  <2> QED BY <2>3, <2>4
<1>3. gone \in Nat /\ gone <= n
  <2>1. old \subseteq 1 .. n
    BY <1>1
  <2> HIDE DEF old
  <2>2. IsFiniteSet(old) /\ Cardinality(old) <= Cardinality(1 .. n)
    BY <1>2, <2>1, FS_Subset
  <2> QED BY <1>2, <2>2, FS_CardinalityType
<1>4. Prune(ages) = [i \in 1 .. n - gone |-> ages[gone + i] + 1]
  BY DEF Prune
<1> HIDE DEF gone, old
<1>5. \A i \in 1 .. n - gone : ages[gone + i] + 1 \in Int
  BY <1>1, <1>3
<1>6. n - gone \in Nat
  BY <1>1, <1>3
<1> DEFINE kept == [i \in 1 .. n - gone |-> ages[gone + i] + 1]
<1>7. kept \in [1 .. n - gone -> Int]
  BY <1>5
<1> HIDE DEF n
<1>8. kept \in Seq(Int) /\ Len(kept) = n - gone
  <2> HIDE DEF kept
  <2>1. DOMAIN kept = 1 .. n - gone
    BY <1>7
  <2> QED BY <1>6, <1>7, <2>1
<1> QED BY <1>1, <1>3, <1>4, <1>8 DEF n

LEMMA RunDownFacts ==
    ASSUME NEW n \in Int, n >= -1
    PROVE  RunDown(n) \in Int /\ RunDown(n) <= n /\ RunDown(n) >= -1 /\ (RunDown(n) > 0 => n > 0)
           /\ (n >= 0 => RunDown(n) >= 0)
BY DEF RunDown

\* The breaker, one tick later.
LEMMA BreakerKeeps == ASSUME BreakerShape, HealthTick PROVE BreakerShape'
<1> DEFINE aged == [degraded |-> RunDown(circuitLeft.degraded), protective |-> RunDown(circuitLeft.protective)]
<1>1. PICK timedOut \in BOOLEAN :
        LET ages == IF timedOut THEN Append(Prune(timeouts), 0) ELSE Prune(timeouts)
            left == IF timedOut THEN RecordTimeout(aged, Len(ages)) ELSE aged
        IN  /\ timeouts' = IF Len(ages) > ProtectiveTimeouts + 1 THEN Tail(ages) ELSE ages
            /\ circuitLeft' = left
            /\ healthTrigger' = IF timedOut THEN RecordTrigger(left, Len(ages), RunDown(healthTrigger))
                                ELSE RunDown(healthTrigger)
  BY DEF HealthTick
<1> DEFINE ages == IF timedOut THEN Append(Prune(timeouts), 0) ELSE Prune(timeouts)
           count == Len(ages)
<1>2. ages \in Seq(Int) /\ count <= Len(timeouts) + 1
  <2>1. Prune(timeouts) \in Seq(Int) /\ Len(Prune(timeouts)) <= Len(timeouts)
    BY PruneFacts DEF BreakerShape
  <2> QED BY <2>1
<1>3. timeouts' = IF count > ProtectiveTimeouts + 1 THEN Tail(ages) ELSE ages
  BY <1>1
<1>4. timeouts' \in Seq(Int) /\ Len(timeouts') <= ProtectiveTimeouts + 1
  <2> HIDE DEF ages
  <2>1. Len(timeouts) <= ProtectiveTimeouts + 1 /\ Len(timeouts) \in Nat
    BY DEF BreakerShape
  <2>2. CASE count > ProtectiveTimeouts + 1
    <3>1. ages # << >>
      BY <2>2, HealthBounds
    <3>2. Tail(ages) \in Seq(Int) /\ Len(Tail(ages)) = count - 1
      BY <1>2, <3>1
    <3> QED BY <1>2, <1>3, <2>1, <2>2, <3>2, HealthBounds
  <2>3. CASE ~(count > ProtectiveTimeouts + 1)
    BY <1>2, <1>3, <2>3, HealthBounds
  <2> QED BY <2>2, <2>3
<1> HIDE DEF ages, count
<1> DEFINE d == RunDown(circuitLeft.degraded)
           p == RunDown(circuitLeft.protective)
           t == RunDown(healthTrigger)
<1>5. /\ d \in 0 .. DegradedTicks /\ p \in 0 .. ProtectiveTicks /\ t \in -1 .. ProtectiveTicks
      /\ p > 0 => t = p
  <2>1. circuitLeft.degraded \in 0 .. DegradedTicks /\ circuitLeft.protective \in 0 .. ProtectiveTicks
        /\ healthTrigger \in -1 .. ProtectiveTicks
    BY DEF BreakerShape
  <2> QED BY <2>1, HealthBounds DEF BreakerShape, RunDown
<1>6. /\ circuitLeft' = IF timedOut THEN RecordTimeout([degraded |-> d, protective |-> p], count)
                        ELSE [degraded |-> d, protective |-> p]
      /\ healthTrigger' = IF timedOut THEN RecordTrigger(circuitLeft', count, t) ELSE t
  BY <1>1 DEF ages, count
<1> HIDE DEF d, p, t
<1>7. \/ /\ circuitLeft' = [degraded |-> d, protective |-> Latest(p, ProtectiveTicks)]
         /\ healthTrigger' = circuitLeft'.protective
      \/ circuitLeft' = [degraded |-> Latest(d, DegradedTicks), protective |-> p] /\ healthTrigger' = t
      \/ circuitLeft' = [degraded |-> d, protective |-> p] /\ healthTrigger' = t
  BY <1>6 DEF RecordTimeout, RecordTrigger
<1>8. Latest(p, ProtectiveTicks) = ProtectiveTicks /\ Latest(d, DegradedTicks) = DegradedTicks
  BY <1>5, HealthBounds DEF Latest
<1>9. /\ circuitLeft' \in [degraded : 0 .. DegradedTicks, protective : 0 .. ProtectiveTicks]
      /\ healthTrigger' \in -1 .. ProtectiveTicks
      /\ circuitLeft'.protective > 0 => healthTrigger' = circuitLeft'.protective
  BY <1>5, <1>7, <1>8, HealthBounds
<1> QED BY <1>4, <1>9 DEF BreakerShape

LEMMA LatestFacts ==
    ASSUME NEW a \in Int, NEW b \in Int
    PROVE  Latest(a, b) \in Int /\ Latest(a, b) >= a /\ Latest(a, b) >= b /\ Latest(a, b) \in {a, b}
BY DEF Latest

\* Every budget leaves room for one.
LEMMA BudgetFacts ==
    ASSUME NEW queue, NEW gap \in BOOLEAN, NEW pressure \in HealthPressures
    PROVE  LET burst == RegulatedBurst(queue, gap, pressure)
           IN  burst \in Int /\ burst >= 1 /\ QueueBudgets(burst, pressure).gui >= 1
               /\ QueueBudgets(burst, pressure).burst >= 1
<1> DEFINE raised == IF queue > 0 THEN Least(Latest(3 * BaseBurst, BaseBurst + 4), 50) ELSE BaseBurst
           half == Latest(1, BaseBurst \div 2)
           quarter == Latest(1, BaseBurst \div 4)
           own == IF gap THEN Least(raised, half) ELSE raised
           burst == PressureBurst(own, pressure)
           gui == CASE pressure = "ok" -> Latest(BaseBurst, burst)
                    [] pressure = "congested" -> half
                    [] pressure = "slow" -> quarter
                    [] pressure = "protective" -> 1
<1>1. half \in Int /\ half >= 1 /\ quarter \in Int /\ quarter >= 1
  <2>1. BaseBurst \div 2 \in Int /\ BaseBurst \div 4 \in Int
    BY HealthBounds
  <2> QED BY <2>1 DEF Latest
<1>2. raised \in Int /\ raised >= 1
  BY HealthBounds DEF Least, Latest
<1> HIDE DEF half, quarter, raised
<1>3. own \in Int /\ own >= 1
  BY <1>1, <1>2 DEF Least
<1> HIDE DEF own
<1>4. burst = Latest(1, CASE pressure = "protective" -> 1
                          [] pressure = "slow"       -> Least(own, quarter)
                          [] pressure = "congested"  -> Least(own, half)
                          [] pressure = "ok"         -> own)
  BY DEF PressureBurst, half, quarter
<1>5. burst \in Int /\ burst >= 1
  <2> HIDE DEF burst
  <2> QED BY <1>1, <1>3, <1>4 DEF Latest, Least, HealthPressures
<1>6. burst = RegulatedBurst(queue, gap, pressure)
  BY DEF RegulatedBurst, raised, half, own
<1>7. QueueBudgets(burst, pressure) = [gui |-> gui, advisory |-> IF pressure = "ok" THEN 1 ELSE 0,
                                       burst |-> IF pressure = "ok" THEN burst ELSE Least(burst, gui)]
  BY DEF QueueBudgets, half, quarter
<1> HIDE DEF burst
<1>8. gui \in Int /\ gui >= 1
  BY <1>1, <1>5, HealthBounds DEF Latest, HealthPressures
<1> HIDE DEF gui
<1>9. QueueBudgets(burst, pressure).gui >= 1 /\ QueueBudgets(burst, pressure).burst >= 1
  BY <1>5, <1>7, <1>8 DEF Least
<1> QED BY <1>5, <1>6, <1>9

LEMMA ClampFacts ==
    ASSUME NEW v \in Int, NEW lo \in Int, NEW hi \in Int, lo <= hi
    PROVE  Clamp(v, lo, hi) \in lo .. hi
BY DEF Clamp, Least, Latest

LEMMA PaceFacts ==
    ASSUME NEW breaker, NEW res, NEW demand \in Demands
    PROVE  AdaptiveTick(breaker, res, demand) \in MinTick .. MaxTick
<1> DEFINE count == demand.reads + demand.queue
           floor == ServiceFloor(res, demand)
           left == (Deadline(demand) * 8) \div 10 - demand.p95 * count
           spare == Latest(0, left)
           base == StateBaseline(breaker, res)
           share == spare \div count
           room == Clamp(share, floor, MaxTick)
<1>1. demand.reads \in Nat /\ demand.queue \in Nat /\ demand.age \in Nat /\ demand.p95 \in Nat
  BY HealthAssumption DEF HealthAssumption
<1>2. floor \in MinTick .. MaxTick
  BY <1>1, HealthBounds DEF ServiceFloor, Clamp, Least, Latest
<1>3. base \in MinTick .. MaxTick
  <2>1. (MinTick * 5) \div 2 \in Int /\ (MinTick * 3) \div 2 \in Int
    BY HealthBounds
  <2> QED BY <2>1, HealthBounds DEF StateBaseline, Clamp, Least, Latest
<1>4. count \in Nat
  BY <1>1
<1>5. spare \in Int
  <2>1. Deadline(demand) \in Int
    BY <1>1, HealthBounds DEF Deadline, Latest
  <2>2. (Deadline(demand) * 8) \div 10 \in Int
    BY <2>1
  <2>3. demand.p95 * count \in Int
    BY <1>1, <1>4
  <2>4. left \in Int
    BY <2>2, <2>3
  <2> HIDE DEF left
  <2> QED BY <2>4 DEF Latest
<1> HIDE DEF floor, base, left, spare
<1>6. count # 0 => share \in Int
  <2> HIDE DEF count
  <2> QED BY <1>4, <1>5
<1> HIDE DEF share
<1>7. count # 0 => room \in floor .. MaxTick
  <2>1. floor \in Int /\ MaxTick \in Int /\ floor <= MaxTick
    BY <1>2, HealthBounds
  <2> QED BY <1>6, <2>1 DEF Clamp, Least, Latest
<1> HIDE DEF room
<1>8. AdaptiveTick(breaker, res, demand) =
        IF breaker = "protective" THEN MaxTick
        ELSE IF count = 0 THEN base ELSE Least(Latest(base, floor), room)
  BY DEF AdaptiveTick, floor, base, left, spare, share, room
<1> HIDE DEF count
<1>9. count # 0 => Least(Latest(base, floor), room) \in MinTick .. MaxTick
  BY <1>2, <1>3, <1>7, HealthBounds DEF Least, Latest
<1> QED BY <1>3, <1>8, <1>9, HealthBounds

LEMMA RegulationKeeps ==
    ASSUME HealthInv, RegulationShape, NEW left, NEW r, NEW violated, NEW queue, NEW demand \in Demands,
           Snapshot(left, r, violated, queue, demand)
    PROVE  RegulationShape'
<1> DEFINE breaker == CircuitState(left)
           res == ObserveResource(resourceLatch, r)
           causes == CaptureEvidence(resourceLatch.state, res.state, r)
           back == Backpressure(breaker, violated, queue)
           pressure == RuntimePressure(res.state, back)
           gap == "mainloop_gap_ok" \in violated
           burst == RegulatedBurst(queue, gap, pressure)
           felt == IF res.state = "ok" /\ gap THEN "busy" ELSE res.state
<1>1. /\ healthEvidence' = causes
      /\ healthEpisode' = IF res.state # "constrained" THEN {}
                          ELSE (IF resourceLatch.state = "constrained" THEN healthEpisode ELSE {}) \cup Causes(r)
      /\ budget' = QueueBudgets(burst, pressure)
      /\ pace' = AdaptiveTick(breaker, felt, demand)
  BY DEF Snapshot
<1>2. Causes(r) \subseteq Metrics
  BY DEF Causes
<1>3. healthEvidence' \subseteq Metrics
  BY <1>1, <1>2 DEF CaptureEvidence, RegulationShape
<1>4. healthEpisode' \subseteq Metrics
  BY <1>1, <1>2 DEF RegulationShape
<1>5. back \in HealthPressures
  BY DEF Backpressure, HealthPressures
<1>6. pressure \in HealthPressures
  BY <1>5 DEF RuntimePressure, HealthPressures
<1>7. gap \in BOOLEAN
  OBVIOUS
<1> HIDE DEF pressure, gap, breaker, felt
<1>8. budget'.gui >= 1 /\ budget'.burst >= 1
  BY <1>1, <1>6, <1>7, BudgetFacts
<1>9. pace' \in MinTick .. MaxTick
  BY <1>1, PaceFacts
<1> QED BY <1>3, <1>4, <1>8, <1>9 DEF RegulationShape

THEOREM HealthTypes == HealthSpec => [](HealthTypeOK /\ HealthFollows)
<1>1. HealthInit => HealthInv /\ BreakerShape /\ RegulationShape
  <2> SUFFICES ASSUME HealthInit PROVE BreakerShape /\ RegulationShape
    BY HealthStarts
  <2>1. BreakerShape
    BY HealthBounds DEF HealthInit, BreakerShape
  <2>2. budget.gui >= 1 /\ budget.burst >= 1
    BY HealthBounds DEF HealthInit, QueueBudgets, Latest
  <2> QED BY <2>1, <2>2, HealthBounds DEF HealthInit, RegulationShape
<1>2. (HealthInv /\ BreakerShape /\ RegulationShape) /\ [HealthNext]_healthVars
        => (HealthInv /\ BreakerShape /\ RegulationShape)'
  <2> SUFFICES ASSUME HealthInv, BreakerShape, RegulationShape, [HealthNext]_healthVars
               PROVE  (HealthInv /\ BreakerShape /\ RegulationShape)'
    OBVIOUS
  <2>1. HealthInv'
    BY HealthStep
  <2>2. CASE HealthTick
    <3>1. BreakerShape'
      BY <2>2, BreakerKeeps
    <3>2. \/ UNCHANGED <<resourceLatch, healthEvidence, healthEpisode, health, calm, budget, pace>>
          \/ \E left, r, violated, queue : \E demand \in Demands :
                Snapshot(left, r, violated, queue, demand)
      BY <2>2 DEF HealthTick
    <3>3. RegulationShape'
      BY <3>2, RegulationKeeps DEF RegulationShape
    <3> QED BY <2>1, <3>1, <3>3
  <2>3. CASE UNCHANGED healthVars
    BY <2>1, <2>3 DEF healthVars, BreakerShape, RegulationShape
  <2> QED BY <2>2, <2>3 DEF HealthNext
<1>3. HealthInv /\ BreakerShape /\ RegulationShape => HealthTypeOK /\ HealthFollows
  BY DEF HealthInv, BreakerShape, RegulationShape, HealthTypeOK
<1> QED BY <1>1, <1>2, <1>3, PTL DEF HealthSpec

(***************************************************************************)
(* The updater.                                                            *)
(***************************************************************************)
IsTree(tree) ==
    /\ tree \in [items : {tree.items}, config : {tree.config}]
    /\ DOMAIN tree.items = AllItems /\ DOMAIN tree.config = ConfigKeys

RunTyped(x) ==
    x.name \in Names \cup {NoName} /\ x.bundle \in Bundles \cup {0} /\ IsTree(x.tree)

RunsTyped == \A r \in Runs : RunTyped(run[r])

DiskTyped ==
    /\ IsTree(target) /\ \A n \in Names : IsTree(releases[n])
    /\ current \in Names \cup {NoName} /\ previous \in Names \cup {NoName}
    /\ installed \in Bundles \cup {NoBundle}

LEMMA TreeFacts ==
    ASSUME NEW items, NEW config, DOMAIN items = AllItems, DOMAIN config = ConfigKeys
    PROVE  IsTree([items |-> items, config |-> config])
<1> DEFINE tree == [items |-> items, config |-> config]
<1>1. /\ tree \in [items : {items}, config : {config}]
      /\ tree.items = items /\ tree.config = config
  OBVIOUS
<1> QED BY <1>1 DEF IsTree

LEMMA NoTreeIs == IsTree(NoTree)
<1> DEFINE items == [i \in AllItems |-> NoBundle]
<1>1. DOMAIN items = AllItems /\ DOMAIN NoConfig = ConfigKeys
  BY DEF NoConfig
<1>2. NoTree = [items |-> items, config |-> NoConfig]
  BY DEF NoTree
<1> HIDE DEF items
<1> QED BY <1>1, <1>2, TreeFacts

\* One run's record is replaced.
LEMMA OneRunTyped ==
    ASSUME BootInv, RunsTyped, NEW r \in Runs, NEW x, run' = [run EXCEPT ![r] = x], RunTyped(x)
    PROVE  RunsTyped'
<1>1. run'[r] = x /\ \A q \in Runs \ {r} : run'[q] = run[q]
  BY DEF BootInv, BootShape
<1> QED BY <1>1 DEF RunsTyped, RunTyped, Names, AllItems

LEMMA GoToTyped ==
    ASSUME BootInv, RunsTyped, NEW r \in Runs, NEW p, GoTo(r, p)
    PROVE  RunsTyped'
<1> DEFINE x == [run[r] EXCEPT !.pc = p]
<1>1. run' = [run EXCEPT ![r] = x]
  BY DEF GoTo
<1>2. x.name = run[r].name /\ x.bundle = run[r].bundle /\ x.tree = run[r].tree
  BY DEF BootInv, RunOk, ShapeOf
<1> HIDE DEF x
<1>3. RunTyped(x)
  BY <1>2 DEF RunsTyped, RunTyped
<1> QED BY <1>1, <1>3, OneRunTyped

LEMMA EndTyped ==
    ASSUME BootInv, RunsTyped, NEW r \in Runs, NEW p, run' = [run EXCEPT ![r] = [NewRun EXCEPT !.pc = p]]
    PROVE  RunsTyped'
<1> DEFINE x == [NewRun EXCEPT !.pc = p]
<1>1. x.name = NoName /\ x.bundle = 0 /\ x.tree = NoTree
  BY DEF NewRun, NoBundle
<1>2. run' = [run EXCEPT ![r] = x]
  OBVIOUS
<1> HIDE DEF x
<1>3. RunTyped(x)
  BY <1>1, NoTreeIs DEF RunTyped
<1> QED BY <1>2, <1>3, OneRunTyped

LEMMA PreservedFacts ==
    ASSUME DiskTyped
    PROVE  DOMAIN PreservedConfig = ConfigKeys /\ \A c \in StagedConfigs : DOMAIN c = ConfigKeys
<1>1. DOMAIN CurrentCodebaseDir.config = ConfigKeys /\ DOMAIN target.config = ConfigKeys
  BY DEF DiskTyped, CurrentCodebaseDir, IsTree
<1>2. DOMAIN PreservedConfig = ConfigKeys
  BY <1>1 DEF PreservedConfig
<1>3. DOMAIN Template = ConfigKeys /\ DOMAIN MergedConfig(PreservedConfig) = ConfigKeys
  BY DEF Template, MergedConfig
<1> QED BY <1>2, <1>3 DEF StagedConfigs

LEMMA RunsStayTyped ==
    ASSUME BootInv, RunsTyped, DiskTyped, NEW r \in Runs, RunStep(r)
    PROVE  RunsTyped'
<1>1. CASE StartUpdate(r)
  <2>1. PICK kind \in {"manifest", "direct"}, b \in Bundles, dry \in BOOLEAN :
          run' = [run EXCEPT ![r] = [NewRun EXCEPT !.pc = "lock", !.kind = kind, !.dry = dry, !.bundle = b]]
    BY <1>1 DEF StartUpdate
  <2> DEFINE x == [NewRun EXCEPT !.pc = "lock", !.kind = kind, !.dry = dry, !.bundle = b]
  <2>2. x.name = NoName /\ x.bundle = b /\ x.tree = NoTree
    BY DEF NewRun
  <2>3. run' = [run EXCEPT ![r] = x]
    BY <2>1
  <2> HIDE DEF x
  <2>4. RunTyped(x)
    BY <2>2, NoTreeIs DEF RunTyped
  <2> QED BY <2>3, <2>4, OneRunTyped
<1>2. CASE SourceReady(r)
  <2> DEFINE n == IF run[r].name = NoName /\ run[r].kind = "manifest" /\ ~run[r].dry
                  THEN ReleaseName(r) ELSE NoName
             x == [run[r] EXCEPT !.pc = "stage", !.name = n]
  <2>1. RunOk(r, run[r], releases) /\ run[r].pc = "fetch" /\ DOMAIN run = Runs
    BY <1>2 DEF BootInv, BootShape, SourceReady, At
  <2>2. run' = [run EXCEPT ![r] = x]
    <3>1. run' = [run EXCEPT ![r].pc = "stage",
                             ![r].name = IF @ = NoName /\ run[r].kind = "manifest" /\ ~run[r].dry
                                         THEN ReleaseName(r) ELSE NoName]
      BY <1>2 DEF SourceReady
    <3> QED BY <2>1, <3>1
  <2>3. x.name = n /\ x.bundle = run[r].bundle /\ x.tree = run[r].tree
    BY <2>1 DEF RunOk, ShapeOf
  <2>4. run[r].bundle \in Bundles
    BY <2>1 DEF RunOk, Early
  <2>5. NameOk(r, ReleaseName(r))
    BY <2>4 DEF NameOk, ReleaseName
  <2>6. n \in Names \cup {NoName}
    BY <2>5, BootConstants
  <2> HIDE DEF x, n
  <2>7. RunTyped(x)
    BY <2>3, <2>6 DEF RunTyped, RunsTyped
  <2> QED BY <2>2, <2>7, OneRunTyped
<1>3. CASE WriteManagedLayout(r)
  <2>1. RunOk(r, run[r], releases) /\ DOMAIN run = Runs
    BY DEF BootInv, BootShape
  <2>2. PICK config \in StagedConfigs, skipped \in {{}} \cup {{i} : i \in AllItems} :
          run' = [run EXCEPT
                    ![r].pc = "promote",
                    ![r].tree = [items  |-> [i \in AllItems |->
                                              IF i \in skipped THEN NoBundle ELSE run[r].bundle],
                                 config |-> IF "deploy" \in skipped THEN PreservedConfig ELSE config]]
    BY <1>3 DEF WriteManagedLayout
  <2> DEFINE items == [i \in AllItems |-> IF i \in skipped THEN NoBundle ELSE run[r].bundle]
             kept == IF "deploy" \in skipped THEN PreservedConfig ELSE config
             tree == [items |-> items, config |-> kept]
             x == [run[r] EXCEPT !.pc = "promote", !.tree = tree]
  <2>3. run' = [run EXCEPT ![r] = x]
    BY <2>1, <2>2
  <2>4. x.name = run[r].name /\ x.bundle = run[r].bundle /\ x.tree = tree
    BY <2>1 DEF RunOk, ShapeOf
  <2>5. DOMAIN items = AllItems /\ DOMAIN kept = ConfigKeys
    BY PreservedFacts
  <2> HIDE DEF items, kept
  <2>6. IsTree(tree)
    BY <2>5, TreeFacts
  <2> HIDE DEF tree, x
  <2>7. RunTyped(x)
    BY <2>4, <2>6 DEF RunTyped, RunsTyped
  <2> QED BY <2>3, <2>7, OneRunTyped
<1>4. CASE \/ GiveUp(r) \/ SourceRefused(r) \/ AlreadyCurrent(r) \/ LayoutRefused(r)
           \/ PreviewDone(r) \/ WriteReceipt(r)
  <2>1. run' = [run EXCEPT ![r] = [NewRun EXCEPT !.pc = "ended"]]
    BY <1>4 DEF GiveUp, SourceRefused, AlreadyCurrent, LayoutRefused, PreviewDone, WriteReceipt, FinalizeRun
  <2> QED BY <2>1, EndTyped
<1>5. CASE Kill(r)
  BY <1>5, EndTyped DEF Kill
<1>6. CASE \/ MakeLock(r) \/ WritePid(r) \/ InspectLock(r) \/ RemoveStaleLock(r) \/ RetakeLock(r)
           \/ ClearRelease(r) \/ MoveRelease(r) \/ RememberPrevious(r) \/ UnlinkCurrent(r)
           \/ LinkCurrent(r) \/ TargetCopied(r) \/ VerifyDeployment(r) \/ RecordInstallState(r)
  <2>1. \/ \E p \in {"inspect", "own", "fetch", "steal", "retake", "move", "remember", "unlink",
                     "link", "verify", "record", "receipt"} : GoTo(r, p)
        \/ run' = [run EXCEPT ![r] = [NewRun EXCEPT !.pc = "ended"]]
    <3>1. CASE MakeLock(r) \/ WritePid(r) \/ InspectLock(r) \/ RemoveStaleLock(r)
      BY <3>1 DEF MakeLock, WritePid, InspectLock, RemoveStaleLock, FinalizeRun
    <3>2. CASE RetakeLock(r)
      BY <3>2 DEF RetakeLock, FinalizeRun
    <3>3. CASE ClearRelease(r) \/ MoveRelease(r) \/ RememberPrevious(r) \/ UnlinkCurrent(r)
      BY <3>3 DEF ClearRelease, MoveRelease, RememberPrevious, UnlinkCurrent
    <3>4. CASE LinkCurrent(r) \/ TargetCopied(r)
      BY <3>4 DEF LinkCurrent, TargetCopied
    <3>5. CASE VerifyDeployment(r) \/ RecordInstallState(r)
      BY <3>5 DEF VerifyDeployment, RecordInstallState, FinalizeRun
    <3> QED BY <1>6, <3>1, <3>2, <3>3, <3>4, <3>5
  <2> QED BY <2>1, GoToTyped, EndTyped
<1>7. CASE RemoveItem(r) \/ CopyItem(r)
  <2>1. run' = run
    BY <1>7 DEF RemoveItem, CopyItem
  <2> QED BY <2>1 DEF RunsTyped
<1> QED BY <1>1, <1>2, <1>3, <1>4, <1>5, <1>6, <1>7 DEF RunStep

LEMMA DiskStaysTyped ==
    ASSUME BootInv, RunsTyped, DiskTyped, NEW r \in Runs, RunStep(r)
    PROVE  DiskTyped'
<1>1. RunOk(r, run[r], releases) /\ RunTyped(run[r]) /\ DOMAIN releases = Names
  BY DEF BootInv, BootShape, RunsTyped
<1>2. CASE \/ StartUpdate(r) \/ MakeLock(r) \/ WritePid(r) \/ InspectLock(r) \/ RemoveStaleLock(r)
           \/ RetakeLock(r) \/ GiveUp(r) \/ SourceRefused(r) \/ SourceReady(r)
           \/ WriteManagedLayout(r) \/ LayoutRefused(r) \/ PreviewDone(r) \/ VerifyDeployment(r)
           \/ Kill(r)
  <2>1. UNCHANGED disk
    BY <1>2 DEF StartUpdate, MakeLock, WritePid, InspectLock, RemoveStaleLock, RetakeLock, GiveUp,
                SourceRefused, SourceReady, WriteManagedLayout, LayoutRefused, PreviewDone,
                VerifyDeployment, Kill
  <2> QED BY <2>1 DEF disk, DiskTyped
<1>3. CASE AlreadyCurrent(r) \/ WriteReceipt(r)
  <2>1. UNCHANGED <<target, releases, current, previous, installed>>
    BY <1>3 DEF AlreadyCurrent, WriteReceipt
  <2> QED BY <2>1 DEF DiskTyped
<1>4. ASSUME NEW t, IsTree(t), releases' = [releases EXCEPT ![run[r].name] = t],
             UNCHANGED <<target, current, previous, installed>>
      PROVE  DiskTyped'
  <2>1. \A n \in Names : releases'[n] = t \/ releases'[n] = releases[n]
    BY <1>1, <1>4
  <2>2. \A n \in Names : IsTree(releases'[n])
    BY <1>4, <2>1 DEF DiskTyped
  <2> QED BY <1>4, <2>2 DEF DiskTyped
<1>5. CASE ClearRelease(r)
  BY <1>4, <1>5, NoTreeIs DEF ClearRelease
<1>6. CASE MoveRelease(r)
  BY <1>1, <1>4, <1>6 DEF MoveRelease, RunTyped
<1>7. CASE RememberPrevious(r)
  BY <1>7 DEF RememberPrevious, DiskTyped
<1>8. CASE UnlinkCurrent(r)
  BY <1>8 DEF UnlinkCurrent, DiskTyped
<1>9. CASE LinkCurrent(r)
  BY <1>1, <1>9 DEF LinkCurrent, DiskTyped, RunTyped
<1>10. ASSUME IsTree(target)', UNCHANGED <<releases, current, previous, installed>>
       PROVE  DiskTyped'
  BY <1>10 DEF DiskTyped
<1>11. DOMAIN target.items = AllItems /\ DOMAIN target.config = ConfigKeys /\ DOMAIN NoConfig = ConfigKeys
       /\ DOMAIN run[r].tree.config = ConfigKeys
  BY <1>1 DEF DiskTyped, IsTree, RunTyped, NoConfig
<1>12. CASE RemoveItem(r) \/ CopyItem(r)
  <2>1. \E i \in AllItems : \E config \in {NoConfig, target.config, run[r].tree.config} : \E b :
           target' = [items |-> [target.items EXCEPT ![i] = b], config |-> config]
    <3>1. CASE RemoveItem(r)
      BY <3>1 DEF RemoveItem, NextItem
    <3>2. CASE CopyItem(r)
      BY <3>2 DEF CopyItem, NextItem
    <3> QED BY <1>12, <3>1, <3>2
  <2> PICK i \in AllItems : \E config \in {NoConfig, target.config, run[r].tree.config} : \E b :
           target' = [items |-> [target.items EXCEPT ![i] = b], config |-> config]
    BY <2>1
  <2> PICK config \in {NoConfig, target.config, run[r].tree.config} : \E b :
           target' = [items |-> [target.items EXCEPT ![i] = b], config |-> config]
    OBVIOUS
  <2> PICK b : target' = [items |-> [target.items EXCEPT ![i] = b], config |-> config]
    OBVIOUS
  <2>2. DOMAIN [target.items EXCEPT ![i] = b] = AllItems /\ DOMAIN config = ConfigKeys
    BY <1>11
  <2>3. IsTree(target')
    BY <2>2, TreeFacts
  <2>4. UNCHANGED <<releases, current, previous, installed>>
    BY <1>12 DEF RemoveItem, CopyItem
  <2> QED BY <1>10, <2>3, <2>4
<1>13. CASE TargetCopied(r)
  <2> DEFINE config == IF run[r].tree.items["deploy"] # NoBundle THEN run[r].tree.config ELSE target.config
  <2>1. target' = [target EXCEPT !.config = config]
    BY <1>13 DEF TargetCopied
  <2>2. DOMAIN config = ConfigKeys
    BY <1>11
  <2> HIDE DEF config
  <2>3. target' = [items |-> target.items, config |-> config]
    BY <2>1 DEF DiskTyped, IsTree
  <2>4. IsTree(target')
    BY <1>11, <2>2, <2>3, TreeFacts
  <2>5. UNCHANGED <<releases, current, previous, installed>>
    BY <1>13 DEF TargetCopied
  <2> QED BY <1>10, <2>4, <2>5
<1>14. CASE RecordInstallState(r)
  <2>1. installed' = run[r].bundle \/ installed' = installed
    BY <1>14 DEF RecordInstallState
  <2>2. UNCHANGED <<target, releases, current, previous>>
    BY <1>14 DEF RecordInstallState
  <2> QED BY <1>1, <2>1, <2>2 DEF DiskTyped, RunTyped, NoBundle
<1> QED BY <1>2, <1>3, <1>5, <1>6, <1>7, <1>8, <1>9, <1>12, <1>13, <1>14 DEF RunStep

LEMMA BootStartsTyped == BootInit => RunsTyped /\ DiskTyped
<1> SUFFICES ASSUME BootInit PROVE RunsTyped /\ DiskTyped
  OBVIOUS
<1>1. PICK b \in Bundles, k \in ConfigKeys :
        LET tree == [items  |-> [i \in AllItems |-> b],
                     config |-> [NoConfig EXCEPT ![k] = "local"]]
        IN \/ /\ target \in {NoTree, tree}
              /\ releases = [n \in Names |-> NoTree]
              /\ current = NoName /\ installed = NoBundle /\ receipt = target.items
           \/ /\ target = NoTree
              /\ releases = [[n \in Names |-> NoTree] EXCEPT ![<<b, 0>>] = tree]
              /\ current = <<b, 0>> /\ installed = b /\ receipt = tree.items
  BY DEF BootInit
<1> DEFINE items == [i \in AllItems |-> b]
           config == [NoConfig EXCEPT ![k] = "local"]
           tree == [items  |-> items, config |-> config]
<1>2. DOMAIN items = AllItems /\ DOMAIN config = ConfigKeys
  BY DEF NoConfig
<1>3. \/ target \in {NoTree, tree} /\ releases = [n \in Names |-> NoTree] /\ current = NoName /\ installed = NoBundle
      \/ /\ target = NoTree /\ releases = [[n \in Names |-> NoTree] EXCEPT ![<<b, 0>>] = tree]
         /\ current = <<b, 0>> /\ installed = b
  BY <1>1
<1> HIDE DEF items, config
<1>4. IsTree(tree)
  BY <1>2, TreeFacts
<1> HIDE DEF tree
<1>5. <<b, 0>> \in Names
  BY BootConstants DEF Names
<1>6. IsTree(target) /\ \A n \in Names : releases[n] = NoTree \/ releases[n] = tree
  BY <1>3, <1>4, <1>5, NoTreeIs
<1>7. previous = NoName /\ run = [r \in Runs |-> NewRun]
  BY DEF BootInit
<1>8. DiskTyped
  BY <1>3, <1>4, <1>5, <1>6, <1>7, NoTreeIs DEF DiskTyped
<1>9. RunTyped(NewRun)
  BY NoTreeIs DEF RunTyped, NewRun, NoBundle
<1> QED BY <1>7, <1>8, <1>9 DEF RunsTyped

\* Whatever an updater is killed at, the names, bundles, lock and trees on the device
\* are of the kinds the script knows (bootstrap_updater.d).
LEMMA UpdaterTypes == BootSpec => []BootTypeOK
<1>1. BootInv /\ RunsTyped /\ DiskTyped /\ [BootNext]_bootVars => BootInv' /\ RunsTyped' /\ DiskTyped'
  <2> SUFFICES ASSUME BootInv, RunsTyped, DiskTyped, [BootNext]_bootVars
               PROVE  BootInv' /\ RunsTyped' /\ DiskTyped'
    OBVIOUS
  <2>1. CASE UNCHANGED bootVars
    BY <2>1 DEF bootVars, BootInv, BootShape, RunOk, OwnOk, LinkOk, Alone, RunsTyped, DiskTyped
  <2>2. ASSUME NEW r \in Runs, RunStep(r)
        PROVE  BootInv'
    BY <2>2, LockKeeps, WorkKeeps, SourceKeeps, LayoutKeeps, PromotionKeeps DEF RunStep
  <2>3. ASSUME NEW r \in Runs, RunStep(r)
        PROVE  RunsTyped' /\ DiskTyped'
    BY <2>3, RunsStayTyped, DiskStaysTyped
  <2> QED BY <2>1, <2>2, <2>3 DEF BootNext
<1>2. BootInv /\ RunsTyped /\ DiskTyped => BootTypeOK
  BY DEF BootInv, BootShape, RunsTyped, RunTyped, DiskTyped, IsTree, BootTypeOK
<1> QED BY BootStarts, BootStartsTyped, <1>1, <1>2, PTL DEF BootSpec

\* A set of numbers has a least one.
LEMMA SmallestIsThere ==
    ASSUME NEW S \in SUBSET Nat, S # {}
    PROVE  \E x \in S : \A y \in S : x <= y
<1>1. PICK x \in S : \A y \in S : ~(<<y, x>> \in OpToRel(<, Nat))
  BY NatLessThanWellFounded, WFMin
<1>2. \A y \in S : ~(y < x)
  BY <1>1 DEF OpToRel
<1> QED BY <1>2

(***************************************************************************)
(* The observer.                                                           *)
(***************************************************************************)
ObsRanges ==
    /\ lease \in {"free", "shared", "exclusive"}
    /\ episode.store \in Storages \cup {0} /\ episode.id <= lastId /\ lastId <= MaxBundles
    /\ episode.healthySince >= -1 /\ episode.healthySince <= MaxTime
    /\ observer.run <= MaxRestarts /\ observer.check >= -1 /\ observer.check <= MaxTime
    /\ now <= MaxTime /\ (observer.pc = "prune" => now < MaxTime)
    /\ \A s \in Storages : \A b \in bundles[s] : b.id <= lastId

ObserverNumbers == MaxAge \in Nat /\ MaxBundles \in Nat /\ MaxTime \in Nat /\ MaxRestarts \in Nat

LEMMA ObsConstants == ObserverNumbers /\ Storages \subseteq Nat \ {0}
BY ObserverAssumption DEF ObserverAssumption, ObserverNumbers

LEMMA FirstIsMounted ==
    ASSUME NEW writable \in (SUBSET Storages) \ {{}}
    PROVE  FirstWritable(writable) \in writable
<1>1. PICK x \in writable : \A y \in writable : x <= y
  BY ObsConstants, SmallestIsThere
<1> QED BY <1>1 DEF FirstWritable, Min

\* No bundle gets a number that was not given out.
LEMMA ObsIdsKept ==
    ASSUME ObserverInv, ObsRanges, [ObsNext]_obsVars
    PROVE  /\ lastId <= lastId' /\ lastId' <= MaxBundles
           /\ \A s \in Storages : \A b \in bundles'[s] : b.id <= lastId'
<1>1. /\ bundles \in [Storages -> SUBSET IncidentBundles] /\ lastId \in Nat /\ mounted \subseteq Storages
      /\ MaxBundles \in Nat /\ lastId <= MaxBundles
      /\ \A s \in Storages : \A b \in bundles[s] : b.id <= lastId
  BY ObsConstants DEF ObserverInv, ObserverShape, ObsRanges, ObserverNumbers
<1>2. ASSUME UNCHANGED lastId,
             \A s \in Storages : \A c \in bundles'[s] : \E b \in bundles[s] : c.id = b.id
      PROVE  /\ lastId <= lastId' /\ lastId' <= MaxBundles
             /\ \A s \in Storages : \A b \in bundles'[s] : b.id <= lastId'
  BY <1>1, <1>2
<1>3. CASE UNCHANGED <<bundles, lastId>>
  BY <1>2, <1>3
<1>4. ASSUME UNCHANGED lastId, NEW t \in Storages, NEW rest \in SUBSET bundles[t],
             NEW some \in SUBSET IncidentBundles, bundles' = [bundles EXCEPT ![t] = rest \cup some],
             \A c \in some : \E b \in bundles[t] : c.id = b.id
      PROVE  /\ lastId <= lastId' /\ lastId' <= MaxBundles
             /\ \A s \in Storages : \A b \in bundles'[s] : b.id <= lastId'
  <2>1. ASSUME NEW s \in Storages, NEW c \in bundles'[s]
        PROVE  \E b \in bundles[s] : c.id = b.id
    BY <1>1, <1>4, <2>1
  <2> QED BY <1>2, <1>4, <2>1
<1>5. CASE WriteIncident
  <2> DEFINE new == [id |-> lastId + 1, files |-> {"snapshot", "config"},
                     recovered |-> NoTime, by |-> observer.run]
  <2>1. \/ UNCHANGED <<bundles, lastId>>
        \/ /\ \E store : bundles' = [bundles EXCEPT ![store] = @ \cup {new}]
           /\ lastId' = lastId + 1 /\ lastId < MaxBundles
    BY <1>5 DEF WriteIncident
  <2>2. ASSUME NEW store, bundles' = [bundles EXCEPT ![store] = @ \cup {new}],
               lastId' = lastId + 1, lastId < MaxBundles
        PROVE  /\ lastId <= lastId' /\ lastId' <= MaxBundles
               /\ \A s \in Storages : \A b \in bundles'[s] : b.id <= lastId'
    <3>1. new.id = lastId + 1
      OBVIOUS
    <3> HIDE DEF new
    <3>2. \A s \in Storages : \A b \in bundles'[s] : b \in bundles[s] \/ b = new
      BY <1>1, <2>2
    <3>3. \A s \in Storages : \A b \in bundles[s] : b.id \in Nat /\ b.id <= lastId
      BY <1>1 DEF IncidentBundles
    <3> QED BY <1>1, <2>2, <3>1, <3>2, <3>3
  <2> QED BY <1>3, <2>1, <2>2
<1>6. CASE Healthy
  <2>1. UNCHANGED <<bundles, lastId>> \/ (RecoveryWritten /\ UNCHANGED lastId)
    BY <1>6 DEF Healthy
  <2>2. CASE RecoveryWritten /\ UNCHANGED lastId
    <3> DEFINE Closed(b) == IF b.id = episode.id /\ "recovery" \notin b.files
                            THEN [b EXCEPT !.files = @ \cup {"recovery"}, !.recovered = now] ELSE b
    <3>1. /\ bundles' = [bundles EXCEPT ![episode.store] = {Closed(b) : b \in bundles[episode.store]}]
          /\ episode.store \in Storages
      BY <1>1, <2>2 DEF RecoveryWritten
    <3>2. \A b \in IncidentBundles : Closed(b).id = b.id
      BY DEF IncidentBundles
    <3> HIDE DEF Closed
    <3>3. ASSUME NEW s \in Storages, NEW c \in bundles'[s]
          PROVE  \E b \in bundles[s] : c.id = b.id
      <4>1. CASE s = episode.store
        <5>1. PICK b \in bundles[s] : c = Closed(b)
          BY <1>1, <3>1, <3>3, <4>1
        <5> QED BY <1>1, <3>2, <5>1
      <4>2. CASE s # episode.store
        BY <1>1, <3>1, <3>3, <4>2
      <4> QED BY <4>1, <4>2
    <3> QED BY <1>2, <2>2, <3>3
  <2> QED BY <1>3, <2>1, <2>2
<1>7. CASE RetentionPass
  <2>1. /\ UNCHANGED lastId
        /\ \/ UNCHANGED bundles
           \/ \E stores \in SUBSET mounted :
                 bundles' = [s \in Storages |-> IF s \in stores THEN bundles[s] \ Doomed(s) ELSE bundles[s]]
    BY <1>7 DEF RetentionPass
  <2>2. \A s \in Storages : bundles'[s] \subseteq bundles[s]
    BY <2>1
  <2> QED BY <1>2, <2>1, <2>2
<1>8. CASE Die
  <2>1. UNCHANGED lastId
    BY <1>8 DEF Die
  <2>2. ASSUME NEW s \in mounted, NEW b \in Doomed(s), NEW kept \in {{}, {"recovery"}, {"config", "recovery"}},
               bundles' = [bundles EXCEPT ![s] = (@ \ {b}) \cup {[b EXCEPT !.files = kept]}]
        PROVE  \A t \in Storages : \A c \in bundles'[t] : \E a \in bundles[t] : c.id = a.id
    <3> DEFINE left == [b EXCEPT !.files = kept]
    <3>1. b \in bundles[s] /\ b \in IncidentBundles
      BY <1>1 DEF Doomed, Candidates
    <3>2. left.id = b.id
      BY <3>1 DEF IncidentBundles
    <3>3. bundles' = [bundles EXCEPT ![s] = (@ \ {b}) \cup {left}]
      BY <2>2
    <3> HIDE DEF left
    <3> QED BY <1>1, <3>1, <3>2, <3>3
  <2>3. ASSUME episode.store \in mounted,
               bundles' = [bundles EXCEPT ![episode.store] =
                   {IF b.id = episode.id THEN [b EXCEPT !.files = @ \cup {"staging"}] ELSE b : b \in @}]
        PROVE  \A t \in Storages : \A c \in bundles'[t] : \E a \in bundles[t] : c.id = a.id
    <3> DEFINE Staged(b) == IF b.id = episode.id THEN [b EXCEPT !.files = @ \cup {"staging"}] ELSE b
    <3>1. \A b \in IncidentBundles : Staged(b).id = b.id
      BY DEF IncidentBundles
    <3>2. bundles' = [bundles EXCEPT ![episode.store] = {Staged(b) : b \in bundles[episode.store]}]
      BY <2>3
    <3> HIDE DEF Staged
    <3>3. ASSUME NEW s \in Storages, NEW c \in bundles'[s]
          PROVE  \E b \in bundles[s] : c.id = b.id
      <4>1. CASE s = episode.store
        <5>1. PICK b \in bundles[s] : c = Staged(b)
          BY <1>1, <3>2, <3>3, <4>1
        <5> QED BY <1>1, <3>1, <5>1
      <4>2. CASE s # episode.store
        BY <1>1, <3>2, <3>3, <4>2
      <4> QED BY <4>1, <4>2
    <3> QED BY <3>3
  <2> QED BY <1>2, <1>3, <1>8, <2>1, <2>2, <2>3 DEF Die
<1>9. CASE \/ NothingObserved \/ IncidentContinues \/ HealthyIdle \/ Restarted \/ MountTable
           \/ OtherLease \/ UNCHANGED obsVars
  BY <1>3, <1>9 DEF NothingObserved, IncidentContinues, HealthyIdle, Restarted, MountTable, OtherLease, obsVars
<1> QED BY <1>5, <1>6, <1>7, <1>8, <1>9 DEF ObsNext

EpisodeInRange ==
    /\ episode.store \in Storages \cup {0} /\ episode.id <= lastId
    /\ episode.healthySince >= -1 /\ episode.healthySince <= MaxTime

ProcessInRange ==
    /\ lease \in {"free", "shared", "exclusive"}
    /\ observer.run <= MaxRestarts /\ observer.check >= -1 /\ observer.check <= MaxTime
    /\ now <= MaxTime /\ (observer.pc = "prune" => now < MaxTime)

LEMMA EpisodeKept ==
    ASSUME ObserverInv, ObsRanges, [ObsNext]_obsVars
    PROVE  EpisodeInRange'
<1>1. /\ lastId \in Nat /\ lastId <= lastId' /\ now \in Nat /\ MaxTime \in Nat /\ now <= MaxTime
      /\ mounted \subseteq Storages /\ episode.id \in Nat /\ episode.healthySince \in Int
      /\ episode = [store |-> episode.store, id |-> episode.id, healthySince |-> episode.healthySince]
      /\ episode.store \in Storages \cup {0} /\ episode.id <= lastId
      /\ episode.healthySince >= -1 /\ episode.healthySince <= MaxTime /\ lastId' \in Nat
  <2>1. ObserverInv'
    BY ObserverStep
  <2>2. lastId' \in Nat
    BY <2>1 DEF ObserverInv, ObserverShape
  <2> QED BY <2>2, ObsConstants, ObsIdsKept DEF ObserverInv, ObserverShape, ObsRanges, ObserverNumbers
<1>2. CASE episode' = episode
  BY <1>1, <1>2 DEF EpisodeInRange
<1>3. CASE episode' = NoEpisode
  BY <1>1, <1>3 DEF EpisodeInRange, NoEpisode, NoTime
<1>4. ASSUME NEW since \in {NoTime, now, episode.healthySince}, episode' = [episode EXCEPT !.healthySince = since]
      PROVE  EpisodeInRange'
  <2>1. since \in Int /\ since >= -1 /\ since <= MaxTime
    BY <1>1 DEF NoTime
  <2>2. episode' = [store |-> episode.store, id |-> episode.id, healthySince |-> since]
    BY <1>1, <1>4
  <2> QED BY <1>1, <2>1, <2>2 DEF EpisodeInRange
<1>5. CASE NothingObserved
  BY <1>2, <1>3, <1>5 DEF NothingObserved, Exit
<1>6. CASE IncidentContinues
  BY <1>4, <1>6 DEF IncidentContinues
<1>7. CASE WriteIncident
  <2>1. CASE episode' = episode \/ episode' = NoEpisode
    BY <1>2, <1>3, <2>1
  <2>2. ASSUME NEW writable \in (SUBSET mounted) \ {{}}, lastId' = lastId + 1,
               episode' = [store |-> FirstWritable(writable), id |-> lastId + 1, healthySince |-> NoTime]
        PROVE  EpisodeInRange'
    <3>1. FirstWritable(writable) \in Storages
      BY <1>1, FirstIsMounted
    <3> QED BY <1>1, <2>2, <3>1 DEF EpisodeInRange, NoTime
  <2> QED BY <1>7, <2>1, <2>2 DEF WriteIncident, Exit
<1>8. CASE Healthy
  <2>1. \/ episode' = NoEpisode
        \/ \E since \in {NoTime, now, episode.healthySince} : episode' = [episode EXCEPT !.healthySince = since]
    <3>1. EpisodeAfter(TRUE) = NoEpisode
      BY DEF EpisodeAfter
    <3>2. EpisodeAfter(FALSE) = [episode EXCEPT !.healthySince =
                                   IF episode.healthySince = NoTime THEN now ELSE episode.healthySince]
      BY DEF EpisodeAfter
    <3> QED BY <1>8, <3>1, <3>2 DEF Healthy, Exit
  <2> QED BY <1>3, <1>4, <2>1
<1>9. CASE RetentionPass
  BY <1>2, <1>9 DEF RetentionPass
<1>10. CASE Die
  BY <1>3, <1>10 DEF Die, Exit
<1>11. CASE HealthyIdle \/ Restarted \/ MountTable \/ OtherLease \/ UNCHANGED obsVars
  BY <1>2, <1>11 DEF HealthyIdle, Restarted, MountTable, OtherLease, obsVars
<1> QED BY <1>5, <1>6, <1>7, <1>8, <1>9, <1>10, <1>11 DEF ObsNext

LEMMA ProcessKept ==
    ASSUME ObserverInv, ObsRanges, [ObsNext]_obsVars
    PROVE  ProcessInRange'
<1>1. /\ now \in Nat /\ MaxTime \in Nat /\ now <= MaxTime /\ (observer.pc = "prune" => now < MaxTime)
      /\ observer \in [pc : {"idle", "prune", "gone"}, run : Nat, check : Int]
      /\ observer.run <= MaxRestarts /\ observer.check >= -1 /\ observer.check <= MaxTime
      /\ lease \in {"free", "shared", "exclusive"} /\ MaxRestarts \in Nat
  BY ObsConstants DEF ObserverInv, ObserverShape, ObsRanges, ObserverNumbers
<1>2. ASSUME NEW p \in {"idle", "prune", "gone"}, p = "prune" => now < MaxTime,
             observer' = [observer EXCEPT !.pc = p], UNCHANGED <<lease, now>>
      PROVE  ProcessInRange'
  BY <1>1, <1>2 DEF ProcessInRange
<1>3. CASE \/ NothingObserved \/ IncidentContinues \/ WriteIncident \/ Healthy \/ HealthyIdle \/ Die
  <2>1. \/ observer' = [observer EXCEPT !.pc = "prune"] /\ now < MaxTime
        \/ observer' = [observer EXCEPT !.pc = "gone"]
    <3>1. CASE NothingObserved \/ IncidentContinues \/ HealthyIdle \/ Die
      BY <3>1 DEF NothingObserved, IncidentContinues, HealthyIdle, Die, Ready, Iterated, Exit
    <3>2. CASE WriteIncident
      BY <3>2 DEF WriteIncident, Ready, Iterated, Exit
    <3>3. CASE Healthy
      BY <3>3 DEF Healthy, Ready, Iterated, Exit
    <3> QED BY <1>3, <3>1, <3>2, <3>3
  <2>2. UNCHANGED <<lease, now>>
    BY <1>3 DEF NothingObserved, IncidentContinues, WriteIncident, Healthy, HealthyIdle, Die
  <2> QED BY <1>2, <2>1, <2>2
<1>4. CASE RetentionPass
  <2>1. /\ \E c \in {now, observer.check} : observer' = [observer EXCEPT !.pc = "idle", !.check = c]
        /\ now' = now + 1 /\ observer.pc = "prune" /\ lease' = lease
    <3> DEFINE dueNow == observer.check = NoTime \/ now - observer.check >= CheckTicks_
               checkedAt == IF dueNow THEN now ELSE observer.check
    <3>1. /\ observer' = [observer EXCEPT !.pc = "idle", !.check = checkedAt]
          /\ now' = now + 1 /\ observer.pc = "prune" /\ lease' = lease
      BY <1>4 DEF RetentionPass
    <3>2. checkedAt \in {now, observer.check}
      OBVIOUS
    <3> HIDE DEF checkedAt
    <3> QED BY <3>1, <3>2
  <2> QED BY <1>1, <2>1 DEF ProcessInRange
<1>5. CASE Restarted
  BY <1>1, <1>5 DEF Restarted, ProcessInRange, NoTime
<1>6. CASE MountTable \/ OtherLease \/ UNCHANGED obsVars
  <2>1. UNCHANGED <<observer, now>> /\ lease' \in {"free", "shared", "exclusive"}
    BY <1>1, <1>6 DEF MountTable, OtherLease, obsVars
  <2> QED BY <1>1, <2>1 DEF ProcessInRange
<1> QED BY <1>3, <1>4, <1>5, <1>6 DEF ObsNext

\* Whatever storage, lease and process do, the observer's episode, clock and bundles
\* stay within their kinds and bounds (rust/forensic-observer).
LEMMA ObserverTypes == ObsSpec => []ObsTypeOK
<1>1. ObsInit => ObsRanges
  BY ObsConstants DEF ObsInit, ObsRanges, NoEpisode, NoTime, ObserverNumbers
<1>2. ObserverInv /\ ObsRanges /\ [ObsNext]_obsVars => ObserverInv' /\ ObsRanges'
  <2> SUFFICES ASSUME ObserverInv, ObsRanges, [ObsNext]_obsVars PROVE ObserverInv' /\ ObsRanges'
    OBVIOUS
  <2>1. ObserverInv'
    BY ObserverStep
  <2>2. ObsRanges'
    BY ObsIdsKept, EpisodeKept, ProcessKept DEF ObsRanges, EpisodeInRange, ProcessInRange
  <2> QED BY <2>1, <2>2
<1>3. ObserverInv /\ ObsRanges => ObsTypeOK
  <2> SUFFICES ASSUME ObserverInv, ObsRanges PROVE ObsTypeOK
    OBVIOUS
  <2>1. /\ episode = [store |-> episode.store, id |-> episode.id, healthySince |-> episode.healthySince]
        /\ episode.id \in 0 .. MaxBundles /\ episode.healthySince \in -1 .. MaxTime
        /\ episode.store \in Storages \cup {0}
    BY ObsConstants DEF ObserverInv, ObserverShape, ObsRanges, ObserverNumbers
  <2>2. observer \in [pc : {"idle", "prune", "gone"}, run : 0 .. MaxRestarts, check : -1 .. MaxTime]
    BY ObsConstants DEF ObserverInv, ObserverShape, ObsRanges, ObserverNumbers
  <2>3. \A s \in Storages : \A b \in bundles[s] : b.id \in 1 .. lastId /\ b.files \subseteq BundleFiles \cup {"staging"}
    BY DEF ObserverInv, ObserverShape, ObsRanges, IncidentBundles
  <2>4. mounted \subseteq Storages /\ lease \in {"free", "shared", "exclusive"}
    BY DEF ObserverInv, ObserverShape, ObsRanges
  <2> QED BY <2>1, <2>2, <2>3, <2>4 DEF ObsTypeOK
<1> QED BY ObserverStarts, <1>1, <1>2, <1>3, PTL DEF ObsSpec

(***************************************************************************)
(* The PV sources: the tracker, the round in progress and the held total.  *)
(***************************************************************************)
TrackerOk(os) ==
    /\ DOMAIN os \subseteq PvMembers /\ Cardinality(DOMAIN os) <= MaxObservations
    /\ \A m \in DOMAIN os : os[m] \in Observation

LEMMA PvConstants ==
    /\ PvMembers \subseteq Nat /\ IsFiniteSet(PvMembers)
    /\ ErrorBackoff \in Nat /\ PvHorizon \in Nat /\ HoldWindow \in Nat
    /\ MaxObservations \in Nat /\ MaxObservations >= 1
BY PvAssumption DEF PvAssumption

LEMMA MembersFinite ==
    ASSUME NEW S \in SUBSET PvMembers
    PROVE  IsFiniteSet(S) /\ Cardinality(S) \in Nat
BY PvConstants, FS_Subset, FS_CardinalityType

LEMMA NewIsObservation == NewObservation \in Observation
BY PvConstants DEF NewObservation, Observation, PvTimes

LEMMA ZeroIsATime == 0 \in PvTimes /\ 0 \in 0 .. PvHorizon + ErrorBackoff
BY PvConstants DEF PvTimes

LEMMA SeenIsNat == ASSUME NEW o \in Observation PROVE o.seenAt \in Nat
<1>1. o.seenAt \in PvTimes
  BY DEF Observation
<1> QED BY <1>1, PvConstants DEF PvTimes

LEMMA EvictedIsThere ==
    ASSUME NEW os, NEW active, TrackerOk(os), DOMAIN os # {}
    PROVE  Evicted(os, active) \in DOMAIN os
<1> DEFINE D == DOMAIN os
           A == IF D \ active # {} THEN D \ active ELSE D
           T == {os[m].seenAt : m \in A}
<1>1. D \subseteq Nat /\ \A m \in D : os[m].seenAt \in Nat
  <2>1. \A m \in D : os[m] \in Observation
    BY DEF TrackerOk
  <2> QED BY <2>1, PvConstants, SeenIsNat DEF TrackerOk
<1>2. A # {} /\ A \subseteq D /\ T # {} /\ T \in SUBSET Nat
  BY <1>1
<1>3. PICK t \in T : \A u \in T : t <= u
  BY <1>2, SmallestIsThere
<1> DEFINE B == {m \in A : os[m].seenAt = t}
<1>4. B # {} /\ B \in SUBSET Nat
  BY <1>1, <1>2
<1>5. PICK m \in B : \A x \in B : m <= x
  <2> HIDE DEF B
  <2> QED BY <1>4, SmallestIsThere
<1>6. m \in D /\ m \in A /\ os[m].seenAt = t /\ m \in Nat
  BY <1>1, <1>2, <1>5
<1>7. ASSUME NEW x \in D \ {m}
      PROVE  \/ m \notin active /\ x \in active
             \/ /\ (m \in active) = (x \in active)
                /\ \/ os[m].seenAt < os[x].seenAt
                   \/ os[m].seenAt = os[x].seenAt /\ m < x
  <2>1. CASE x \in A
    <3>1. (m \in active) = (x \in active)
      BY <1>6, <2>1
    <3>2. t <= os[x].seenAt /\ os[x].seenAt \in Nat /\ t \in Nat /\ x \in Nat
      BY <1>1, <1>2, <1>3, <2>1
    <3>3. os[x].seenAt = t => m <= x
      BY <1>5, <2>1
    <3> QED BY <1>6, <1>7, <3>1, <3>2, <3>3
  <2>2. CASE x \notin A
    BY <1>6, <1>7, <2>2
  <2> QED BY <2>1, <2>2
<1> QED BY <1>6, <1>7 DEF Evicted

LEMMA WithOk ==
    ASSUME NEW os, NEW m \in PvMembers, NEW active, TrackerOk(os)
    PROVE  TrackerOk(WithObservation(os, m, active)) /\ m \in DOMAIN WithObservation(os, m, active)
<1>1. CASE m \in DOMAIN os
  BY <1>1 DEF WithObservation
<1>2. CASE m \notin DOMAIN os
  <2> DEFINE kept == TrimToCapacity(os, active)
             grown == [x \in DOMAIN kept \cup {m} |-> IF x = m THEN NewObservation ELSE kept[x]]
  <2>1. IsFiniteSet(DOMAIN os) /\ Cardinality(DOMAIN os) \in Nat /\ Cardinality(DOMAIN os) <= MaxObservations
    BY MembersFinite DEF TrackerOk
  <2>2. /\ DOMAIN kept \subseteq DOMAIN os /\ Cardinality(DOMAIN kept) + 1 <= MaxObservations
        /\ \A x \in DOMAIN kept : kept[x] = os[x]
    <3>1. CASE Cardinality(DOMAIN os) < MaxObservations
      <4>1. kept = os
        BY <3>1 DEF TrimToCapacity
      <4> HIDE DEF kept
      <4> QED BY <2>1, <3>1, <4>1, PvConstants
    <3>2. CASE ~(Cardinality(DOMAIN os) < MaxObservations)
      <4>1. DOMAIN os # {}
        BY <2>1, <3>2, PvConstants, FS_EmptySet
      <4>2. Evicted(os, active) \in DOMAIN os
        BY <4>1, EvictedIsThere
      <4>3. kept = [x \in DOMAIN os \ {Evicted(os, active)} |-> os[x]]
        BY <3>2 DEF TrimToCapacity
      <4>4. Cardinality(DOMAIN os \ {Evicted(os, active)}) = Cardinality(DOMAIN os) - 1
        BY <2>1, <4>2, FS_RemoveElement
      <4> HIDE DEF kept
      <4>5. DOMAIN kept = DOMAIN os \ {Evicted(os, active)}
        BY <4>3
      <4> QED BY <2>1, <4>3, <4>4, <4>5, PvConstants
    <3> QED BY <3>1, <3>2
  <2>3. grown = WithObservation(os, m, active)
    BY <1>2 DEF WithObservation
  <2> HIDE DEF kept
  <2>4. DOMAIN grown = DOMAIN kept \cup {m} /\ m \notin DOMAIN kept
    BY <1>2, <2>2
  <2>5. Cardinality(DOMAIN grown) <= MaxObservations
    <3>1. IsFiniteSet(DOMAIN kept) /\ Cardinality(DOMAIN kept) \in Nat
      BY <2>2, MembersFinite DEF TrackerOk
    <3>2. Cardinality(DOMAIN kept \cup {m}) = Cardinality(DOMAIN kept) + 1
      BY <2>4, <3>1, FS_AddElement
    <3> QED BY <2>2, <2>4, <3>2
  <2>6. \A x \in DOMAIN grown : grown[x] \in Observation
    BY <2>2, NewIsObservation DEF TrackerOk
  <2>7. DOMAIN grown \subseteq PvMembers
    BY <2>2, <2>4 DEF TrackerOk
  <2> HIDE DEF grown
  <2> QED BY <2>3, <2>4, <2>5, <2>6, <2>7 DEF TrackerOk
<1> QED BY <1>1, <1>2

\* One observation is replaced.
LEMMA OneReplaced ==
    ASSUME NEW os, NEW m \in DOMAIN os, TrackerOk(os), NEW o \in Observation
    PROVE  TrackerOk([os EXCEPT ![m] = o])
<1> DEFINE new == [os EXCEPT ![m] = o]
<1>1. DOMAIN new = DOMAIN os
  OBVIOUS
<1>2. \A x \in DOMAIN os : new[x] = o \/ new[x] = os[x]
  OBVIOUS
<1> HIDE DEF new
<1>3. TrackerOk(new)
  BY <1>1, <1>2 DEF TrackerOk
<1> QED BY <1>3 DEF new

LEMMA RecordValueOk ==
    ASSUME NEW os, NEW m \in PvMembers, NEW active, TrackerOk(os), pvNow \in PvTimes
    PROVE  TrackerOk(RecordValue(os, m, active))
<1> DEFINE wo == WithObservation(os, m, active)
           o == [wo[m] EXCEPT !.validated = TRUE, !.available = "yes", !.failed = FALSE,
                              !.dormant = FALSE, !.dormantAt = 0, !.seenAt = pvNow, !.probeAt = 0]
<1>1. TrackerOk(wo) /\ m \in DOMAIN wo
  BY WithOk
<1>2. RecordValue(os, m, active) = [wo EXCEPT ![m] = o]
  BY DEF RecordValue
<1> HIDE DEF wo
<1>3. wo[m] \in Observation
  BY <1>1 DEF TrackerOk
<1> DEFINE p == [wo[m] EXCEPT !.validated = TRUE, !.available = "yes", !.failed = FALSE, !.dormant = FALSE]
<1>4. p \in Observation
  BY <1>3 DEF Observation
<1>5. o = [p EXCEPT !.dormantAt = 0, !.seenAt = pvNow, !.probeAt = 0]
  OBVIOUS
<1> HIDE DEF p, o
<1>6. o \in Observation
  BY <1>4, <1>5, ZeroIsATime DEF Observation
<1>7. TrackerOk([wo EXCEPT ![m] = o])
  BY <1>1, <1>6, OneReplaced
<1> QED BY <1>2, <1>7

LEMMA RecordErrorOk ==
    ASSUME NEW os, NEW m \in PvMembers, NEW active, NEW asleep \in BOOLEAN, TrackerOk(os), pvNow \in PvTimes
    PROVE  TrackerOk(RecordError(os, m, active, asleep))
<1> DEFINE wo == WithObservation(os, m, active)
           p == [wo[m] EXCEPT !.available = "no", !.seenAt = pvNow, !.probeAt = pvNow + ErrorBackoff]
           o == IF asleep THEN [p EXCEPT !.validated = TRUE, !.failed = FALSE,
                                         !.dormant = TRUE, !.dormantAt = pvNow]
                ELSE [p EXCEPT !.failed = ~p.dormant]
<1>1. TrackerOk(wo) /\ m \in DOMAIN wo
  BY WithOk
<1>2. RecordError(os, m, active, asleep) = [wo EXCEPT ![m] = o]
  BY DEF RecordError
<1> HIDE DEF wo
<1>3. wo[m] \in Observation
  BY <1>1 DEF TrackerOk
<1>4. pvNow + ErrorBackoff \in 0 .. PvHorizon + ErrorBackoff
  BY PvConstants DEF PvTimes
<1>5. p \in Observation
  BY <1>3, <1>4 DEF Observation
<1> HIDE DEF p
<1>6. asleep => o \in Observation
  <2>1. [p EXCEPT !.validated = TRUE, !.failed = FALSE, !.dormant = TRUE, !.dormantAt = pvNow] \in Observation
    BY <1>5 DEF Observation
  <2> QED BY <2>1
<1>7. ~asleep => o \in Observation
  <2>1. (~p.dormant) \in BOOLEAN
    OBVIOUS
  <2> DEFINE f == ~p.dormant
  <2> HIDE DEF f
  <2>2. f \in BOOLEAN
    BY <2>1 DEF f
  <2>3. [p EXCEPT !.failed = f] \in Observation
    BY <1>5, <2>2 DEF Observation
  <2> QED BY <2>3 DEF f
<1> HIDE DEF o
<1>8. o \in Observation
  BY <1>6, <1>7
<1>9. TrackerOk([wo EXCEPT ![m] = o])
  BY <1>1, <1>8, OneReplaced
<1> QED BY <1>2, <1>9

LEMMA MaintainOk ==
    ASSUME NEW os, NEW ts, NEW active, TrackerOk(os)
    PROVE  TrackerOk(Maintain(os, ts, active).obs) /\ Maintain(os, ts, active).targets \subseteq ts
<1> DEFINE ex == ExpireDormancy(os)
           kept == PruneInactive(ex, active)
<1>1. DOMAIN ex = DOMAIN os
  BY DEF ExpireDormancy
<1>2. \A m \in DOMAIN os : ex[m] \in Observation
  <2> SUFFICES ASSUME NEW m \in DOMAIN os PROVE ex[m] \in Observation
    OBVIOUS
  <2>1. os[m] \in Observation
    BY DEF TrackerOk
  <2>2. [os[m] EXCEPT !.dormant = FALSE, !.dormantAt = 0, !.failed = TRUE] \in Observation
    BY <2>1, ZeroIsATime DEF Observation
  <2>3. ex[m] = os[m] \/ ex[m] = [os[m] EXCEPT !.dormant = FALSE, !.dormantAt = 0, !.failed = TRUE]
    BY DEF ExpireDormancy
  <2> HIDE DEF ex
  <2> QED BY <2>1, <2>2, <2>3
<1> HIDE DEF ex
<1>3. DOMAIN kept \subseteq DOMAIN os /\ \A m \in DOMAIN kept : kept[m] = ex[m]
  BY <1>1 DEF PruneInactive
<1> HIDE DEF kept
<1>4. Cardinality(DOMAIN kept) <= MaxObservations
  <2>1. IsFiniteSet(DOMAIN os) /\ Cardinality(DOMAIN os) \in Nat /\ Cardinality(DOMAIN os) <= MaxObservations
    BY MembersFinite DEF TrackerOk
  <2>2. Cardinality(DOMAIN kept) <= Cardinality(DOMAIN os) /\ Cardinality(DOMAIN kept) \in Nat
    BY <1>3, <2>1, FS_Subset, FS_CardinalityType
  <2> QED BY <2>1, <2>2, PvConstants
<1>5. TrackerOk(kept)
  BY <1>2, <1>3, <1>4 DEF TrackerOk
<1>6. Maintain(os, ts, active).obs = kept /\ Maintain(os, ts, active).targets \subseteq ts
  BY DEF Maintain, kept, ex
<1> QED BY <1>5, <1>6

\* The members of a set can be put in order.
LEMMA OrderExists ==
    ASSUME NEW S \in SUBSET PvMembers
    PROVE  \E s \in [1 .. Cardinality(S) -> S] : \A i, j \in DOMAIN s : i < j => s[i] < s[j]
<1> DEFINE n == Cardinality(S)
           Below(k) == {j \in S : j <= k}
           rank == [k \in S |-> Cardinality(Below(k))]
<1>1. IsFiniteSet(S) /\ n \in Nat /\ \A k \in S : k \in Nat
  BY MembersFinite, PvConstants
<1>2. \A k \in S : rank[k] \in 1 .. n
  <2> SUFFICES ASSUME NEW k \in S PROVE rank[k] \in 1 .. n
    OBVIOUS
  <2>1. Below(k) \in SUBSET S /\ Below(k) # {}
    BY <1>1
  <2> HIDE DEF Below
  <2>2. /\ IsFiniteSet(Below(k)) /\ Cardinality(Below(k)) <= n /\ Cardinality(Below(k)) \in Nat
        /\ Cardinality(Below(k)) # 0
    BY <1>1, <2>1, FS_Subset, FS_CardinalityType, FS_EmptySet
  <2> QED BY <1>1, <2>2
<1>3. \A i, k \in S : i < k => rank[i] < rank[k]
  <2> SUFFICES ASSUME NEW i \in S, NEW k \in S, i < k PROVE rank[i] < rank[k]
    OBVIOUS
  <2>1. Below(k) \in SUBSET S /\ Below(i) \in SUBSET Below(k) /\ Below(i) # Below(k)
    <3>1. k \in Below(k) /\ k \notin Below(i)
      BY <1>1
    <3>2. \A j \in S : j <= i => j <= k
      BY <1>1
    <3> QED BY <3>1, <3>2
  <2> HIDE DEF Below
  <2>2. IsFiniteSet(Below(k))
    BY <1>1, <2>1, FS_Subset
  <2>3. Cardinality(Below(i)) <= Cardinality(Below(k)) /\ Cardinality(Below(i)) # Cardinality(Below(k))
    BY <2>1, <2>2, FS_Subset
  <2>4. Cardinality(Below(i)) \in Nat /\ Cardinality(Below(k)) \in Nat
    BY <2>1, <2>2, FS_Subset, FS_CardinalityType
  <2> QED BY <2>3, <2>4
<1> HIDE DEF rank, Below
<1>4. rank \in Injection(S, 1 .. n)
  <2>1. rank \in [S -> 1 .. n]
    BY <1>2 DEF rank
  <2>2. \A a, b \in S : rank[a] = rank[b] => a = b
    BY <1>1, <1>2, <1>3
  <2> QED BY <2>1, <2>2 DEF Injection, IsInjective
<1>5. IsFiniteSet(1 .. n) /\ Cardinality(1 .. n) = n
  <2>1. 1 \in Int /\ n \in Int
    BY <1>1
  <2>2. Cardinality(1 .. n) = IF 1 > n THEN 0 ELSE n - 1 + 1
    BY <2>1, FS_Interval
  <2>3. IsFiniteSet(1 .. n)
    BY <2>1, FS_Interval
  <2> HIDE DEF n
  <2>4. Cardinality(1 .. n) = n
    BY <1>1, <2>2
  <2> QED BY <2>3, <2>4
<1>6. rank \in Surjection(S, 1 .. n)
  BY <1>1, <1>4, <1>5, FS_Injection
<1>7. \A i \in 1 .. n : \E k \in S : rank[k] = i
  BY <1>6 DEF Surjection
<1> DEFINE s == [i \in 1 .. n |-> CHOOSE k \in S : rank[k] = i]
<1>8. \A i \in 1 .. n : s[i] \in S /\ rank[s[i]] = i
  BY <1>7
<1>9. s \in [1 .. n -> S] /\ DOMAIN s = 1 .. n
  BY <1>8
<1> HIDE DEF s
<1>10. \A i, j \in 1 .. n : i < j => s[i] < s[j]
  <2> SUFFICES ASSUME NEW i \in 1 .. n, NEW j \in 1 .. n, i < j PROVE s[i] < s[j]
    OBVIOUS
  <2>1. s[i] \in S /\ s[j] \in S /\ rank[s[i]] = i /\ rank[s[j]] = j
    BY <1>8
  <2>2. s[i] \in Nat /\ s[j] \in Nat
    BY <1>1, <2>1
  <2>3. ~(s[j] < s[i]) /\ s[i] # s[j]
    BY <1>3, <2>1
  <2> QED BY <2>2, <2>3
<1> QED BY <1>9, <1>10

LEMMA ListIsSeq ==
    ASSUME NEW S, NEW n \in Nat, NEW s \in [1 .. n -> S]
    PROVE  s \in Seq(S) /\ Len(s) = n /\ DOMAIN s = 1 .. n
OBVIOUS

LEMMA AscendingFacts ==
    ASSUME NEW S \in SUBSET PvMembers
    PROVE  Ascending(S) \in Seq(PvMembers) /\ IsInjective(Ascending(S))
<1>1. /\ Ascending(S) \in [1 .. Cardinality(S) -> S]
      /\ \A i, j \in DOMAIN Ascending(S) : i < j => Ascending(S)[i] < Ascending(S)[j]
  BY OrderExists DEF Ascending
<1>2. Cardinality(S) \in Nat /\ S \subseteq Nat
  BY MembersFinite, PvConstants
<1> DEFINE s == Ascending(S)
<1> HIDE DEF s
<1>3. s \in [1 .. Cardinality(S) -> S] /\ \A i, j \in DOMAIN s : i < j => s[i] < s[j]
  BY <1>1 DEF s
<1>4. s \in [1 .. Cardinality(S) -> PvMembers]
  BY <1>3
<1>5. s \in Seq(PvMembers)
  BY <1>2, <1>4, ListIsSeq
<1>7. DOMAIN s = 1 .. Cardinality(S) /\ \A i \in 1 .. Cardinality(S) : s[i] \in S
  BY <1>3
<1>8. \A i \in DOMAIN s : i \in Nat /\ s[i] \in Nat
  <2>1. \A i \in 1 .. Cardinality(S) : i \in Nat
    BY <1>2
  <2>2. \A i \in 1 .. Cardinality(S) : s[i] \in Nat
    BY <1>2, <1>7
  <2> QED BY <1>7, <2>1, <2>2
<1>6. IsInjective(s)
  <2> SUFFICES ASSUME NEW a \in DOMAIN s, NEW b \in DOMAIN s, s[a] = s[b] PROVE a = b
    BY DEF IsInjective
  <2>1. a \in Nat /\ b \in Nat /\ s[a] \in Nat
    BY <1>8
  <2>2. ~(a < b) /\ ~(b < a)
    BY <1>3, <2>1
  <2> QED BY <2>1, <2>2
<1> QED BY <1>5, <1>6 DEF s

LEMMA SetToSeqFacts ==
    ASSUME NEW S \in SUBSET PvMembers
    PROVE  /\ SetToSeq(S) \in Seq(PvMembers) /\ IsInjective(SetToSeq(S))
           /\ \A i \in DOMAIN SetToSeq(S) : SetToSeq(S)[i] \in S
<1>1. IsFiniteSet(S) /\ Cardinality(S) \in Nat /\ ExistsBijection(1 .. Cardinality(S), S)
  BY MembersFinite, FS_CardinalityType
<1>2. \E f \in [1 .. Cardinality(S) -> S] : IsInjective(f)
  BY <1>1 DEF ExistsBijection, Bijection, Injection
<1>3. SetToSeq(S) \in [1 .. Cardinality(S) -> S] /\ IsInjective(SetToSeq(S))
  BY <1>2 DEF SetToSeq
<1> DEFINE s == SetToSeq(S)
<1> HIDE DEF s
<1>4. s \in [1 .. Cardinality(S) -> S] /\ IsInjective(s)
  BY <1>3 DEF s
<1>5. s \in [1 .. Cardinality(S) -> PvMembers]
  BY <1>4
<1>6. s \in Seq(PvMembers) /\ \A i \in DOMAIN s : s[i] \in S
  BY <1>1, <1>4, <1>5, ListIsSeq
<1> QED BY <1>4, <1>6 DEF s

LEMMA JoinedOnce ==
    ASSUME NEW S, NEW s \in Seq(S), NEW t \in Seq(S), IsInjective(s), IsInjective(t),
           \A i \in DOMAIN s, j \in DOMAIN t : s[i] # t[j]
    PROVE  IsInjective(s \o t)
<1> DEFINE u == s \o t
<1>1. /\ Len(s) \in Nat /\ Len(t) \in Nat /\ DOMAIN s = 1 .. Len(s) /\ DOMAIN t = 1 .. Len(t)
      /\ DOMAIN u = 1 .. Len(s) + Len(t)
      /\ \A i \in 1 .. Len(s) + Len(t) : u[i] = IF i <= Len(s) THEN s[i] ELSE t[i - Len(s)]
  OBVIOUS
<1> HIDE DEF u
<1>2. ASSUME NEW a \in DOMAIN u, NEW b \in DOMAIN u, u[a] = u[b]
      PROVE  a = b
  <2>1. CASE a <= Len(s) /\ b <= Len(s)
    <3>1. a \in DOMAIN s /\ b \in DOMAIN s /\ s[a] = s[b]
      BY <1>1, <1>2, <2>1
    <3> QED BY <3>1 DEF IsInjective
  <2>2. CASE a > Len(s) /\ b > Len(s)
    <3>1. /\ a - Len(s) \in DOMAIN t /\ b - Len(s) \in DOMAIN t /\ t[a - Len(s)] = t[b - Len(s)]
          /\ a \in Int /\ b \in Int
      BY <1>1, <1>2, <2>2
    <3>2. a - Len(s) = b - Len(s)
      BY <3>1 DEF IsInjective
    <3> QED BY <1>1, <3>1, <3>2
  <2>3. CASE a <= Len(s) /\ b > Len(s)
    <3>1. a \in DOMAIN s /\ b - Len(s) \in DOMAIN t /\ s[a] = t[b - Len(s)]
      BY <1>1, <1>2, <2>3
    <3> QED BY <3>1
  <2>4. CASE a > Len(s) /\ b <= Len(s)
    <3>1. b \in DOMAIN s /\ a - Len(s) \in DOMAIN t /\ s[b] = t[a - Len(s)]
      BY <1>1, <1>2, <2>4
    <3> QED BY <3>1
  <2>5. a \in Int /\ b \in Int
    BY <1>1
  <2> QED BY <1>1, <2>1, <2>2, <2>3, <2>4, <2>5
<1> QED BY <1>2 DEF IsInjective, u

(***************************************************************************)
(* The round in progress and what is held.                                 *)
(***************************************************************************)
Rounds == [members : Seq(PvMembers), index : Nat, sources : Seq(PvMembers), held : SUBSET PvMembers]

RoundShape(r) ==
    /\ r \in Rounds /\ r.held = {}
    /\ IsInjective(r.members) /\ IsInjective(r.sources) /\ r.index <= Len(r.members)
    /\ \A i \in DOMAIN r.sources : \E j \in 1 .. r.index : r.sources[i] = r.members[j]

\* A source that entered the sum is confirmed, or no longer known.
StillFresh(r, ss) == \A i \in DOMAIN r.sources : r.sources[i] \in DOMAIN ss => ss[r.sources[i]] = Never

SamplesOk(ss) == DOMAIN ss \subseteq PvMembers /\ \A m \in DOMAIN ss : ss[m] \in PvTimes \cup {Never}

Agrees(since, ss) == \A m \in DOMAIN ss : since[m] = ss[m]

TrackerTyped ==
    /\ pvNow \in PvTimes /\ configured \in BOOLEAN /\ TrackerOk(obs)
    /\ advertised \subseteq PvMembers /\ targets \subseteq PvMembers

RoundHeld ==
    /\ SamplesOk(samples) /\ DOMAIN lostAt = PvMembers /\ Agrees(lostAt, samples)
    /\ RoundShape(round) /\ StillFresh(round, samples)
    /\ round = NoRound \/ round.index < Len(round.members)
    /\ candidates \subseteq PvMembers
    /\ asked # {} => round # NoRound /\ asked = {round.members[round.index + 1]}
    /\ HoldEnds

LEMMA NoRoundShape ==
    /\ RoundShape(NoRound) /\ NoRound.members = <<>> /\ NoRound.index = 0 /\ NoRound.sources = <<>>
    /\ \A ss : StillFresh(NoRound, ss)
<1>1. NoRound \in Rounds /\ NoRound.held = {} /\ NoRound.members = <<>> /\ NoRound.sources = <<>> /\ NoRound.index = 0
  BY DEF NoRound, Rounds
<1>2. DOMAIN <<>> = {} /\ Len(<<>>) = 0
  OBVIOUS
<1> QED BY <1>1, <1>2 DEF RoundShape, StillFresh, IsInjective

LEMMA NoTotalHolds == ASSUME pvTotal' = NoTotal PROVE HoldEnds'
<1>1. NoTotal.sources = <<>> /\ NoTotal.held = {}
  BY DEF NoTotal
<1>2. DOMAIN <<>> = {}
  OBVIOUS
<1> QED BY <1>1, <1>2 DEF HoldEnds, IsInjective

LEMMA LostAgrees ==
    ASSUME NEW since, NEW ss, Agrees(since, ss), SamplesOk(ss), lostAt' = Lost(since),
           DOMAIN samples' \subseteq DOMAIN ss, \A m \in DOMAIN samples' : samples'[m] = ss[m]
    PROVE  SamplesOk(samples') /\ DOMAIN lostAt' = PvMembers /\ Agrees(lostAt', samples')
<1>1. SamplesOk(samples')
  BY DEF SamplesOk, PvTimes, Never
<1>2. DOMAIN lostAt' = PvMembers /\ \A m \in DOMAIN samples' : lostAt'[m] = since[m]
  BY <1>1 DEF Lost, SamplesOk
<1> QED BY <1>1, <1>2 DEF Agrees

\* The round ends: what is held was lost within the window.
LEMMA CompleteHolds ==
    ASSUME NEW r, NEW ss, NEW cs, NEW since, RoundShape(r), StillFresh(r, ss), SamplesOk(ss),
           cs \subseteq PvMembers, Agrees(since, ss), lostAt' = Lost(since), pvNow' = pvNow,
           Complete(r, ss, cs), asked' = {}
    PROVE  RoundHeld'
<1> DEFINE es == AvailableEstimates(ss, cs)
           whole == r.sources \o SetToSeq(es)
<1>1. /\ es \subseteq DOMAIN ss /\ es \subseteq cs \cap advertised
      /\ \A m \in es : ss[m] # Never /\ pvNow - ss[m] < HoldWindow
  BY DEF AvailableEstimates, Estimates
<1>2. /\ samples' = RetainMembers(ss, cs \cap advertised) /\ round' = NoRound /\ candidates' = {}
      /\ pvTotal' = Published(AddEstimates(r, ss, cs))
  BY DEF Complete
<1>3. DOMAIN samples' = DOMAIN ss \cap (cs \cap advertised) /\ \A m \in DOMAIN samples' : samples'[m] = ss[m]
  BY <1>2 DEF RetainMembers
<1>4. SamplesOk(samples') /\ DOMAIN lostAt' = PvMembers /\ Agrees(lostAt', samples')
  BY <1>3, LostAgrees
<1>5. es \in SUBSET PvMembers
  BY <1>1
<1> HIDE DEF es
<1>6. IsInjective(whole)
  <2>1. /\ SetToSeq(es) \in Seq(PvMembers) /\ IsInjective(SetToSeq(es))
        /\ \A i \in DOMAIN SetToSeq(es) : SetToSeq(es)[i] \in es
    BY <1>5, SetToSeqFacts
  <2>2. r.sources \in Seq(PvMembers) /\ IsInjective(r.sources)
    BY DEF RoundShape, Rounds
  <2>3. \A i \in DOMAIN r.sources : r.sources[i] \notin es
    BY <1>1 DEF StillFresh
  <2> QED BY <2>1, <2>2, <2>3, JoinedOnce
<1>7. pvTotal'.sources = whole /\ pvTotal'.held = es
  <2>1. AddEstimates(r, ss, cs) = [r EXCEPT !.held = es, !.sources = whole]
    BY DEF AddEstimates, es
  <2>2. AddEstimates(r, ss, cs).sources = whole /\ AddEstimates(r, ss, cs).held = es
    BY <2>1 DEF RoundShape, Rounds
  <2> QED BY <1>2, <2>2 DEF Published
<1> HIDE DEF whole
<1>8. HoldEnds'
  <2>1. \A m \in es : lostAt'[m] = ss[m]
    <3>1. es \subseteq DOMAIN samples'
      BY <1>1, <1>3
    <3> QED BY <1>3, <1>4, <3>1 DEF Agrees
  <2> QED BY <1>1, <1>6, <1>7, <2>1 DEF HoldEnds
<1> QED BY <1>2, <1>4, <1>8, NoRoundShape DEF RoundHeld

LEMMA AdvanceHolds ==
    ASSUME RoundHeld, NEW r, NEW ss, NEW since, RoundShape(r), StillFresh(r, ss), SamplesOk(ss),
           Agrees(since, ss), lostAt' = Lost(since), pvNow' = pvNow,
           Advance(r, ss), asked' = {}
    PROVE  RoundHeld'
<1>1. CASE r.index >= Len(r.members)
  <2>1. Complete(r, ss, candidates)
    BY <1>1 DEF Advance
  <2> QED BY <2>1, CompleteHolds DEF RoundHeld
<1>2. CASE ~(r.index >= Len(r.members))
  <2>1. round' = r /\ samples' = ss /\ pvTotal' = NoTotal /\ candidates' = candidates
    BY <1>2 DEF Advance
  <2>2. SamplesOk(samples') /\ DOMAIN lostAt' = PvMembers /\ Agrees(lostAt', samples')
    BY <2>1, LostAgrees
  <2>3. r.index < Len(r.members)
    BY <1>2 DEF RoundShape, Rounds
  <2> QED BY <2>1, <2>2, <2>3, NoTotalHolds DEF RoundHeld
<1> QED BY <1>1, <1>2

\* The member that is asked has not entered the sum yet.
LEMMA AskedIsNext ==
    ASSUME RoundHeld, NEW m \in asked
    PROVE  /\ round \in Rounds /\ round.index < Len(round.members) /\ m = round.members[round.index + 1]
           /\ m \in PvMembers /\ \A i \in DOMAIN round.sources : round.sources[i] # m
<1>1. /\ RoundShape(round) /\ round # NoRound /\ m = round.members[round.index + 1]
      /\ round.index < Len(round.members)
  BY DEF RoundHeld
<1>2. round.members \in Seq(PvMembers) /\ round.index \in Nat /\ round \in Rounds
  BY <1>1 DEF RoundShape, Rounds
<1>3. round.index + 1 \in DOMAIN round.members
  BY <1>1, <1>2
<1>4. ASSUME NEW i \in DOMAIN round.sources
      PROVE  round.sources[i] # m
  <2>1. PICK j \in 1 .. round.index : round.sources[i] = round.members[j]
    BY <1>1 DEF RoundShape
  <2>2. j \in DOMAIN round.members /\ j # round.index + 1
    BY <1>1, <1>2, <2>1
  <2> QED BY <1>1, <1>3, <2>1, <2>2 DEF RoundShape, IsInjective
<1> QED BY <1>1, <1>2, <1>3, <1>4

\* The next member has been read, and may have entered the sum.
LEMMA NextRound ==
    ASSUME RoundHeld, NEW m \in asked, NEW sources \in {round.sources, Append(round.sources, m)}
    PROVE  RoundShape([round EXCEPT !.index = @ + 1, !.sources = sources])
<1> DEFINE r == [round EXCEPT !.index = @ + 1, !.sources = sources]
           q == round.sources
<1>1. /\ round \in Rounds /\ round.index < Len(round.members) /\ m = round.members[round.index + 1]
      /\ m \in PvMembers /\ \A i \in DOMAIN round.sources : round.sources[i] # m
  BY AskedIsNext
<1>2. RoundShape(round)
  BY DEF RoundHeld
<1>3. q \in Seq(PvMembers) /\ round.index \in Nat /\ round.members \in Seq(PvMembers) /\ round.held = {}
  BY <1>1, <1>2 DEF Rounds, RoundShape
<1>4. r.members = round.members /\ r.index = round.index + 1 /\ r.sources = sources /\ r.held = {}
  BY <1>1, <1>3 DEF Rounds
<1>5. /\ sources \in Seq(PvMembers)
      /\ \A i \in DOMAIN sources : (i \in DOMAIN q /\ sources[i] = q[i]) \/ (i = Len(q) + 1 /\ sources[i] = m)
  <2>1. /\ Append(q, m) \in Seq(PvMembers) /\ DOMAIN Append(q, m) = 1 .. Len(q) + 1
        /\ DOMAIN q = 1 .. Len(q) /\ Len(q) \in Nat
        /\ \A i \in 1 .. Len(q) : Append(q, m)[i] = q[i]
        /\ Append(q, m)[Len(q) + 1] = m
    BY <1>1, <1>3
  <2>2. CASE sources = q
    BY <1>3, <2>2
  <2>3. CASE sources = Append(q, m)
    <3>1. \A i \in 1 .. Len(q) + 1 : i \in 1 .. Len(q) \/ i = Len(q) + 1
      BY <2>1
    <3> QED BY <2>1, <2>3, <3>1
  <2> QED BY <2>2, <2>3
<1>6. IsInjective(sources)
  BY <1>1, <1>2, <1>5 DEF IsInjective, RoundShape
<1>7. \A i \in DOMAIN sources : \E j \in 1 .. round.index + 1 : sources[i] = round.members[j]
  <2> SUFFICES ASSUME NEW i \in DOMAIN sources
               PROVE  \E j \in 1 .. round.index + 1 : sources[i] = round.members[j]
    OBVIOUS
  <2>1. CASE sources[i] = m
    BY <1>1, <1>3, <2>1
  <2>2. CASE i \in DOMAIN q /\ sources[i] = q[i]
    <3>1. PICK j \in 1 .. round.index : q[i] = round.members[j]
      BY <1>2, <2>2 DEF RoundShape
    <3> QED BY <1>3, <2>2, <3>1
  <2> QED BY <1>5, <2>1, <2>2
<1>8. r \in Rounds
  <2>1. round.index + 1 \in Nat
    BY <1>3
  <2> QED BY <1>1, <1>5, <2>1 DEF Rounds
<1> HIDE DEF r
<1>9. r.index <= Len(r.members)
  BY <1>1, <1>3, <1>4
<1>10. IsInjective(r.members)
  BY <1>2, <1>4 DEF RoundShape
<1>11. RoundShape(r)
  BY <1>4, <1>6, <1>7, <1>8, <1>9, <1>10 DEF RoundShape
<1> QED BY <1>11 DEF r

\* What was confirmed stays confirmed while others are read.
LEMMA FreshGoes ==
    ASSUME RoundHeld, NEW m \in asked, NEW ss,
           \A x \in DOMAIN ss \ {m} : x \in DOMAIN samples /\ ss[x] = samples[x]
    PROVE  /\ StillFresh([round EXCEPT !.index = @ + 1, !.sources = round.sources], ss)
           /\ (m \in DOMAIN ss => ss[m] = Never) =>
                 StillFresh([round EXCEPT !.index = @ + 1, !.sources = Append(round.sources, m)], ss)
<1>1. /\ round \in Rounds /\ m \in PvMembers /\ \A i \in DOMAIN round.sources : round.sources[i] # m
  BY AskedIsNext
<1>2. round.sources \in Seq(PvMembers)
  BY <1>1 DEF Rounds
<1>3. StillFresh(round, samples)
  BY DEF RoundHeld
<1>4. \A i \in DOMAIN round.sources : round.sources[i] \in DOMAIN ss => ss[round.sources[i]] = Never
  BY <1>1, <1>3 DEF StillFresh
<1>5. [round EXCEPT !.index = @ + 1, !.sources = round.sources].sources = round.sources
  BY <1>1 DEF Rounds
<1>6. [round EXCEPT !.index = @ + 1, !.sources = Append(round.sources, m)].sources = Append(round.sources, m)
  BY <1>1 DEF Rounds
<1>7. \A i \in DOMAIN Append(round.sources, m) :
         Append(round.sources, m)[i] = m \/ (i \in DOMAIN round.sources /\ Append(round.sources, m)[i] = round.sources[i])
  BY <1>1, <1>2
<1> QED BY <1>4, <1>5, <1>6, <1>7 DEF StillFresh

LEMMA AnswersHold == ASSUME TrackerTyped, RoundHeld, MemberAnswers PROVE RoundHeld'
<1>1. PICK m \in asked :
        /\ Advance([round EXCEPT !.index = @ + 1, !.sources = Append(@, m)], ConfirmedSample(samples, m))
        /\ lostAt' = Lost([lostAt EXCEPT ![m] = Never])
  BY DEF MemberAnswers
<1>2. asked' = {} /\ pvNow' = pvNow
  BY DEF MemberAnswers
<1> DEFINE sources == Append(round.sources, m)
           r == [round EXCEPT !.index = @ + 1, !.sources = sources]
           ss == ConfirmedSample(samples, m)
           since == [lostAt EXCEPT ![m] = Never]
<1>3. m \in PvMembers
  BY AskedIsNext
<1>4. /\ DOMAIN ss = DOMAIN samples \cup {m} /\ ss[m] = Never
      /\ \A x \in DOMAIN ss \ {m} : x \in DOMAIN samples /\ ss[x] = samples[x]
  BY DEF ConfirmedSample
<1>5. Advance(r, ss) /\ lostAt' = Lost(since)
  BY <1>1
<1>6. RoundShape(r) /\ StillFresh(r, ss)
  BY <1>4, NextRound, FreshGoes
<1> HIDE DEF r, ss
<1>7. SamplesOk(ss)
  BY <1>3, <1>4 DEF SamplesOk, RoundHeld
<1>8. Agrees(since, ss)
  <2>1. DOMAIN lostAt = PvMembers /\ Agrees(lostAt, samples) /\ DOMAIN samples \subseteq PvMembers
    BY DEF RoundHeld, SamplesOk
  <2> QED BY <1>3, <1>4, <2>1 DEF Agrees
<1> HIDE DEF since
<1> QED BY <1>2, <1>5, <1>6, <1>7, <1>8, AdvanceHolds

LEMMA UnusableHolds == ASSUME TrackerTyped, RoundHeld, MemberUnusable PROVE RoundHeld'
<1>1. PICK m \in asked : \E added \in {<<>>, <<m>>} :
        /\ Advance([round EXCEPT !.index = @ + 1, !.sources = @ \o added], DropSample(samples, m))
        /\ lostAt' = Lost(lostAt)
  BY DEF MemberUnusable
<1> PICK added \in {<<>>, <<m>>} :
        /\ Advance([round EXCEPT !.index = @ + 1, !.sources = @ \o added], DropSample(samples, m))
        /\ lostAt' = Lost(lostAt)
  BY <1>1
<1>2. asked' = {} /\ pvNow' = pvNow
  BY DEF MemberUnusable
<1> DEFINE sources == round.sources \o added
<1>8. sources \in {round.sources, Append(round.sources, m)}
  <2>1. round.sources \in Seq(PvMembers) /\ m \in PvMembers
    BY AskedIsNext DEF Rounds
  <2>2. round.sources \o <<>> = round.sources /\ round.sources \o <<m>> = Append(round.sources, m)
    BY <2>1
  <2> QED BY <2>2
<1> DEFINE r == [round EXCEPT !.index = @ + 1, !.sources = sources]
           ss == DropSample(samples, m)
<1>3. DOMAIN ss = DOMAIN samples \ {m} /\ \A x \in DOMAIN ss : x \in DOMAIN samples /\ ss[x] = samples[x]
  BY DEF DropSample
<1>4. Advance(r, ss)
  OBVIOUS
<1> HIDE DEF sources
<1>5. RoundShape(r)
  BY <1>8, NextRound
<1>6. StillFresh(r, ss)
  <2>1. m \in DOMAIN ss => ss[m] = Never
    BY <1>3
  <2> QED BY <1>3, <1>8, <2>1, FreshGoes
<1> HIDE DEF r, ss
<1>7. SamplesOk(ss) /\ Agrees(lostAt, ss)
  BY <1>3 DEF SamplesOk, RoundHeld, Agrees
<1> QED BY <1>2, <1>4, <1>5, <1>6, <1>7, AdvanceHolds

LEMMA FailsHold == ASSUME TrackerTyped, RoundHeld, MemberFails PROVE RoundHeld'
<1>1. PICK m \in asked, kind \in {"timeout", "asleep", "error"} :
        /\ Advance([round EXCEPT !.index = @ + 1], FailedSample(samples, m, kind = "timeout"))
        /\ lostAt' = Lost([lostAt EXCEPT ![m] = IF @ = Never THEN pvNow ELSE @])
  BY DEF MemberFails
<1>2. asked' = {} /\ pvNow' = pvNow
  BY DEF MemberFails
<1> DEFINE r == [round EXCEPT !.index = @ + 1, !.sources = round.sources]
           ss == FailedSample(samples, m, kind = "timeout")
           since == [lostAt EXCEPT ![m] = IF @ = Never THEN pvNow ELSE @]
<1>3. m \in PvMembers /\ round \in Rounds
  BY AskedIsNext
<1>4. /\ DOMAIN samples \subseteq PvMembers /\ DOMAIN lostAt = PvMembers /\ Agrees(lostAt, samples)
      /\ \A x \in DOMAIN samples : samples[x] \in PvTimes \cup {Never}
      /\ pvNow \in PvTimes
  BY DEF RoundHeld, SamplesOk, TrackerTyped
<1>5. \A x \in DOMAIN ss \ {m} : x \in DOMAIN samples /\ ss[x] = samples[x]
  BY DEF FailedSample, DropSample
<1>6. m \in DOMAIN ss => /\ m \in DOMAIN samples
                         /\ ss[m] = IF samples[m] = Never THEN pvNow ELSE samples[m]
  BY DEF FailedSample, DropSample
<1>7. Advance(r, ss)
  <2>1. [round EXCEPT !.index = @ + 1] = r
    BY <1>3 DEF Rounds
  <2> QED BY <1>1, <2>1
<1>8. RoundShape(r)
  BY NextRound
<1>9. StillFresh(r, ss)
  BY <1>5, FreshGoes
<1> HIDE DEF r, ss
<1>10. SamplesOk(ss)
  BY <1>3, <1>4, <1>5, <1>6 DEF SamplesOk
<1>11. since[m] = (IF lostAt[m] = Never THEN pvNow ELSE lostAt[m]) /\ \A x \in PvMembers \ {m} : since[x] = lostAt[x]
  BY <1>3, <1>4
<1>12. lostAt' = Lost(since)
  BY <1>1
<1> HIDE DEF since
<1>13. Agrees(since, ss)
  <2> SUFFICES ASSUME NEW x \in DOMAIN ss PROVE since[x] = ss[x]
    BY DEF Agrees
  <2>1. CASE x = m
    BY <1>4, <1>6, <1>11, <2>1 DEF Agrees
  <2>2. CASE x # m
    BY <1>4, <1>5, <1>11, <2>2 DEF Agrees
  <2> QED BY <2>1, <2>2
<1> QED BY <1>2, <1>7, <1>8, <1>9, <1>10, <1>12, <1>13, AdvanceHolds

LEMMA PlannedFacts ==
    ASSUME TrackerTyped, RoundHeld, NEW os
    PROVE  /\ PlanCandidates \subseteq PvMembers
           /\ round # NoRound => PlanMembers(os) = round.members
           /\ round = NoRound => PlanMembers(os) \in Seq(PvMembers) /\ IsInjective(PlanMembers(os))
<1>1. PlanCandidates \subseteq PvMembers
  BY DEF TrackerTyped, PlanCandidates, CandidateTargets
<1>2. {m \in CandidateTargets : ProbeAllowed(os, m)} \in SUBSET PvMembers /\ PvMembers \in SUBSET PvMembers
  BY DEF TrackerTyped, CandidateTargets
<1> QED BY <1>1, <1>2, AscendingFacts DEF PlanMembers

LEMMA PollHolds == ASSUME TrackerTyped, RoundHeld, PollPv PROVE RoundHeld'
<1> DEFINE members == PlanMembers(Maintained.obs)
           kept == RetainMembers(samples, PlanCandidates)
<1>1. /\ asked = {} /\ lostAt' = Lost(lostAt) /\ pvNow' = pvNow /\ advertised' = advertised
      /\ \/ /\ members # <<>> /\ samples' = kept /\ candidates' = PlanCandidates
            /\ SubmitMember(members) /\ pvTotal' = NoTotal
         \/ /\ members = <<>> /\ Complete(NoRound, kept, PlanCandidates) /\ UNCHANGED asked
         \/ /\ members = <<>> /\ pvTotal' = OptionalZero /\ samples' = RetainMembers(kept, advertised)
            /\ round' = NoRound /\ candidates' = {} /\ UNCHANGED asked
  BY DEF PollPv
<1>2. /\ PlanCandidates \subseteq PvMembers /\ (round # NoRound => members = round.members)
      /\ (round = NoRound => members \in Seq(PvMembers) /\ IsInjective(members))
  BY PlannedFacts
<1> HIDE DEF members
<1>3. DOMAIN kept \subseteq DOMAIN samples /\ \A m \in DOMAIN kept : kept[m] = samples[m]
  BY DEF RetainMembers
<1>4. SamplesOk(samples) /\ Agrees(lostAt, samples) /\ RoundShape(round) /\ StillFresh(round, samples)
  BY DEF RoundHeld
<1> HIDE DEF kept
<1>5. SamplesOk(kept) /\ Agrees(lostAt, kept) /\ StillFresh(round, kept)
  BY <1>3, <1>4 DEF SamplesOk, Agrees, StillFresh
<1>6. CASE /\ members # <<>> /\ samples' = kept /\ candidates' = PlanCandidates
           /\ SubmitMember(members) /\ pvTotal' = NoTotal
  <2>1. SamplesOk(samples') /\ DOMAIN lostAt' = PvMembers /\ Agrees(lostAt', samples')
    BY <1>1, <1>3, <1>4, <1>6, LostAgrees
  <2>2. HoldEnds'
    BY <1>6, NoTotalHolds
  <2>3. CASE round # NoRound
    <3>1. round' = round /\ asked' \in {{}, {round.members[round.index + 1]}}
      BY <1>2, <1>6, <2>3 DEF SubmitMember
    <3>2. round.index < Len(round.members)
      BY <2>3 DEF RoundHeld
    <3> QED BY <1>2, <1>4, <1>5, <1>6, <2>1, <2>2, <2>3, <3>1, <3>2 DEF RoundHeld
  <2>4. CASE round = NoRound
    <3> DEFINE r == [NoRound EXCEPT !.members = members]
    <3>1. round' = r /\ asked' \in {{}, {members[round.index + 1]}}
      BY <1>6, <2>4 DEF SubmitMember
    <3>3. members \in Seq(PvMembers) /\ IsInjective(members) /\ Len(members) > 0
      BY <1>2, <1>6, <2>4
    <3>2. NoRound \in Rounds /\ NoRound.held = {} /\ NoRound.sources = <<>> /\ NoRound.index = 0
      BY NoRoundShape DEF RoundShape
    <3>4. RoundShape(r) /\ StillFresh(r, kept) /\ r.index < Len(r.members) /\ r.members = members /\ r.index = 0
      <4>1. r \in Rounds /\ r.held = {} /\ r.members = members /\ r.sources = <<>> /\ r.index = 0
        BY <3>2, <3>3 DEF Rounds
      <4> HIDE DEF r
      <4>2. DOMAIN <<>> = {}
        OBVIOUS
      <4> QED BY <3>3, <4>1, <4>2 DEF RoundShape, StillFresh, IsInjective
    <3> HIDE DEF r
    <3>5. round'.members = members /\ round'.index = 0 /\ round.index = 0
      BY <2>4, <3>1, <3>4, NoRoundShape
    <3>6. round' # NoRound
      BY <1>6, <3>5, NoRoundShape
    <3> QED BY <1>2, <1>6, <2>1, <2>2, <3>1, <3>4, <3>5, <3>6 DEF RoundHeld
  <2> QED BY <2>3, <2>4
<1>7. CASE members = <<>> /\ Complete(NoRound, kept, PlanCandidates) /\ UNCHANGED asked
  <2>1. RoundShape(NoRound) /\ StillFresh(NoRound, kept) /\ asked' = {}
    BY <1>1, <1>7, NoRoundShape
  <2> QED BY <1>1, <1>2, <1>5, <1>7, <2>1, CompleteHolds
<1>8. CASE /\ members = <<>> /\ pvTotal' = OptionalZero /\ samples' = RetainMembers(kept, advertised)
           /\ round' = NoRound /\ candidates' = {} /\ UNCHANGED asked
  <2>1. DOMAIN samples' \subseteq DOMAIN kept /\ \A m \in DOMAIN samples' : samples'[m] = kept[m]
    BY <1>8 DEF RetainMembers
  <2>2. SamplesOk(samples') /\ DOMAIN lostAt' = PvMembers /\ Agrees(lostAt', samples')
    BY <1>1, <1>5, <2>1, LostAgrees
  <2>3. HoldEnds'
    <3>1. OptionalZero.sources = <<>> /\ OptionalZero.held = {}
      BY DEF OptionalZero
    <3>2. DOMAIN <<>> = {}
      OBVIOUS
    <3> QED BY <1>8, <3>1, <3>2 DEF HoldEnds, IsInjective
  <2>4. asked' = {}
    BY <1>1, <1>8
  <2> QED BY <1>8, <2>2, <2>3, <2>4, NoRoundShape DEF RoundHeld
<1> QED BY <1>1, <1>6, <1>7, <1>8

LEMMA OthersHold ==
    ASSUME RoundHeld, UpdateServices \/ TopologySnapshot \/ PvTick
    PROVE  RoundHeld'
<1>1. pvTotal' = NoTotal /\ UNCHANGED <<samples, round, candidates, asked, lostAt>>
  BY DEF UpdateServices, TopologySnapshot, PvTick
<1>2. HoldEnds'
  BY <1>1, NoTotalHolds
<1> QED BY <1>1, <1>2 DEF RoundHeld, StillFresh, SamplesOk, Agrees, RoundShape, Rounds

LEMMA RecordedOk ==
    ASSUME TrackerTyped, NEW m \in PvMembers, NEW after, TrackerOk(after)
    PROVE  /\ TrackerOk(AfterRecord(obs, targets, m, after).obs)
           /\ AfterRecord(obs, targets, m, after).targets \subseteq PvMembers
BY DEF AfterRecord, TrackerTyped

LEMMA TrackerSteps == ASSUME TrackerTyped, RoundHeld, [PvNext]_pvVars PROVE TrackerTyped'
<1> USE DEF TrackerTyped
<1>1. ASSUME UNCHANGED <<pvNow, configured>>, TrackerOk(obs'), advertised' \subseteq PvMembers, targets' \subseteq PvMembers
      PROVE  TrackerTyped'
  <2>1. TrackerOk(obs)'
    BY <1>1 DEF TrackerOk, Observation, PvTimes
  <2> QED BY <1>1, <2>1 DEF PvTimes
<1>2. CASE PollPv
  <2>1. TrackerOk(Maintained.obs) /\ Maintained.targets \subseteq PvMembers
    BY MaintainOk DEF Maintained
  <2> QED BY <1>1, <1>2, <2>1 DEF PollPv
<1>3. ASSUME NEW m \in asked, NEW after, TrackerOk(after), UNCHANGED <<pvNow, configured, advertised>>,
             IF configured THEN UNCHANGED <<obs, targets, evidence, topology>>
             ELSE /\ obs' = AfterRecord(obs, targets, m, after).obs
                  /\ targets' = AfterRecord(obs, targets, m, after).targets
      PROVE  TrackerTyped'
  <2>1. m \in PvMembers
    BY AskedIsNext
  <2>2. TrackerOk(obs') /\ targets' \subseteq PvMembers
    BY <1>3, <2>1, RecordedOk
  <2> QED BY <1>1, <1>3, <2>2
<1>4. CASE MemberAnswers
  <2>1. PICK m \in asked :
          LET rec == AfterRecord(obs, targets, m, RecordValue(obs, m, ActiveSourceIds(advertised)))
          IN  IF configured THEN UNCHANGED <<obs, targets, evidence, topology>>
              ELSE obs' = rec.obs /\ targets' = rec.targets /\ Moved(rec.changed)
    BY <1>4 DEF MemberAnswers
  <2>2. UNCHANGED <<pvNow, configured, advertised>>
    BY <1>4 DEF MemberAnswers
  <2>3. TrackerOk(RecordValue(obs, m, ActiveSourceIds(advertised)))
    BY AskedIsNext, RecordValueOk
  <2> QED BY <1>3, <2>1, <2>2, <2>3
<1>5. CASE MemberFails
  <2>1. PICK m \in asked, kind \in {"timeout", "asleep", "error"} :
          LET rec == AfterRecord(obs, targets, m,
                        RecordError(obs, m, ActiveSourceIds(advertised), kind = "asleep"))
          IN  IF configured THEN UNCHANGED <<obs, targets, evidence, topology>>
              ELSE obs' = rec.obs /\ targets' = rec.targets /\ Moved(rec.changed)
    BY <1>5 DEF MemberFails
  <2>2. UNCHANGED <<pvNow, configured, advertised>>
    BY <1>5 DEF MemberFails
  <2>3. (kind = "asleep") \in BOOLEAN
    OBVIOUS
  <2>4. TrackerOk(RecordError(obs, m, ActiveSourceIds(advertised), kind = "asleep"))
    BY <2>3, AskedIsNext, RecordErrorOk
  <2> QED BY <1>3, <2>1, <2>2, <2>4
<1>6. CASE MemberUnusable
  BY <1>1, <1>6 DEF MemberUnusable
<1>7. CASE UpdateServices
  <2>1. PICK listed \in SUBSET PvMembers :
          LET m == Maintain(obs, targets, ActiveSourceIds(listed))
          IN  advertised' = listed /\ obs' = m.obs /\ targets' = m.targets
    BY <1>7 DEF UpdateServices
  <2>2. UNCHANGED <<pvNow, configured>>
    BY <1>7 DEF UpdateServices
  <2> QED BY <1>1, <2>1, <2>2, MaintainOk
<1>8. CASE TopologySnapshot
  <2>1. LET m == Maintain(obs, targets, ActiveSourceIds(advertised))
        IN  obs' = m.obs /\ targets' = m.targets
    BY <1>8 DEF TopologySnapshot
  <2>2. UNCHANGED <<pvNow, configured, advertised>>
    BY <1>8 DEF TopologySnapshot
  <2> QED BY <1>1, <2>1, <2>2, MaintainOk
<1>9. CASE PvTick
  <2>1. pvNow' \in PvTimes /\ UNCHANGED <<configured, obs, advertised, targets>>
    BY <1>9, PvConstants DEF PvTick, PvTimes
  <2> QED BY <2>1 DEF TrackerOk, Observation, PvTimes
<1>10. CASE UNCHANGED pvVars
  BY <1>1, <1>10 DEF pvVars
<1> QED BY <1>2, <1>4, <1>5, <1>6, <1>7, <1>8, <1>9, <1>10 DEF PvNext

\* A held PV contribution ends with the hold window that its first unanswered
\* read began, and no source enters one sum twice, for any sources, windows,
\* backoffs and capacities, whatever is advertised, answered or lost in between
\* (pv_last_good.py, dbus_adapter/read/executor.py).
THEOREM HoldIsBounded == PvSpec => [](PvTypeOK /\ HoldEnds)
<1>1. PvInit => TrackerTyped /\ RoundHeld
  <2> SUFFICES ASSUME PvInit PROVE TrackerTyped /\ RoundHeld
    OBVIOUS
  <2>1. /\ pvNow = 0 /\ configured \in BOOLEAN /\ advertised = {} /\ obs = <<>> /\ targets = {}
        /\ samples = <<>> /\ round = NoRound /\ candidates = {} /\ asked = {} /\ pvTotal = NoTotal
        /\ lostAt = [m \in PvMembers |-> Never]
    BY DEF PvInit
  <2>2. DOMAIN <<>> = {} /\ Cardinality({}) = 0
    BY FS_EmptySet
  <2>3. TrackerTyped
    BY <2>1, <2>2, PvConstants DEF TrackerTyped, TrackerOk, PvTimes
  <2>4. HoldEnds
    BY <2>1, <2>2 DEF HoldEnds, NoTotal, IsInjective
  <2>5. SamplesOk(samples) /\ Agrees(lostAt, samples) /\ DOMAIN lostAt = PvMembers
    BY <2>1, <2>2 DEF SamplesOk, Agrees
  <2> QED BY <2>1, <2>3, <2>4, <2>5, NoRoundShape DEF RoundHeld
<1>2. TrackerTyped /\ RoundHeld /\ [PvNext]_pvVars => TrackerTyped' /\ RoundHeld'
  <2> SUFFICES ASSUME TrackerTyped, RoundHeld, [PvNext]_pvVars PROVE TrackerTyped' /\ RoundHeld'
    OBVIOUS
  <2>1. TrackerTyped'
    BY TrackerSteps
  <2>2. CASE UNCHANGED pvVars
    BY <2>1, <2>2 DEF pvVars, RoundHeld, HoldEnds, StillFresh, SamplesOk, Agrees, RoundShape, Rounds
  <2>3. CASE PvNext
    BY <2>1, <2>3, AnswersHold, UnusableHolds, FailsHold, PollHolds, OthersHold DEF PvNext
  <2> QED BY <2>1, <2>2, <2>3
<1>3. TrackerTyped /\ RoundHeld => PvTypeOK /\ HoldEnds
  <2> SUFFICES ASSUME TrackerTyped, RoundHeld PROVE PvTypeOK /\ HoldEnds
    OBVIOUS
  <2>1. asked \subseteq PvMembers
    BY AskedIsNext
  <2> QED BY <2>1 DEF TrackerTyped, RoundHeld, TrackerOk, SamplesOk, PvTypeOK
<1> QED BY <1>1, <1>2, <1>3, PTL DEF PvSpec

(***************************************************************************)
(* The gateway's invariant.                                                *)
(***************************************************************************)
\* Each component of the gateway keeps its own invariant, for any samples, storages,
\* bundles, windows and members: types and bounds, evidence of the episode under way,
\* holds that end, one unfinished incident bundle, and a true word about a running
\* update (gx_relay, gateway health, PV reads, forensic observer, boot updater,
\* update client, capacity persistence).
THEOREM GatewayKeeps == BundleSpec => []GatewayInv
<1>1. RelayInv /\ [Next]_vars => RelayInv'
  BY NextInv
<1>2. BundleSpec => []RelayInv
  BY <1>1, InitInv, ComponentsRun, PTL
<1>3. part \in Parts /\ [BundleNext]_bundleVars => (part \in Parts)'
  <2> SUFFICES ASSUME part \in Parts, [BundleNext]_bundleVars PROVE part' \in Parts
    BY DEF Parts
  <2> QED BY BundleSteps
<1>4. BundleSpec => [](part \in Parts)
  BY <1>3, BundleStarts, PTL DEF BundleSpec
<1>5. /\ part \in Parts /\ RelayInv /\ HealthTypeOK /\ HealthFollows /\ PvTypeOK /\ HoldEnds /\ NhTypeOK
      /\ ObsTypeOK /\ UnfinishedIsActive /\ BootTypeOK /\ SwTypeOK /\ RunningIsTrue /\ CeTypeOK
      => GatewayInv
  BY DEF GatewayInv, Parts
<1> QED
  BY <1>2, <1>4, <1>5, ComponentsRun, HealthTypes, HoldIsBounded, NativeHealthTypes, ObserverTypes,
     OneBundlePerEpisode, UpdaterTypes, UpdateTellsTheTruth, CapacityTypes, PTL
=============================================================================
