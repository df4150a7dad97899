------------------------- MODULE MCAdapters_proofs -------------------------
(***************************************************************************)
(* What is proved of the programs around the service, for any constants    *)
(* their assumptions admit: the native adapter and its reader, the         *)
(* auto-input helper and its energy sources, and the charger's I/O worker, *)
(* each for itself and then side by side as MCAdapters runs them.          *)
(***************************************************************************)
EXTENDS MCAdapters, TLAPS, FiniteSetTheorems, SequenceTheorems, WellFoundedInduction

LEMMA LeastIsThere ==
    ASSUME NEW S \in SUBSET Nat, S # {}
    PROVE  \E x \in S : \A y \in S : x <= y
<1> DEFINE R == OpToRel(<, Nat)
<1>0. IsWellFoundedOn(R, Nat)
  BY NatLessThanWellFounded, Zenon
<1>3. S \subseteq Nat
  OBVIOUS
<1>1. PICK x \in S : \A y \in S : ~(<<y, x>> \in R)
  <2> HIDE DEF R
  <2> QED BY <1>0, <1>3, WFMin
<1>2. \A y \in S : ~(y < x)
  BY <1>1 DEF OpToRel
<1> QED BY <1>2


LEMMA PowersAreNumbers ==
    ASSUME NEW n \in 0 .. 30
    PROVE  2 ^ n \in Nat
<1>1. /\ 2^0 \in Nat /\ 2^1 \in Nat /\ 2^2 \in Nat /\ 2^3 \in Nat /\ 2^4 \in Nat /\ 2^5 \in Nat
      /\ 2^6 \in Nat /\ 2^7 \in Nat /\ 2^8 \in Nat /\ 2^9 \in Nat /\ 2^10 \in Nat /\ 2^11 \in Nat
      /\ 2^12 \in Nat /\ 2^13 \in Nat /\ 2^14 \in Nat /\ 2^15 \in Nat /\ 2^16 \in Nat /\ 2^17 \in Nat
      /\ 2^18 \in Nat /\ 2^19 \in Nat /\ 2^20 \in Nat /\ 2^21 \in Nat /\ 2^22 \in Nat /\ 2^23 \in Nat
      /\ 2^24 \in Nat /\ 2^25 \in Nat /\ 2^26 \in Nat /\ 2^27 \in Nat /\ 2^28 \in Nat /\ 2^29 \in Nat
      /\ 2^30 \in Nat
  OBVIOUS
<1>2. \/ n = 0 \/ n = 1 \/ n = 2 \/ n = 3 \/ n = 4 \/ n = 5 \/ n = 6 \/ n = 7
      \/ n = 8 \/ n = 9 \/ n = 10 \/ n = 11 \/ n = 12 \/ n = 13 \/ n = 14 \/ n = 15
      \/ n = 16 \/ n = 17 \/ n = 18 \/ n = 19 \/ n = 20 \/ n = 21 \/ n = 22 \/ n = 23
      \/ n = 24 \/ n = 25 \/ n = 26 \/ n = 27 \/ n = 28 \/ n = 29 \/ n = 30
  OBVIOUS
<1> QED BY <1>1, <1>2, Zenon


JobStages == {"refresh", "manual_read", "manual_write", "output", "output_again", "verify",
              "verify_again", "ess", "discover", "identify", "enabled", "disable"}
SurveyTargets == (NaPaths \cup {"scan"}) \ {""}

\* A survey is asked for under a target's name.
CommandOk(c) == c.kind = "introspect" => c.path \in SurveyTargets
JobOk(j) == j = NoJob \/ j \in [cmd : {j.cmd}, stage : JobStages, at : {j.at}, awaiting : BOOLEAN]

BoxOk == DOMAIN box = NaPaths /\ \A p \in NaPaths : CommandOk(box[p])
BatchOk == naTick \in [pc : {naTick.pc}, pressure : {naTick.pressure}, burst : {naTick.burst},
                       batch : {naTick.batch}]
           /\ \A c \in naTick.batch : CommandOk(c)
WireOk == naWire \in [owner : {naWire.owner}, op : {naWire.op}, answer : {naWire.answer}]
SurveyOk == survey \in [queue : Seq(SurveyTargets), active : SurveyTargets \cup {""}]

NaInv == BoxOk /\ BatchOk /\ WireOk /\ SurveyOk /\ JobOk(job) /\ WaitingIsUnderWay

LEMMA WishFacts ==
    ASSUME NEW w \in NaWishes
    PROVE  w.path \in NaPaths /\ w.path \in SurveyTargets
BY NativeAssumption DEF NativeAssumption, NaPaths, SurveyTargets

LEMMA BoxKeeps ==
    ASSUME BoxOk, NEW p, NEW c, CommandOk(c), box' = [box EXCEPT ![p] = c]
    PROVE  BoxOk'
BY DEF BoxOk, CommandOk, SurveyTargets, NaPaths

LEMMA NoFileOk == CommandOk(NoFile)
BY DEF CommandOk, NoFile

LEMMA FinishedKeeps ==
    ASSUME BoxOk, NEW p, box' = Finished(p)
    PROVE  BoxOk'
BY BoxKeeps, NoFileOk DEF Finished

LEMMA WrittenKeeps ==
    ASSUME BoxOk, NEW w \in NaWishes, NEW n,
           box' = [box EXCEPT ![w.path] = [kind |-> w.kind, path |-> w.path, priority |-> w.priority,
                                           deadline |-> w.deadline, rev |-> n]]
    PROVE  BoxOk'
<1> DEFINE c == [kind |-> w.kind, path |-> w.path, priority |-> w.priority,
                 deadline |-> w.deadline, rev |-> n]
<1>1. CommandOk(c)
  BY WishFacts DEF CommandOk
<1>2. box' = [box EXCEPT ![w.path] = c]
  OBVIOUS
<1> HIDE DEF c
<1> QED BY <1>1, <1>2, BoxKeeps

LEMMA SurveyKeeps ==
    ASSUME NEW q \in Seq(SurveyTargets), NEW a \in SurveyTargets \cup {""},
           survey' = [queue |-> q, active |-> a]
    PROVE  SurveyOk' /\ survey'.active = a
BY DEF SurveyOk

LEMMA QueueFacts ==
    ASSUME NEW q \in Seq(SurveyTargets)
    PROVE  /\ \A t \in SurveyTargets : Append(q, t) \in Seq(SurveyTargets)
           /\ q # <<>> => Tail(q) \in Seq(SurveyTargets) /\ Head(q) \in SurveyTargets
OBVIOUS

\* One more target at the end of the queue.
LEMMA AskedKeeps ==
    ASSUME SurveyOk, NEW t \in SurveyTargets, survey' = [survey EXCEPT !.queue = Append(@, t)]
    PROVE  SurveyOk' /\ survey'.active = survey.active
<1>1. Append(survey.queue, t) \in Seq(SurveyTargets) /\ survey.active \in SurveyTargets \cup {""}
  BY QueueFacts DEF SurveyOk
<1> DEFINE q == Append(survey.queue, t)
<1>2. survey' = [queue |-> q, active |-> survey.active]
  BY DEF SurveyOk
<1> HIDE DEF q
<1> QED BY <1>1, <1>2, SurveyKeeps DEF q

LEMMA NoJobFacts == NoJob.awaiting = FALSE /\ JobOk(NoJob)
BY DEF NoJob, JobOk

LEMMA GotoFacts ==
    ASSUME JobOk(job), NEW s \in JobStages, NEW n
    PROVE  JobOk(Goto(s, n)) /\ Goto(s, n).awaiting = FALSE
<1> DEFINE g == Goto(s, n)
<1>1. g \in [cmd : {g.cmd}, stage : JobStages, at : {g.at}, awaiting : BOOLEAN] /\ g.awaiting = FALSE
  BY DEF Goto, JobOk, NoJob
<1> HIDE DEF g
<1>2. JobOk(g) /\ g.awaiting = FALSE
  BY <1>1 DEF JobOk
<1> QED BY <1>2 DEF g

\* After an answer the command goes on to another operation, or is over.
Next_(n) == n = NoJob \/ \E s \in JobStages, at \in {1, 0, job.at, job.at + 1} : n = Goto(s, at)

LEMMA AfterAnswerFacts ==
    ASSUME JobOk(job), job # NoJob, NEW value
    PROVE  Next_(AfterAnswer(value).next)
<1>0. job.stage \in JobStages
  BY DEF JobOk
<1>1. \A o : Next_(End(o).next)
  BY DEF End, Next_
<1>2. ASSUME NEW s \in JobStages, NEW at \in {1, 0, job.at, job.at + 1}
      PROVE  Next_(Then(s, at).next)
  BY DEF Then, Next_
<1>3. CASE value = FailedAnswer
  <2>1. AfterAnswer(value) = AfterError
    BY <1>3 DEF AfterAnswer
  <2>2. Next_(AfterError.next)
    BY DEF AfterError, Next_, JobStages
  <2> QED BY <2>1, <2>2
<1>4. CASE value # FailedAnswer /\ job.stage \in {"discover", "identify", "enabled"}
  <2>1. AfterAnswer(value) = AfterShellyAnswer(value)
    BY <1>4 DEF AfterAnswer
  <2>2. CASE job.stage = "discover"
    BY <1>1, <1>2, <2>1, <2>2 DEF AfterShellyAnswer, JobStages
  <2>3. CASE job.stage = "identify"
    BY <1>1, <1>2, <2>1, <2>3 DEF AfterShellyAnswer, JobStages
  <2>4. CASE job.stage = "enabled"
    BY <1>1, <1>2, <2>1, <2>4 DEF AfterShellyAnswer, JobStages
  <2> QED BY <1>4, <2>2, <2>3, <2>4
<1>5. CASE value # FailedAnswer /\ job.stage \in {"ess", "disable"}
  BY <1>1, <1>5 DEF AfterAnswer
<1>6. CASE value # FailedAnswer /\ job.stage \in {"refresh", "manual_read", "manual_write", "output",
                                                  "output_again", "verify", "verify_again"}
  <2>1. AfterAnswer(value) = AfterRelayAnswer(value)
    BY <1>6 DEF AfterAnswer
  <2>2. CASE job.stage = "refresh"
    BY <1>1, <2>1, <2>2 DEF AfterRelayAnswer
  <2>3. CASE job.stage \in {"manual_read", "manual_write", "output", "output_again"}
    BY <1>2, <2>1, <2>3 DEF AfterRelayAnswer, JobStages
  <2>4. CASE job.stage \in {"verify", "verify_again"}
    <3>1. AfterRelayAnswer(value) = Verified(value)
      BY <2>4 DEF AfterRelayAnswer
    <3>2. Next_(Verified(value).next)
      BY <2>4 DEF Verified, Next_, JobStages
    <3> QED BY <2>1, <3>1, <3>2
  <2> QED BY <1>6, <2>2, <2>3, <2>4
<1> QED BY <1>0, <1>3, <1>4, <1>5, <1>6 DEF JobStages

LEMMA NextFacts ==
    ASSUME JobOk(job), NEW n, Next_(n)
    PROVE  JobOk(n) /\ n.awaiting = FALSE
BY NoJobFacts, GotoFacts DEF Next_

LEMMA FirstStageFacts == \A kind : FirstStage(kind) \in JobStages \cup {"rejected"}
BY DEF FirstStage, JobStages

\* A result is taken up, and the wire is free again.
LEMMA PollKeeps == ASSUME NaInv, PollBroker PROVE NaInv'
<1>1. BatchOk'
  BY DEF NaInv, BatchOk, PollBroker
<1>2. CASE naWire.answer = NoAnswer
  BY <1>1, <1>2 DEF NaInv, PollBroker, BoxOk, WireOk, SurveyOk, JobOk, WaitingIsUnderWay
<1>3. CASE naWire' = NoWire
  <2>1. WireOk' /\ naWire'.owner = "none"
    BY <1>3 DEF WireOk, NoWire
  <2>2. CASE naWire.owner = "command" /\ CommandAnswered
    <3>1. job.awaiting /\ job # NoJob
      BY <2>2, NoJobFacts DEF NaInv, WaitingIsUnderWay
    <3>2. job' = AfterAnswer(naWire.answer).next /\ survey' = survey
      BY <2>2 DEF CommandAnswered
    <3>3. JobOk(job') /\ job'.awaiting = FALSE
      BY <3>1, <3>2, AfterAnswerFacts, NextFacts DEF NaInv
    <3>4. BoxOk'
      BY <2>2, FinishedKeeps DEF CommandAnswered, NaInv, BoxOk
    <3>5. survey'.active = "" /\ SurveyOk'
      BY <2>2, <3>2 DEF NaInv, WaitingIsUnderWay, SurveyOk
    <3> QED BY <1>1, <2>1, <3>3, <3>4, <3>5 DEF NaInv, WaitingIsUnderWay
  <2>3. CASE naWire.owner = "introspection" /\ SurveyAnswered
    <3>1. job' = job /\ job.awaiting = FALSE
      BY <2>3, NoJobFacts DEF SurveyAnswered, NaInv, WaitingIsUnderWay, JobOk
    <3>2. survey'.active = "" /\ SurveyOk'
      BY <2>3 DEF SurveyAnswered, NaInv, SurveyOk
    <3>3. box' = box \/ box' = [box EXCEPT ![survey.active] = NoFile]
      BY <2>3 DEF SurveyAnswered
    <3>4. BoxOk'
      BY <3>3, BoxKeeps, NoFileOk DEF NaInv, BoxOk
    <3> QED BY <1>1, <2>1, <3>1, <3>2, <3>4 DEF NaInv, WaitingIsUnderWay
  <2>4. CASE naWire.owner = "reader" /\ UNCHANGED <<box, job, survey>>
    BY <1>1, <2>1, <2>4 DEF NaInv, WaitingIsUnderWay, BoxOk, SurveyOk
  <2> QED BY <1>3, <2>2, <2>3, <2>4, <1>2 DEF PollBroker
<1> QED BY <1>2, <1>3 DEF PollBroker

\* The files as they are now.
LEMMA ScanKeeps == ASSUME NaInv, Scan PROVE NaInv'
<1>1. UNCHANGED <<box, naWire, survey, job>>
  BY DEF Scan
<1>2. naTick' \in [pc : {naTick'.pc}, pressure : {naTick'.pressure}, burst : {naTick'.burst},
                   batch : {naTick'.batch}]
  BY DEF Scan, NaInv, BatchOk
<1>3. naTick'.batch \subseteq naTick.batch \cup {box[p] : p \in NaPaths}
  BY DEF Scan, NaInv, BatchOk
<1>4. BatchOk'
  BY <1>2, <1>3 DEF NaInv, BatchOk, BoxOk
<1> QED BY <1>1, <1>4 DEF NaInv, BoxOk, WireOk, SurveyOk, WaitingIsUnderWay

\* A command of the scan: taken off the batch, whatever becomes of it.
LEMMA WorkPasses == ASSUME NaInv, WorkStep PROVE NaInv'
<1>1. PICK aged \in BOOLEAN, c \in naTick.batch :
        /\ \/ box' = box
           \/ box' = Finished(c.path)
        /\ \/ UNCHANGED <<job, survey>>
           \/ IntrospectTurn(c)
           \/ CommandTurn(c)
        /\ naTick' = [naTick EXCEPT !.batch = {}] \/ Taken(c)
  BY DEF WorkStep, Rejected, Skipped, PublicationTurn, RefreshTurn, IntrospectTurn, CommandTurn
<1>2. naWire' = naWire /\ WireOk'
  BY DEF WorkStep, NaInv, WireOk
<1>3. BoxOk'
  BY <1>1, FinishedKeeps DEF NaInv, BoxOk
<1>4. BatchOk'
  BY <1>1 DEF NaInv, BatchOk, Taken
<1>5. CASE UNCHANGED <<job, survey>>
  BY <1>2, <1>3, <1>4, <1>5 DEF NaInv, SurveyOk, WaitingIsUnderWay
<1>6. CASE IntrospectTurn(c)
  <2>1. c.path \in SurveyTargets
    BY <1>6 DEF IntrospectTurn, NaInv, BatchOk, CommandOk
  <2>2. SurveyOk' /\ survey'.active = survey.active /\ job' = job
    BY <1>6, <2>1, AskedKeeps DEF IntrospectTurn, NaInv, SurveyOk
  <2> QED BY <1>2, <1>3, <1>4, <2>2 DEF NaInv, WaitingIsUnderWay
<1>7. CASE CommandTurn(c) /\ job' # job
  <2> DEFINE j == [cmd |-> c, stage |-> FirstStage(c.kind), at |-> 1, awaiting |-> FALSE]
  <2>1. job = NoJob /\ job' = j /\ survey' = survey /\ FirstStage(c.kind) # "rejected"
    BY <1>7 DEF CommandTurn, Skipped
  <2>2. FirstStage(c.kind) \in JobStages
    BY <2>1, FirstStageFacts
  <2>3. JobOk(j) /\ j.awaiting = FALSE
    BY <2>2 DEF JobOk
  <2> HIDE DEF j
  <2> QED BY <1>2, <1>3, <1>4, <2>1, <2>3, NoJobFacts DEF NaInv, SurveyOk, WaitingIsUnderWay
<1>8. CASE CommandTurn(c) /\ job' = job
  <2>1. survey' = survey
    BY <1>8 DEF CommandTurn, Skipped
  <2> QED BY <1>2, <1>3, <1>4, <1>8, <2>1 DEF NaInv, SurveyOk, WaitingIsUnderWay
<1> QED BY <1>1, <1>5, <1>6, <1>7, <1>8

\* The next operation goes out, or is not due yet.
LEMMA ScheduleKeeps == ASSUME NaInv, ScheduleOperation PROVE NaInv'
<1>1. BatchOk' /\ BoxOk'
  BY DEF ScheduleOperation, Between, NaInv, BatchOk, BoxOk
<1>2. CASE UNCHANGED <<job, naWire, survey>>
  BY <1>1, <1>2 DEF NaInv, WireOk, SurveyOk, WaitingIsUnderWay
<1>3. CASE naWire = NoWire /\ ~UNCHANGED <<job, naWire, survey>>
  <2>1. /\ naWire.owner = "none" /\ job.awaiting = FALSE /\ survey.active = ""
    BY <1>3, NoJobFacts DEF NoWire, NaInv, WaitingIsUnderWay, JobOk
  <2>2. ASSUME NEW o, NEW p, Submit(o, p) PROVE WireOk' /\ naWire'.owner = o
    BY <2>2 DEF Submit, WireOk
  <2>3. CASE ScheduleCommand
    <3>1. job # NoJob /\ job' = [job EXCEPT !.awaiting = TRUE] /\ survey' = survey
      BY <2>3 DEF ScheduleCommand, JobDue, JobReady
    <3>2. JobOk(job') /\ job'.awaiting = TRUE
      BY <3>1 DEF NaInv, JobOk
    <3>3. WireOk' /\ naWire'.owner = "command"
      BY <2>2, <2>3 DEF ScheduleCommand
    <3> QED BY <1>1, <2>1, <3>1, <3>2, <3>3 DEF NaInv, SurveyOk, WaitingIsUnderWay
  <2>4. CASE /\ job' = IF JobReady THEN SubmissionFailed(OperationOf(job.stage)) ELSE job
             /\ ScheduleReader \/ ScheduleSurvey \/ UNCHANGED <<naWire, running, survey>>
    <3>1. JobOk(job') /\ job'.awaiting = FALSE
      BY <2>1, <2>4 DEF NaInv, JobOk, JobReady, SubmissionFailed
    <3>2. CASE ScheduleReader
      <4>1. WireOk' /\ naWire'.owner = "reader" /\ survey' = survey
        BY <2>2, <3>2 DEF ScheduleReader
      <4> QED BY <1>1, <2>1, <3>1, <4>1 DEF NaInv, SurveyOk, WaitingIsUnderWay
    <3>3. CASE UNCHANGED <<naWire, survey>>
      BY <1>1, <2>1, <3>1, <3>3 DEF NaInv, SurveyOk, WireOk, WaitingIsUnderWay
    <3>4. CASE ScheduleSurvey /\ "introspect" \notin running
      <4>1. /\ WireOk' /\ naWire'.owner = "introspection" /\ survey.queue # <<>>
            /\ survey' = [queue |-> Tail(survey.queue), active |-> Head(survey.queue)]
        BY <2>2, <3>4 DEF ScheduleSurvey
      <4>2. SurveyOk' /\ survey'.active # ""
        <5>1. survey.queue \in Seq(SurveyTargets)
          BY DEF NaInv, SurveyOk
        <5>2. Tail(survey.queue) \in Seq(SurveyTargets) /\ Head(survey.queue) \in SurveyTargets
          BY <4>1, <5>1, QueueFacts
        <5>3. Head(survey.queue) # ""
          BY <5>2 DEF SurveyTargets
        <5> QED BY <4>1, <5>2, <5>3, SurveyKeeps
      <4> QED BY <1>1, <3>1, <4>1, <4>2 DEF NaInv, WaitingIsUnderWay
    <3>5. CASE ScheduleSurvey /\ "introspect" \in running
      BY <3>3, <3>5 DEF ScheduleSurvey
    <3> QED BY <2>4, <3>2, <3>3, <3>4, <3>5
  <2> QED BY <1>3, <2>3, <2>4 DEF ScheduleOperation
<1> QED BY <1>2, <1>3 DEF ScheduleOperation

LEMMA AdapterStep == ASSUME NaInv, [NaNext]_naVars PROVE NaInv'
<1>1. CASE UNCHANGED <<box, naTick, naWire, survey, job>>
  BY <1>1 DEF NaInv, BoxOk, BatchOk, WireOk, SurveyOk, WaitingIsUnderWay
<1>2. CASE StartTick \/ FastStep \/ FastDone \/ WorkDone
  <2>1. UNCHANGED <<box, naWire, survey, job>>
    BY <1>2 DEF StartTick, FastStep, FastDone, WorkDone
  <2>2. BatchOk'
    BY <1>2 DEF StartTick, FastStep, FastDone, WorkDone, NaInv, BatchOk
  <2> QED BY <2>1, <2>2 DEF NaInv, BoxOk, WireOk, SurveyOk, WaitingIsUnderWay
<1>3. CASE FullScan
  <2>1. survey' = [survey EXCEPT !.queue = Append(@, "scan")] /\ UNCHANGED <<box, naTick, naWire, job>>
    BY <1>3 DEF FullScan
  <2>2. SurveyOk' /\ survey'.active = survey.active
    <3>1. "scan" \in SurveyTargets
      BY DEF SurveyTargets
    <3> QED BY <2>1, <3>1, AskedKeeps DEF NaInv
  <2> QED BY <2>1, <2>2 DEF NaInv, BoxOk, BatchOk, WireOk, WaitingIsUnderWay
<1>4. CASE WorkerAnswers
  <2>1. PICK answer : naWire' = [naWire EXCEPT !.answer = answer]
    BY <1>4 DEF WorkerAnswers
  <2>2. WireOk' /\ naWire'.owner = naWire.owner
    BY <2>1 DEF NaInv, WireOk
  <2>3. UNCHANGED <<box, naTick, survey, job>>
    BY <1>4 DEF WorkerAnswers
  <2> QED BY <2>2, <2>3 DEF NaInv, BoxOk, BatchOk, SurveyOk, WaitingIsUnderWay
<1>5. CASE WriteCommand \/ SendFast
  <2>1. UNCHANGED <<naTick, naWire, survey, job>>
    BY <1>5 DEF WriteCommand, SendFast
  <2>2. box' = box \/ \E w \in NaWishes, n \in {revision + 1} :
           box' = [box EXCEPT ![w.path] = [kind |-> w.kind, path |-> w.path, priority |-> w.priority,
                                           deadline |-> w.deadline, rev |-> n]]
    BY <1>5 DEF WriteCommand, SendFast
  <2>3. BoxOk'
    BY <2>2, WrittenKeeps DEF NaInv, BoxOk
  <2> QED BY <2>1, <2>3 DEF NaInv, BatchOk, WireOk, SurveyOk, WaitingIsUnderWay
<1>6. CASE TimerRunsOut
  BY <1>1, <1>6 DEF TimerRunsOut
<1> QED BY <1>1, <1>2, <1>3, <1>4, <1>5, <1>6, PollKeeps, ScanKeeps, WorkPasses, ScheduleKeeps
        DEF NaNext, naVars

LEMMA AdapterStarts == ASSUME NaInit PROVE NaInv
<1>1. BoxOk
  BY NoFileOk DEF NaInit, BoxOk
<1>2. BatchOk /\ WireOk
  BY DEF NaInit, Between, BatchOk, NoWire, WireOk
<1>4. SurveyOk
  <2>1. <<>> \in Seq(SurveyTargets)
    OBVIOUS
  <2> QED BY <2>1 DEF NaInit, SurveyOk
<1>3. JobOk(job) /\ WaitingIsUnderWay
  BY NoJobFacts DEF NaInit, NoWire, WaitingIsUnderWay
<1> QED BY <1>1, <1>2, <1>3, <1>4 DEF NaInv

\* No command of the native adapter stays marked as waiting without an operation of its
\* own under way, so none blocks the commands behind it; surveys likewise
\* (operation_cycle.rs, schedule_operation and its failed submission).
THEOREM WaitingIsAnswered == NaSpec => []WaitingIsUnderWay
<1>1. NaInit => NaInv
  BY AdapterStarts
<1>2. NaInv /\ [NaNext]_naVars => NaInv'
  BY AdapterStep
<1>3. NaInv => WaitingIsUnderWay
  BY DEF NaInv
<1> QED BY <1>1, <1>2, <1>3, PTL DEF NaSpec

(***************************************************************************)
(* The types of the adapter: what the files, the fast queue, the batch and *)
(* the job hold was written once, with a revision already issued.          *)
(***************************************************************************)
Commands_(n) == [kind : {w.kind : w \in NaWishes}, path : NaPaths, priority : {w.priority : w \in NaWishes},
                 deadline : {w.deadline : w \in NaWishes}, rev : 1 .. n]
Written_ == Commands_(revision)
JobTyped(j) ==
    j # NoJob => j.cmd \in Written_ /\ j.stage \in JobStages
                 /\ (j.stage \in {"manual_read", "manual_write"} => j.at \in ManualPaths)
Timers == {"read", "write", "introspect", "budget", "retry", "pause"}
Noted == [NaFields -> 0 .. revision]
RegistryTyped(r) ==
    r \in [registered : {r.registered}, orders : Noted, shown : Noted, index : {r.index}]
RelayTyped(g) == g \in [relay : {0, 1}, manual : SUBSET ManualPaths, seen : {0, 1, Unread}]

NaTyped ==
    /\ NaInv
    /\ revision \in Nat
    /\ \A p \in NaPaths : box[p] = NoFile \/ (box[p] \in Written_ /\ box[p].path = p)
    /\ naTick.batch \subseteq Written_
    /\ fastQueue \in Seq(Written_) /\ Len(fastQueue) <= FastCapacity
    /\ JobTyped(job) /\ RelayTyped(gx) /\ RegistryTyped(registry)
    /\ naWire.owner \in {"none", "command", "introspection", "reader"}
    /\ running \subseteq Timers /\ used \in [Classes -> Nat]
    /\ handled \subseteq 0 .. revision

\* What holds of the commands written so far holds when more are written.
LEMMA RevisionGrows ==
    ASSUME NEW m \in Nat, NEW n \in Nat, m <= n
    PROVE  Commands_(m) \subseteq Commands_(n) /\ Seq(Commands_(m)) \subseteq Seq(Commands_(n))
           /\ 0 .. m \subseteq 0 .. n /\ [NaFields -> 0 .. m] \subseteq [NaFields -> 0 .. n]
<1>1. 1 .. m \subseteq 1 .. n /\ 0 .. m \subseteq 0 .. n
  OBVIOUS
<1>2. Commands_(m) \subseteq Commands_(n)
  BY <1>1 DEF Commands_
<1> QED BY <1>1, <1>2

LEMMA WishWritten ==
    ASSUME NEW w \in NaWishes, NEW n \in Nat \ {0}
    PROVE  [kind |-> w.kind, path |-> w.path, priority |-> w.priority, deadline |-> w.deadline, rev |-> n]
             \in Commands_(n)
<1>1. w.path \in NaPaths
  BY DEF NaPaths
<1>2. n \in 1 .. n
  OBVIOUS
<1> QED BY <1>1, <1>2 DEF Commands_

\* A publication is applied, deferred or kept.
LEMMA PublicationTyped ==
    ASSUME revision \in Nat, RegistryTyped(registry), NEW c \in Written_, NEW outcome, ApplyPublication(c, outcome)
    PROVE  RegistryTyped(registry')
<1> DEFINE raised == [f \in NaFields |-> IF f \in AcceptedFields(c) THEN c.rev ELSE registry.orders[f]]
           told_ == [f \in NaFields |-> IF f \in AcceptedFields(c) THEN c.rev ELSE registry.shown[f]]
           part_(done) == [f \in NaFields |-> IF f \in done THEN c.rev ELSE registry.shown[f]]
<1>1. c.rev \in 0 .. revision
  BY DEF Written_, Commands_
<1>2. registry.orders \in Noted /\ registry.shown \in Noted
  BY DEF RegistryTyped
<1>3. raised \in Noted /\ told_ \in Noted /\ \A done : part_(done) \in Noted
  BY <1>1, <1>2 DEF Noted
<1>4. CASE registry' = registry
  BY <1>4
<1>5. CASE RegisterService(c)
  <2>1. [f \in NaFields |-> c.rev] \in Noted
    BY <1>1 DEF Noted
  <2> DEFINE all == [f \in NaFields |-> c.rev]
  <2>2. registry' = [registry EXCEPT !.registered = TRUE, !.shown = all]
    BY <1>5 DEF RegisterService
  <2> HIDE DEF all
  <2> QED BY <2>1, <2>2 DEF RegistryTyped, all
<1>6. CASE PublishFails(c)
  <2>1. PICK done \in SUBSET AcceptedFields(c) : registry' = [registry EXCEPT !.orders = raised, !.shown = part_(done)]
    BY <1>6 DEF PublishFails
  <2> DEFINE shown == part_(done)
  <2>2. shown \in Noted
    BY <1>3
  <2>3. registry' = [registry EXCEPT !.orders = raised, !.shown = shown]
    BY <2>1
  <2> HIDE DEF raised, shown
  <2> QED BY <1>3, <2>2, <2>3 DEF RegistryTyped
<1>7. CASE PublishSucceeds(c)
  <2> DEFINE i == IF AcceptedFields(c) = {} THEN registry.index ELSE (registry.index + 1) % 256
  <2>1. registry' = [registry EXCEPT !.orders = raised, !.shown = told_, !.index = i]
    BY <1>7 DEF PublishSucceeds
  <2> HIDE DEF raised, told_, i
  <2> QED BY <1>3, <2>1 DEF RegistryTyped
<1> QED BY <1>4, <1>5, <1>6, <1>7 DEF ApplyPublication

LEMMA AttemptTyped ==
    ASSUME running \subseteq Timers, used \in [Classes -> Nat], NEW c, RecordAttempt(c)
    PROVE  running' \subseteq Timers /\ used' \in [Classes -> Nat]
<1>1. running' \subseteq Timers
  BY DEF RecordAttempt, Timers
<1> DEFINE class == CommandQueueClass(c)
           n == used[class] + 1
<1>2. used' = [used EXCEPT ![class] = n]
  BY DEF RecordAttempt
<1>3. class \in Classes => n \in Nat
  OBVIOUS
<1> HIDE DEF n, class
<1>4. used' \in [Classes -> Nat]
  BY <1>2, <1>3
<1> QED BY <1>1, <1>4

\* A step that changes none of the commands: what the commands are stays.
LEMMA TypedStep ==
    ASSUME NaTyped, NaInv', revision' = revision,
           \A p \in NaPaths : box'[p] = NoFile \/ (box'[p] \in Written_ /\ box'[p].path = p),
           naTick'.batch \subseteq Written_,
           fastQueue' \in Seq(Written_), Len(fastQueue') <= FastCapacity,
           JobTyped(job'), RelayTyped(gx'), RegistryTyped(registry'),
           naWire'.owner \in {"none", "command", "introspection", "reader"},
           running' \subseteq Timers, used' \in [Classes -> Nat], handled' \subseteq 0 .. revision
    PROVE  NaTyped'
BY DEF NaTyped, Written_, Commands_, JobTyped, RelayTyped, RegistryTyped, Noted

LEMMA FinishedTyped ==
    ASSUME NaTyped, NEW p, box' = [box EXCEPT ![p] = NoFile]
    PROVE  \A q \in NaPaths : box'[q] = NoFile \/ (box'[q] \in Written_ /\ box'[q].path = q)
BY DEF NaTyped, NaInv, BoxOk

\* After an answer: the settings of the relay are asked for one by one.
LEMMA AfterAnswerTyped ==
    ASSUME JobOk(job), JobTyped(job), job # NoJob, NEW value
    PROVE  JobTyped(AfterAnswer(value).next)
<1>0. job.stage \in JobStages
  BY DEF JobOk
<1>1. JobTyped(NoJob) /\ \A o : JobTyped(End(o).next)
  BY DEF End, JobTyped
<1>2. ASSUME NEW s \in JobStages, NEW at, s \in {"manual_read", "manual_write"} => at \in ManualPaths
      PROVE  JobTyped(Goto(s, at)) /\ JobTyped(Then(s, at).next)
  <2> DEFINE g == Goto(s, at)
  <2>1. g.cmd = job.cmd /\ g.stage = s /\ g.at = at
    BY DEF Goto, JobOk
  <2>2. JobTyped(g)
    <3> HIDE DEF g
    <3> QED BY <1>2, <2>1 DEF JobTyped
  <2> QED BY <2>2 DEF Then
<1>3. CASE value = FailedAnswer
  <2>1. AfterAnswer(value) = AfterError
    BY <1>3 DEF AfterAnswer
  <2>2. JobTyped(AfterError.next)
    BY <1>1, <1>2 DEF AfterError, JobStages
  <2> QED BY <2>1, <2>2
<1>4. CASE value # FailedAnswer /\ job.stage \in {"discover", "identify", "enabled"}
  <2>1. AfterAnswer(value) = AfterShellyAnswer(value)
    BY <1>4 DEF AfterAnswer
  <2>2. CASE job.stage = "discover"
    BY <1>1, <1>2, <2>1, <2>2 DEF AfterShellyAnswer, JobStages
  <2>3. CASE job.stage = "identify"
    BY <1>1, <1>2, <2>1, <2>3 DEF AfterShellyAnswer, JobStages
  <2>4. CASE job.stage = "enabled"
    BY <1>1, <1>2, <2>1, <2>4 DEF AfterShellyAnswer, JobStages
  <2> QED BY <1>4, <2>2, <2>3, <2>4
<1>5. CASE value # FailedAnswer /\ job.stage \in {"ess", "disable"}
  BY <1>1, <1>5 DEF AfterAnswer
<1>6. CASE value # FailedAnswer /\ job.stage \in {"refresh", "manual_read", "manual_write", "output",
                                                  "output_again", "verify", "verify_again"}
  <2>1. AfterAnswer(value) = AfterRelayAnswer(value)
    BY <1>6 DEF AfterAnswer
  <2>2. CASE job.stage = "refresh"
    BY <1>1, <2>1, <2>2 DEF AfterRelayAnswer
  <2>3. CASE job.stage = "manual_read"
    <3>1. job.at \in ManualPaths
      BY <2>3 DEF JobTyped
    <3>2. AfterRelayAnswer(value) = Then(IF value = 1 THEN "output" ELSE "manual_write", job.at)
      BY <2>3 DEF AfterRelayAnswer
    <3> QED BY <1>2, <2>1, <3>1, <3>2 DEF JobStages
  <2>4. CASE job.stage \in {"manual_write", "output", "output_again"}
    BY <1>2, <2>1, <2>4 DEF AfterRelayAnswer, JobStages
  <2>5. CASE job.stage \in {"verify", "verify_again"}
    <3>1. AfterRelayAnswer(value) = Verified(value)
      BY <2>5 DEF AfterRelayAnswer
    <3>2. JobTyped(Verified(value).next)
      BY <1>1, <1>2, <2>5 DEF Verified, JobStages
    <3> QED BY <2>1, <3>1, <3>2
  <2> QED BY <1>6, <2>2, <2>3, <2>4, <2>5
<1> QED BY <1>0, <1>3, <1>4, <1>5, <1>6 DEF JobStages

LEMMA OwnerFacts ==
    ASSUME NaTyped
    PROVE  /\ naWire.owner = "command" => job # NoJob
           /\ naWire.owner = "introspection" => survey.active \in SurveyTargets
BY NoJobFacts DEF NaTyped, NaInv, WaitingIsUnderWay, SurveyOk

\* The relay as the answer shows it.
LEMMA ShownTyped ==
    ASSUME RelayTyped(gx), CommandAnswered
    PROVE  RelayTyped(gx')
<1> DEFINE n == IF naWire.answer \in {0, 1} THEN naWire.answer ELSE Unread
<1>1. gx' = gx \/ gx' = [gx EXCEPT !.seen = n]
  BY DEF CommandAnswered
<1>2. n \in {0, 1, Unread}
  OBVIOUS
<1> HIDE DEF n
<1> QED BY <1>1, <1>2 DEF RelayTyped

LEMMA PollTyped == ASSUME NaTyped, PollBroker PROVE NaTyped'
<1>1. NaInv'
  BY PollKeeps DEF NaTyped
<1>2. UNCHANGED <<fastQueue, registry, used, revision>> /\ naTick'.batch = naTick.batch
  BY DEF PollBroker, NaTyped, NaInv, BatchOk
<1>3. naWire'.owner \in {"none", "command", "introspection", "reader"}
  BY DEF PollBroker, NaTyped, NoWire
<1>4. CASE UNCHANGED <<box, job, gx, running, handled>>
  BY <1>1, <1>2, <1>3, <1>4, TypedStep DEF NaTyped
<1>5. CASE naWire.owner = "command" /\ CommandAnswered
  <2>1. job # NoJob /\ JobOk(job) /\ JobTyped(job)
    BY <1>5, OwnerFacts DEF NaTyped, NaInv
  <2>2. JobTyped(job')
    BY <1>5, <2>1, AfterAnswerTyped DEF CommandAnswered
  <2>3. RelayTyped(gx')
    BY <1>5, ShownTyped DEF NaTyped
  <2>4. running' \subseteq Timers
    BY <1>5 DEF CommandAnswered, Timers, NaTyped
  <2>5. \A q \in NaPaths : box'[q] = NoFile \/ (box'[q] \in Written_ /\ box'[q].path = q)
    <3>1. box' = box \/ box' = [box EXCEPT ![job.cmd.path] = NoFile]
      BY <1>5 DEF CommandAnswered, Finished
    <3> QED BY <3>1, FinishedTyped DEF NaTyped
  <2>6. handled' \subseteq 0 .. revision
    <3>1. job.cmd.rev \in 0 .. revision
      BY <2>1 DEF JobTyped, Written_, Commands_, NaTyped
    <3> QED BY <1>5, <3>1 DEF CommandAnswered, NaTyped
  <2> QED BY <1>1, <1>2, <1>3, <2>2, <2>3, <2>4, <2>5, <2>6, TypedStep DEF NaTyped
<1>6. CASE naWire.owner = "introspection" /\ SurveyAnswered
  <2>1. survey.active \in SurveyTargets
    BY <1>6, OwnerFacts
  <2>2. \A q \in NaPaths : box'[q] = NoFile \/ (box'[q] \in Written_ /\ box'[q].path = q)
    BY <1>6, FinishedTyped DEF SurveyAnswered, NaTyped
  <2>3. handled' \subseteq 0 .. revision
    <3>1. CASE handled' = handled
      BY <1>6, <3>1 DEF SurveyAnswered, NaTyped
    <3>2. CASE survey.active # "scan" /\ handled' = handled \cup {box[survey.active].rev}
      <4>1. survey.active \in NaPaths
        BY <2>1, <3>2 DEF SurveyTargets
      <4>2. box[survey.active].rev \in 0 .. revision
        <5>1. box[survey.active] = NoFile \/ box[survey.active] \in Written_
          BY <4>1 DEF NaTyped
        <5>2. NoFile.rev = 0 /\ revision \in Nat
          BY DEF NoFile, NaTyped
        <5>3. \A c \in Written_ : c.rev \in 1 .. revision
          BY DEF Written_, Commands_
        <5> QED BY <5>1, <5>2, <5>3
      <4> QED BY <1>6, <3>2, <4>2 DEF SurveyAnswered, NaTyped
    <3> QED BY <1>6, <3>1, <3>2 DEF SurveyAnswered
  <2> QED BY <1>1, <1>2, <1>3, <1>6, <2>2, <2>3, TypedStep DEF NaTyped, SurveyAnswered
<1> QED BY <1>4, <1>5, <1>6 DEF PollBroker

LEMMA ScanTyped == ASSUME NaTyped, Scan PROVE NaTyped'
<1>1. NaInv'
  BY ScanKeeps DEF NaTyped
<1>2. naTick'.batch \subseteq Written_
  <2>1. naTick'.batch \in {naTick.batch, {box[p] : p \in NaPaths} \ {NoFile}}
    BY DEF Scan, NaTyped, NaInv, BatchOk
  <2> QED BY <2>1 DEF NaTyped
<1>3. UNCHANGED <<box, fastQueue, job, naWire, gx, registry, running, used, revision, handled>>
  BY DEF Scan
<1> QED BY <1>1, <1>2, <1>3, TypedStep DEF NaTyped

\* A publication of the fast queue.
LEMMA FastTyped == ASSUME NaTyped, FastStep PROVE NaTyped'
<1>1. NaInv'
  BY AdapterStep DEF NaTyped, NaNext
<1>2. UNCHANGED <<box, job, naWire, gx, revision, handled>> /\ naTick'.batch = naTick.batch
  BY DEF FastStep, NaTyped, NaInv, BatchOk
<1>3. fastQueue # <<>> /\ fastQueue' \in {fastQueue, Tail(fastQueue)}
  BY DEF FastStep
<1>4. fastQueue' \in Seq(Written_) /\ Len(fastQueue') <= FastCapacity /\ Head(fastQueue) \in Written_
  <2>1. fastQueue \in Seq(Written_) /\ Len(fastQueue) <= FastCapacity /\ FastCapacity \in Nat
    BY NativeAssumption DEF NaTyped, NativeAssumption
  <2>2. Tail(fastQueue) \in Seq(Written_) /\ Len(Tail(fastQueue)) = Len(fastQueue) - 1 /\ Len(fastQueue) \in Nat
        /\ Head(fastQueue) \in Written_
    BY <1>3, <2>1
  <2> QED BY <1>3, <2>1, <2>2
<1>5. \/ UNCHANGED <<registry, used, running>>
      \/ /\ RecordAttempt(Head(fastQueue))
         /\ \E outcome \in {"applied", "kept"} : ApplyPublication(Head(fastQueue), outcome)
  BY DEF FastStep
<1>6. RegistryTyped(registry') /\ running' \subseteq Timers /\ used' \in [Classes -> Nat]
  <2>1. CASE UNCHANGED <<registry, used, running>>
    BY <2>1 DEF NaTyped
  <2>2. CASE /\ RecordAttempt(Head(fastQueue))
             /\ \E outcome \in {"applied", "kept"} : ApplyPublication(Head(fastQueue), outcome)
    BY <1>4, <2>2, AttemptTyped, PublicationTyped DEF NaTyped
  <2> QED BY <1>5, <2>1, <2>2
<1> QED BY <1>1, <1>2, <1>4, <1>6, TypedStep DEF NaTyped

\* A command of the batch.
LEMMA WorkTyped == ASSUME NaTyped, WorkStep PROVE NaTyped'
<1>1. NaInv'
  BY WorkPasses DEF NaTyped
<1>2. PICK c \in naTick.batch :
        /\ \/ box' = box /\ handled' = handled
           \/ box' = Finished(c.path) /\ handled' = handled \cup {c.rev}
           \/ box' = box /\ handled' = handled
        /\ \/ UNCHANGED job
           \/ job' = [cmd |-> c, stage |-> FirstStage(c.kind), at |-> 1, awaiting |-> FALSE] /\ CommandTurn(c)
        /\ registry' = registry \/ \E outcome \in {"applied", "kept"} : ApplyPublication(c, outcome)
        /\ UNCHANGED <<used, running>> \/ RecordAttempt(c)
        /\ naTick' = [naTick EXCEPT !.batch = {}] \/ Taken(c)
  BY DEF WorkStep, Rejected, Skipped, PublicationTurn, RefreshTurn, IntrospectTurn, CommandTurn
<1>3. UNCHANGED <<fastQueue, naWire, gx, revision>>
  BY DEF WorkStep
<1>4. c \in Written_ /\ c.rev \in 0 .. revision
  BY DEF NaTyped, Written_, Commands_
<1>5. naTick'.batch \subseteq Written_
  BY <1>2 DEF NaTyped, NaInv, BatchOk, Taken
<1>6. \A q \in NaPaths : box'[q] = NoFile \/ (box'[q] \in Written_ /\ box'[q].path = q)
  BY <1>2, FinishedTyped DEF NaTyped, Finished
<1>7. handled' \subseteq 0 .. revision
  BY <1>2, <1>4 DEF NaTyped
<1>8. RegistryTyped(registry')
  BY <1>2, <1>4, PublicationTyped DEF NaTyped
<1>9. running' \subseteq Timers /\ used' \in [Classes -> Nat]
  BY <1>2, AttemptTyped DEF NaTyped
<1>10. JobTyped(job')
  <2>1. CASE job' = job
    BY <2>1 DEF NaTyped
  <2>2. CASE job' = [cmd |-> c, stage |-> FirstStage(c.kind), at |-> 1, awaiting |-> FALSE] /\ job' # job
    <3>1. job'.stage \in JobStages
      <4>1. JobOk(job') /\ job' # NoJob
        <5>1. job = NoJob
          BY <1>1, <2>2, <1>2 DEF CommandTurn, Skipped
        <5> QED BY <1>1, <2>2, <5>1 DEF NaInv, JobOk
      <4> QED BY <4>1 DEF JobOk
    <3>2. 1 \in ManualPaths
      BY DEF ManualPaths
    <3>3. job'.cmd = c /\ job'.at = 1
      BY <2>2
    <3> QED BY <1>4, <3>1, <3>2, <3>3 DEF JobTyped
  <2> QED BY <1>2, <2>1, <2>2
<1> QED BY <1>1, <1>3, <1>5, <1>6, <1>7, <1>8, <1>9, <1>10, TypedStep DEF NaTyped

LEMMA ScheduleTyped == ASSUME NaTyped, ScheduleOperation PROVE NaTyped'
<1>1. NaInv'
  BY ScheduleKeeps DEF NaTyped
<1>2. UNCHANGED <<box, fastQueue, gx, registry, used, revision, handled>> /\ naTick'.batch = {}
  BY DEF ScheduleOperation, Between
<1>3. job' \in {job, [job EXCEPT !.awaiting = TRUE], [job EXCEPT !.awaiting = FALSE]}
  BY DEF ScheduleOperation, ScheduleCommand, SubmissionFailed
<1>4. job' # job => job # NoJob
  BY DEF ScheduleOperation, ScheduleCommand, JobReady, JobDue
<1>5. JobTyped(job')
  BY <1>3, <1>4 DEF JobTyped, NaTyped, NaInv, JobOk
<1>6. \/ naWire' = naWire /\ running' = running
      \/ \E o \in {"command", "reader", "introspection"}, op \in Timers : Submit(o, op)
  <2>1. CASE ScheduleCommand
    <3>1. job.stage \in JobStages
      BY <2>1 DEF ScheduleCommand, JobDue, JobReady, NaTyped, NaInv, JobOk
    <3>2. OperationOf(job.stage) \in Timers
      BY <3>1 DEF OperationOf, JobStages, Timers
    <3> QED BY <2>1, <3>2 DEF ScheduleCommand
  <2>2. CASE ScheduleReader \/ ScheduleSurvey \/ UNCHANGED <<naWire, running, survey>>
    BY <2>2 DEF ScheduleReader, ScheduleSurvey, Timers
  <2> QED BY <2>1, <2>2 DEF ScheduleOperation
<1>7. naWire'.owner \in {"none", "command", "introspection", "reader"} /\ running' \subseteq Timers
  BY <1>6 DEF Submit, NaTyped
<1> QED BY <1>1, <1>2, <1>5, <1>7, TypedStep DEF NaTyped

LEMMA WorkerTyped == ASSUME NaTyped, WorkerAnswers PROVE NaTyped'
<1>1. NaInv'
  BY AdapterStep DEF NaTyped, NaNext
<1>2. UNCHANGED <<box, fastQueue, job, registry, survey, running, used, naTick, revision, handled>>
  BY DEF WorkerAnswers
<1>3. naWire'.owner = naWire.owner
  <2>1. PICK answer : naWire' = [naWire EXCEPT !.answer = answer]
    BY DEF WorkerAnswers
  <2> QED BY <2>1 DEF NaTyped, NaInv, WireOk
<1> DEFINE relay == IF naWire.owner = "command" /\ job.stage \in {"output", "output_again"}
                    THEN TargetOf(job.cmd) ELSE gx.relay
           manual == IF naWire.owner = "command" /\ job.stage = "manual_write"
                     THEN gx.manual \cup {job.at} ELSE gx.manual
<1>4. gx' = gx \/ gx' = [gx EXCEPT !.relay = relay, !.manual = manual]
  BY DEF WorkerAnswers
<1>5. relay \in {0, 1}
  BY DEF TargetOf, NaTyped, RelayTyped
<1>6. manual \in SUBSET ManualPaths
  <2>1. CASE naWire.owner = "command" /\ job.stage = "manual_write"
    <3>1. job.at \in ManualPaths
      BY <2>1, OwnerFacts DEF NaTyped, JobTyped
    <3> QED BY <3>1 DEF NaTyped, RelayTyped
  <2>2. CASE ~(naWire.owner = "command" /\ job.stage = "manual_write")
    BY <2>2 DEF NaTyped, RelayTyped
  <2> QED BY <2>1, <2>2
<1> HIDE DEF relay, manual
<1>7. RelayTyped(gx')
  BY <1>4, <1>5, <1>6 DEF NaTyped, RelayTyped
<1> QED BY <1>1, <1>2, <1>3, <1>7, TypedStep DEF NaTyped

\* The core writes one more command: all that was written before stays.
LEMMA WriteTyped == ASSUME NaTyped, WriteCommand \/ SendFast PROVE NaTyped'
<1>1. NaInv'
  BY AdapterStep DEF NaTyped, NaNext
<1>2. revision' = revision + 1 /\ revision \in Nat /\ revision' \in Nat \ {0}
  BY DEF WriteCommand, SendFast, NaTyped
<1>3. /\ Written_ \subseteq Written_' /\ Seq(Written_) \subseteq Seq(Written_')
      /\ 0 .. revision \subseteq 0 .. revision' /\ Noted \subseteq Noted'
  <2>1. revision <= revision'
    BY <1>2
  <2>2. Written_' = Commands_(revision') /\ Noted' = [NaFields -> 0 .. revision']
    BY DEF Written_, Commands_, Noted
  <2> QED BY <1>2, <2>1, <2>2, RevisionGrows DEF Written_, Noted
<1>4. UNCHANGED <<job, naWire, gx, registry, running, used, naTick, handled>>
  BY DEF WriteCommand, SendFast
<1>5. PICK w \in NaWishes, c \in Written_' :
        /\ c.path = w.path
        /\ box' = box \/ box' = [box EXCEPT ![w.path] = c]
        /\ \/ fastQueue' = fastQueue
           \/ Len(fastQueue) < FastCapacity /\ fastQueue' = Append(fastQueue, c)
  <2>1. PICK w \in NaWishes :
          \E c \in {[kind |-> w.kind, path |-> w.path, priority |-> w.priority,
                     deadline |-> w.deadline, rev |-> revision']} :
            /\ box' = box \/ box' = [box EXCEPT ![w.path] = c]
            /\ \/ fastQueue' = fastQueue
               \/ Len(fastQueue) < FastCapacity /\ fastQueue' = Append(fastQueue, c)
    BY <1>2 DEF WriteCommand, SendFast
  <2> DEFINE c == [kind |-> w.kind, path |-> w.path, priority |-> w.priority,
                   deadline |-> w.deadline, rev |-> revision']
  <2>2. c.path = w.path
    OBVIOUS
  <2>3. c \in Written_'
    <3>1. Written_' = Commands_(revision')
      BY DEF Written_, Commands_
    <3>2. c \in Commands_(revision')
      BY <1>2, WishWritten
    <3> HIDE DEF c
    <3> QED BY <3>1, <3>2
  <2>4. /\ box' = box \/ box' = [box EXCEPT ![w.path] = c]
        /\ \/ fastQueue' = fastQueue
           \/ Len(fastQueue) < FastCapacity /\ fastQueue' = Append(fastQueue, c)
    BY <2>1
  <2> HIDE DEF c
  <2> QED BY <2>2, <2>3, <2>4
<1>6. \A p \in NaPaths : box'[p] = NoFile \/ (box'[p] \in Written_' /\ box'[p].path = p)
  BY <1>3, <1>5 DEF NaTyped, NaInv, BoxOk
<1>7. fastQueue' \in Seq(Written_') /\ Len(fastQueue') <= FastCapacity
  <2>1. fastQueue \in Seq(Written_') /\ Len(fastQueue) <= FastCapacity /\ FastCapacity \in Nat
    BY <1>3, NativeAssumption DEF NaTyped, NativeAssumption
  <2> DEFINE W == Written_'
  <2>2. c \in W /\ fastQueue \in Seq(W)
    BY <2>1
  <2> HIDE DEF W
  <2>3. Append(fastQueue, c) \in Seq(W) /\ Len(Append(fastQueue, c)) = Len(fastQueue) + 1 /\ Len(fastQueue) \in Nat
    BY <2>2
  <2>4. fastQueue' \in Seq(W) /\ Len(fastQueue') <= FastCapacity
    BY <1>5, <2>1, <2>2, <2>3
  <2> QED BY <2>4 DEF W
<1>8. JobTyped(job)'
  <2>1. JobTyped(job) /\ job' = job
    BY <1>4 DEF NaTyped
  <2> QED BY <1>3, <2>1 DEF JobTyped
<1>9. RegistryTyped(registry)' /\ RelayTyped(gx)'
  BY <1>3, <1>4 DEF NaTyped, RegistryTyped, RelayTyped
<1>10. naTick'.batch \subseteq Written_'
  BY <1>3, <1>4 DEF NaTyped
<1> QED BY <1>1, <1>2, <1>3, <1>4, <1>6, <1>7, <1>8, <1>9, <1>10 DEF NaTyped

LEMMA AdapterTyped == ASSUME NaTyped, [NaNext]_naVars PROVE NaTyped'
<1>1. NaInv'
  BY AdapterStep DEF NaTyped
<1>2. CASE StartTick \/ FastDone \/ WorkDone
  <2>1. UNCHANGED <<box, fastQueue, job, naWire, gx, registry, running, used, revision, handled>>
    BY <1>2 DEF StartTick, FastDone, WorkDone
  <2>2. naTick'.batch = naTick.batch
    BY <1>2 DEF StartTick, FastDone, WorkDone, NaTyped, NaInv, BatchOk
  <2> QED BY <1>1, <2>1, <2>2, TypedStep DEF NaTyped
<1>3. CASE FullScan
  <2>1. UNCHANGED <<box, fastQueue, job, naWire, gx, registry, running, used, naTick, revision, handled>>
    BY <1>3 DEF FullScan
  <2> QED BY <1>1, <2>1, TypedStep DEF NaTyped
<1>4. CASE TimerRunsOut
  <2>1. UNCHANGED <<box, fastQueue, job, naWire, gx, registry, naTick, revision, handled>>
    BY <1>4 DEF TimerRunsOut
  <2>2. running' \subseteq Timers /\ used' \in [Classes -> Nat]
    BY <1>4 DEF TimerRunsOut, NaTyped
  <2> QED BY <1>1, <2>1, <2>2, TypedStep DEF NaTyped
<1>5. CASE UNCHANGED naVars
  <2>1. UNCHANGED <<box, fastQueue, job, naWire, gx, registry, running, used, naTick, revision, handled>>
    BY <1>5 DEF naVars
  <2> QED BY <1>1, <2>1, TypedStep DEF NaTyped
<1> QED BY <1>2, <1>3, <1>4, <1>5, PollTyped, ScanTyped, FastTyped, WorkTyped, ScheduleTyped,
           WorkerTyped, WriteTyped DEF NaNext

LEMMA AdapterStartsTyped == ASSUME NaInit PROVE NaTyped
<1>1. NaInv
  BY AdapterStarts
<1>2. revision = 0 /\ running = {} /\ handled = {} /\ job = NoJob /\ naTick.batch = {} /\ naWire.owner = "none"
  BY DEF NaInit, Between, NoWire
<1>3. \A p \in NaPaths : box[p] = NoFile
  BY DEF NaInit
<1>4. fastQueue = <<>> /\ fastQueue \in Seq(Written_) /\ Len(fastQueue) <= FastCapacity
  <2>1. fastQueue = <<>> /\ FastCapacity \in Nat
    BY NativeAssumption DEF NaInit, NativeAssumption
  <2>2. <<>> \in Seq(Written_) /\ Len(<<>>) = 0
    OBVIOUS
  <2> QED BY <2>1, <2>2
<1>5. RelayTyped(gx)
  BY DEF NaInit, RelayTyped
<1>6. RegistryTyped(registry)
  <2>1. [f \in NaFields |-> 0] \in Noted
    BY <1>2 DEF Noted
  <2> DEFINE z == [f \in NaFields |-> 0]
  <2>2. PICK registered : registry = [registered |-> registered, orders |-> z, shown |-> z, index |-> 0]
    BY DEF NaInit
  <2> HIDE DEF z
  <2> QED BY <2>1, <2>2 DEF RegistryTyped, z
<1>7. used \in [Classes -> Nat]
  BY DEF NaInit
<1> QED BY <1>1, <1>2, <1>3, <1>4, <1>5, <1>6, <1>7 DEF NaTyped, JobTyped

LEMMA AdapterTypes == NaTyped => NaTypeOK
<1> SUFFICES ASSUME NaTyped PROVE NaTypeOK
  OBVIOUS
<1>1. \A p \in NaPaths : box[p] = NoFile \/ box[p].path = p
  BY DEF NaTyped
<1>2. job = NoJob \/ job.cmd.rev \in 1 .. revision
  BY DEF NaTyped, JobTyped, Written_, Commands_
<1>3. gx.relay \in {0, 1} /\ gx.seen \in {0, 1, Unread} /\ gx.manual \subseteq ManualPaths
  BY DEF NaTyped, RelayTyped
<1>4. \A f \in NaFields : registry.orders[f] \in 0..revision /\ registry.shown[f] \in 0..revision
  BY DEF NaTyped, RegistryTyped, Noted
<1>5. \A class \in Classes : used[class] \in Nat
  BY DEF NaTyped
<1> QED BY <1>1, <1>2, <1>3, <1>4, <1>5 DEF NaTyped, NaTypeOK, Timers

Measurement(m) == [value : {m.value}, status : {m.status}, age : {m.age}, confidence : {m.confidence},
                   sources : {m.sources}, reason : {m.reason}]
Cycle(r) == [key : {r.key}, members : {r.members}, index : {r.index}, answered : {r.answered},
             confidence : {r.confidence}, held : {r.held}, failed : {r.failed}, factor : {r.factor},
             ops : {r.ops}]

\* What a key shows, and how long ago its members answered.
KeyOk(m, c, since) ==
    /\ m \in Measurement(m) /\ m.age \in 0 .. AgeCap_ /\ since \in 0 .. AgeCap_
    /\ c.confirmed \in 0 .. AgeCap_
    /\ m.status = "fresh" => since <= m.age
    /\ c.status = "fresh" => since <= c.confirmed

NrInv ==
    /\ DOMAIN measured = Keys_ /\ DOMAIN cached = Keys_ /\ DOMAIN sinceAll = Keys_
    /\ reading \in Cycle(reading)
    /\ reading.key # "pv" => ~reading.held
    /\ \A k \in Keys_ \ {"pv"} : KeyOk(measured[k], cached[k], sinceAll[k])

LEMMA CapFacts == ASSUME StaleTicks_ \in Nat PROVE AgeCap_ \in Nat /\ 0 \in 0 .. AgeCap_
BY DEF AgeCap_

LEMMA UpFacts ==
    ASSUME StaleTicks_ \in Nat, NEW a \in 0 .. AgeCap_, NEW b \in 0 .. AgeCap_
    PROVE  /\ Up(a, AgeCap_) \in 0 .. AgeCap_
           /\ a <= b => Up(a, AgeCap_) <= Up(b, AgeCap_)
BY CapFacts DEF Up

\* A key with no member to ask; only PV shows a value then.
LEMMA UnavailableOk ==
    ASSUME StaleTicks_ \in Nat, NEW sources, NEW why, NEW c, NEW since, NEW m, KeyOk(m, c, since)
    PROVE  KeyOk(Unavailable_(sources, why), c, since)
<1>1. /\ Unavailable_(sources, why) \in Measurement(Unavailable_(sources, why))
      /\ Unavailable_(sources, why).status = "unavailable" /\ Unavailable_(sources, why).age = AgeCap_
  BY DEF Unavailable_, Unknown_, Measurement
<1> QED BY <1>1, CapFacts DEF KeyOk

\* A completed cycle: fresh only when every member answered.
LEMMA CompletedFacts ==
    ASSUME StaleTicks_ \in Nat, NEW r, r.key # "pv", ~r.held
    PROVE  /\ Completed_(r) \in Measurement(Completed_(r)) /\ Completed_(r).age \in 0 .. AgeCap_
           /\ Completed_(r).status = "fresh" => ~r.failed
<1>1. CASE ~r.failed
  <2> DEFINE o == Observed_("fresh", r.confidence, r.answered, "")
  <2>1. Completed_(r) = o
    BY <1>1 DEF Completed_
  <2>2. o \in Measurement(o) /\ o.age = 0
    BY DEF Observed_, Measurement
  <2> HIDE DEF o
  <2> QED BY <1>1, <2>1, <2>2, CapFacts
<1>2. CASE r.failed
  <2> DEFINE all == {m.source : m \in InSeq(r.members)}
             u == [Unknown_ EXCEPT !.status = "error", !.reason = "source-error", !.sources = all]
  <2>1. Completed_(r) = u
    BY <1>2 DEF Completed_
  <2>2. u \in Measurement(u) /\ u.age = AgeCap_ /\ u.status = "error"
    BY DEF Unknown_, Measurement
  <2> HIDE DEF u
  <2> QED BY <2>1, <2>2, CapFacts
<1> QED BY <1>1, <1>2

\* A key with no member, and a cycle that begins.
LEMMA StartKeeps ==
    ASSUME StaleTicks_ \in Nat, NrInv, StartCycle, UNCHANGED <<cached, sinceAll>>
    PROVE  NrInv'
<1>1. PICK k, members, os :
        \/ /\ measured' = [measured EXCEPT ![k] =
                             IF k = "pv" THEN EmptyPv(SourceIds(k, os))
                             ELSE Unavailable_(SourceIds(k, os), "source-unavailable")]
           /\ reading' = reading
        \/ /\ reading' = [NoRead EXCEPT !.key = k, !.members = members, !.index = 1,
                                        !.confidence = 10, !.factor = IntervalFactor(mode)]
           /\ measured' = measured
  BY DEF StartCycle
<1>2. CASE measured' = measured
  <2> DEFINE x == [NoRead EXCEPT !.key = k, !.members = members, !.index = 1,
                                 !.confidence = 10, !.factor = IntervalFactor(mode)]
  <2>1. x \in Cycle(x) /\ ~x.held
    BY DEF NoRead, Cycle
  <2>2. reading' = x \/ reading' = reading
    BY <1>1, <1>2
  <2> HIDE DEF x
  <2> QED BY <1>2, <2>1, <2>2 DEF NrInv
<1>3. CASE /\ measured' = [measured EXCEPT ![k] =
                             IF k = "pv" THEN EmptyPv(SourceIds(k, os))
                             ELSE Unavailable_(SourceIds(k, os), "source-unavailable")]
           /\ reading' = reading
  <2>1. DOMAIN measured' = Keys_
    BY <1>3 DEF NrInv
  <2>2. ASSUME NEW j \in Keys_ \ {"pv"}
        PROVE  KeyOk(measured'[j], cached'[j], sinceAll'[j])
    <3>1. KeyOk(measured[j], cached[j], sinceAll[j])
      BY DEF NrInv
    <3>2. CASE j # k
      BY <1>3, <3>1, <3>2 DEF NrInv
    <3>3. CASE j = k
      <4>1. measured'[j] = Unavailable_(SourceIds(k, os), "source-unavailable")
        BY <1>3, <3>3 DEF NrInv
      <4> QED BY <3>1, <4>1, UnavailableOk
    <3> QED BY <3>2, <3>3
  <2> QED BY <1>3, <2>1, <2>2 DEF NrInv
<1> QED BY <1>1, <1>2, <1>3

\* A member answers, and perhaps it was the last one.
LEMMA HandleReadKeeps ==
    ASSUME StaleTicks_ \in Nat, NrInv, HandleRead
    PROVE  NrInv'
<1>1. PICK answer \in BusAnswers, slow \in {1, 3, 5} :
        \/ /\ reading' = ReadAfter(reading, answer, slow)
           /\ measured' = measured /\ sinceAll' = sinceAll
        \/ CompleteCycle(ReadAfter(reading, answer, slow))
  BY DEF HandleRead
<1> DEFINE r == ReadAfter(reading, answer, slow)
<1>2. cached' = cached
  BY DEF HandleRead
<1>3. r \in Cycle(r) /\ r.key = reading.key /\ (r.key # "pv" => ~r.held)
  <2> DEFINE m == reading.members[reading.index]
             stepped == [reading EXCEPT !.index = @ + 1, !.ops = @ + 1,
                                        !.factor = IF reading.key = "pv" THEN Larger(@, slow) ELSE @]
             a == [stepped EXCEPT !.answered = @ \cup {m.source}]
             b == [stepped EXCEPT !.held = TRUE,
                                  !.confidence = Smaller(@, HoldConfidence(HoldOf(m))),
                                  !.answered = @ \cup {SourceId("pv-ac", m.service)}]
             c == [stepped EXCEPT !.failed = TRUE,
                                  !.confidence = IF reading.key = "pv" THEN Smaller(@, 2) ELSE @]
  <2>1. r = IF answer = "value" THEN a ELSE IF reading.key = "pv" /\ MayHold(m, answer) THEN b ELSE c
    BY DEF ReadAfter
  <2>2. stepped \in Cycle(stepped) /\ stepped.key = reading.key /\ stepped.held = reading.held
    BY DEF NrInv, Cycle
  <2> HIDE DEF stepped, m
  <2>3. /\ a \in Cycle(a) /\ a.key = reading.key /\ a.held = reading.held
        /\ b \in Cycle(b) /\ b.key = reading.key
        /\ c \in Cycle(c) /\ c.key = reading.key /\ c.held = reading.held
    BY <2>2 DEF Cycle
  <2> HIDE DEF a, b, c
  <2> QED BY <2>1, <2>3 DEF NrInv
<1> HIDE DEF r
<1>4. CASE reading' = r /\ measured' = measured /\ sinceAll' = sinceAll
  BY <1>2, <1>3, <1>4 DEF NrInv
<1>5. CASE CompleteCycle(r)
  <2>1. /\ measured' = [measured EXCEPT ![r.key] = Completed_(r)]
        /\ sinceAll' = [sinceAll EXCEPT ![r.key] = IF r.failed \/ r.held THEN @ ELSE 0]
        /\ reading' = NoRead
    BY <1>5 DEF CompleteCycle
  <2>2. DOMAIN measured' = Keys_ /\ DOMAIN sinceAll' = Keys_ /\ DOMAIN cached' = Keys_
    BY <1>2, <2>1 DEF NrInv
  <2>3. NoRead \in Cycle(NoRead) /\ ~NoRead.held
    BY DEF NoRead, Cycle
  <2>4. ASSUME NEW k \in Keys_ \ {"pv"}
        PROVE  KeyOk(measured'[k], cached'[k], sinceAll'[k])
    <3>1. KeyOk(measured[k], cached[k], sinceAll[k])
      BY DEF NrInv
    <3>2. CASE k # r.key
      <4>1. measured'[k] = measured[k] /\ sinceAll'[k] = sinceAll[k]
        BY <2>1, <3>2 DEF NrInv
      <4> QED BY <1>2, <3>1, <4>1
    <3>3. CASE k = r.key
      <4>1. measured'[k] = Completed_(r) /\ sinceAll'[k] = (IF r.failed THEN sinceAll[k] ELSE 0)
        BY <1>3, <2>1, <3>3 DEF NrInv
      <4>2. /\ Completed_(r) \in Measurement(Completed_(r)) /\ Completed_(r).age \in 0 .. AgeCap_
            /\ Completed_(r).status = "fresh" => ~r.failed
        BY <1>3, <3>3, CompletedFacts
      <4>3. sinceAll'[k] \in 0 .. AgeCap_ /\ sinceAll'[k] <= sinceAll[k]
        BY <3>1, <4>1, CapFacts DEF KeyOk
      <4>4. measured'[k].status = "fresh" => sinceAll'[k] <= measured'[k].age
        BY <4>1, <4>2, CapFacts
      <4>5. cached[k].status = "fresh" => sinceAll'[k] <= cached[k].confirmed
        BY <3>1, <4>1, <4>3, CapFacts DEF KeyOk
      <4> QED BY <1>2, <3>1, <4>1, <4>2, <4>3, <4>4, <4>5 DEF KeyOk
    <3> QED BY <3>2, <3>3
  <2> QED BY <2>1, <2>2, <2>3, <2>4 DEF NrInv
<1> QED BY <1>1, <1>4, <1>5 DEF r

\* A snapshot of the measurements, with their own age or that of the last confirmation.
LEMMA PublishKeeps ==
    ASSUME StaleTicks_ \in Nat, NrInv, PublishSnapshots
    PROVE  NrInv'
<1>1. PICK positive \in BOOLEAN :
        cached' = [k \in Keys_ |-> RememberMeasurement(cached[k], Published_(k, positive))]
  BY DEF PublishSnapshots
<1>2. UNCHANGED <<measured, sinceAll, reading>>
  BY DEF PublishSnapshots
<1>3. ASSUME NEW k \in Keys_ \ {"pv"}
      PROVE  KeyOk(measured'[k], cached'[k], sinceAll'[k])
  <2> DEFINE m == Published_(k, positive)
  <2>1. cached'[k] = RememberMeasurement(cached[k], m)
    BY <1>1
  <2>2. KeyOk(measured[k], cached[k], sinceAll[k])
    BY DEF NrInv
  <2>3. m = measured[k] \/ (m.status = "unavailable" /\ m.age = AgeCap_)
    BY DEF Published_, Unavailable_, Unknown_
  <2> HIDE DEF m
  <2>4. /\ cached'[k].status = m.status
        /\ cached'[k].confirmed = IF m.status \in {"fresh", "stale"} THEN m.age ELSE cached[k].confirmed
    BY <2>1 DEF RememberMeasurement
  <2>5. CASE m = measured[k]
    BY <1>2, <2>2, <2>4, <2>5 DEF KeyOk
  <2>6. CASE m.status = "unavailable"
    BY <1>2, <2>2, <2>4, <2>6 DEF KeyOk
  <2> QED BY <2>3, <2>5, <2>6
<1>4. DOMAIN cached' = Keys_
  BY <1>1
<1> QED BY <1>2, <1>3, <1>4 DEF NrInv

\* Time passes: every age grows alike.
LEMMA TickKeeps ==
    ASSUME StaleTicks_ \in Nat, NrInv, NrTick
    PROVE  NrInv'
<1>1. /\ measured' = [k \in Keys_ |-> [measured[k] EXCEPT !.age = Up(@, AgeCap_)]]
      /\ cached' = [k \in Keys_ |-> [cached[k] EXCEPT !.confirmed = Up(@, AgeCap_)]]
      /\ sinceAll' = [k \in Keys_ |-> Up(sinceAll[k], AgeCap_)]
      /\ reading' = reading
  BY DEF NrTick
<1>2. ASSUME NEW k \in Keys_ \ {"pv"}
      PROVE  KeyOk(measured'[k], cached'[k], sinceAll'[k])
  <2>1. KeyOk(measured[k], cached[k], sinceAll[k])
    BY DEF NrInv
  <2> DEFINE m == measured[k]  c == cached[k]
  <2>2. /\ measured'[k] = [m EXCEPT !.age = Up(m.age, AgeCap_)]
        /\ cached'[k] = [c EXCEPT !.confirmed = Up(c.confirmed, AgeCap_)]
        /\ sinceAll'[k] = Up(sinceAll[k], AgeCap_)
    BY <1>1
  <2> HIDE DEF m, c
  <2>3. KeyOk(m, c, sinceAll[k])
    BY <2>1 DEF m, c
  <2>4. /\ measured'[k] \in Measurement(measured'[k]) /\ measured'[k].status = m.status
        /\ measured'[k].age = Up(m.age, AgeCap_)
    BY <2>2, <2>3 DEF KeyOk, Measurement
  <2> QED BY <2>2, <2>3, <2>4, UpFacts DEF KeyOk
<1> QED BY <1>1, <1>2 DEF NrInv

LEMMA ReaderStep ==
    ASSUME StaleTicks_ \in Nat, NrInv, [NrNext]_nrVars
    PROVE  NrInv'
<1>1. CASE UNCHANGED <<reading, measured, cached, sinceAll>>
  BY <1>1 DEF NrInv
<1>2. CASE NextOperation
  <2>1. UNCHANGED <<cached, sinceAll>>
    BY <1>2 DEF NextOperation
  <2>2. CASE ContinueCycle \/ StartDiscovery
    BY <1>1, <2>1, <2>2 DEF ContinueCycle, StartDiscovery
  <2> QED BY <1>2, <2>1, <2>2, StartKeeps DEF NextOperation
<1>3. CASE UNCHANGED nrVars \/ HandleNames \/ RequestRefresh
  BY <1>1, <1>3 DEF nrVars, HandleNames, RequestRefresh
<1> QED BY <1>2, <1>3, HandleReadKeeps, PublishKeeps, TickKeeps DEF NrNext

LEMMA ReaderStarts == ASSUME StaleTicks_ \in Nat, NrInit PROVE NrInv
<1>1. /\ reading = NoRead /\ measured = [k \in Keys_ |-> Unknown_]
      /\ cached = [k \in Keys_ |-> [value |-> FALSE, status |-> "unknown", sources |-> {},
                                    reason |-> "", confirmed |-> AgeCap_]]
      /\ sinceAll = [k \in Keys_ |-> AgeCap_]
  BY DEF NrInit
<1>2. NoRead \in Cycle(NoRead) /\ ~NoRead.held
  BY DEF NoRead, Cycle
<1>3. Unknown_ \in Measurement(Unknown_) /\ Unknown_.age = AgeCap_ /\ Unknown_.status = "unknown"
  BY DEF Unknown_, Measurement
<1> DEFINE none == [value |-> FALSE, status |-> "unknown", sources |-> {}, reason |-> "",
                    confirmed |-> AgeCap_]
<1>4. none.status = "unknown" /\ none.confirmed = AgeCap_
  OBVIOUS
<1>5. cached = [k \in Keys_ |-> none]
  BY <1>1
<1> HIDE DEF none
<1>6. AgeCap_ \in 0 .. AgeCap_
  BY CapFacts
<1>7. \A k \in Keys_ \ {"pv"} : KeyOk(measured[k], cached[k], sinceAll[k])
  BY <1>1, <1>3, <1>4, <1>5, <1>6 DEF KeyOk
<1> QED BY <1>1, <1>2, <1>5, <1>7 DEF NrInv

\* What the cache shows as fresh was answered by every member of its aggregate within
\* the time the cache allows, whatever the topology, the modes and the failures, as
\* long as that time is limited at all (cache.rs, reader.rs).
THEOREM FreshWasAnswered ==
    ASSUME StaleTicks_ \in Nat \ {0}
    PROVE  NrSpec => []FreshIsAnswered
<1>1. NrInit => NrInv
  BY ReaderStarts
<1>2. NrInv /\ [NrNext]_nrVars => NrInv'
  BY ReaderStep
<1>3. NrInv => FreshIsAnswered
  <2> SUFFICES ASSUME NrInv, NEW k \in Keys_ \ {"pv"}, ProjectedStatus(cached[k]) = "fresh"
               PROVE  sinceAll[k] <= StaleTicks_
    BY DEF FreshIsAnswered
  <2>1. KeyOk(measured[k], cached[k], sinceAll[k])
    BY DEF NrInv
  <2>2. cached[k].status = "fresh" /\ ~(cached[k].confirmed > StaleTicks_)
    BY DEF ProjectedStatus
  <2> QED BY <2>1, <2>2, CapFacts DEF KeyOk
<1> QED BY <1>1, <1>2, <1>3, PTL DEF NrSpec
(***************************************************************************)
(* The types of the reader: what is due when, what is read next, and the   *)
(* sources it may know.                                                    *)
(***************************************************************************)
LongestDelay(k) == Larger(5 * NrInterval[k], FailCap)
EntryOk(e) == e \in [validated : {e.validated}, available : {e.available}, reason : {e.reason},
                     dormant : {e.dormant}, dormantFor : {e.dormantFor}, idle : 0 .. KeepTicks,
                     probe : {e.probe}]
SeenTyped(os) ==
    IsFiniteSet(DOMAIN os) /\ Cardinality(DOMAIN os) <= MaxSources /\ \A s \in DOMAIN os : EntryOk(os[s])
UnderWay(r) ==
    /\ r \in Cycle(r) /\ r.key \in Keys_ /\ r.factor \in {1, 3, 5} /\ r.ops \in Nat
    /\ Len(r.members) \in Nat /\ r.index \in 1 .. Len(r.members)

NrTyped ==
    /\ mode \in Modes_
    /\ DOMAIN due = Keys_ /\ \A k \in Keys_ : due[k] \in Missing_ .. LongestDelay(k)
    /\ failures \in [Keys_ -> 0 .. FailLimit]
    /\ SeenTyped(seen)
    /\ reading # NoRead => UnderWay(reading)
    /\ atBus.op = "read" => reading # NoRead /\ atBus.member = reading.members[reading.index]

LEMMA ReaderNumbers ==
    /\ \A k \in Keys_ : NrInterval[k] \in Nat \ {0}
    /\ FreshTicks \in Nat /\ TickReserve \in Nat /\ FailCap \in Nat /\ KeepTicks \in Nat
    /\ FailTicks \in Nat \ {0} /\ MaxSources \in Nat \ {0} /\ FailLimit \in 1 .. 31
    /\ GridPaths \in Nat /\ AggregatePaths \in Nat
<1>1. NrOrder \in Seq(DOMAIN NrInterval)
  BY ReaderAssumption DEF ReaderAssumption
<1>2. Keys_ \subseteq DOMAIN NrInterval
  BY <1>1 DEF Keys_
<1> QED BY <1>1, <1>2, ReaderAssumption DEF ReaderAssumption

LEMMA ReaderWaits ==
    ASSUME NEW k \in Keys_
    PROVE  /\ LongestDelay(k) \in Nat \ {0} /\ Missing_ \in Missing_ .. LongestDelay(k)
           /\ 5 * NrInterval[k] <= LongestDelay(k) /\ FailCap <= LongestDelay(k)
<1>1. NrInterval[k] \in Nat \ {0} /\ FailCap \in Nat
  BY ReaderNumbers
<1>2. 5 * NrInterval[k] \in Nat \ {0}
  BY <1>1
<1> DEFINE five == 5 * NrInterval[k]
<1>3. LongestDelay(k) = Larger(five, FailCap)
  BY DEF LongestDelay
<1> HIDE DEF five
<1>4. five \in Nat \ {0}
  BY <1>2 DEF five
<1>5. LongestDelay(k) \in Nat \ {0} /\ five <= LongestDelay(k) /\ FailCap <= LongestDelay(k)
  BY <1>1, <1>3, <1>4 DEF Larger
<1> QED BY <1>5 DEF Missing_, five

\* After a complete cycle.
LEMMA SuccessIsDue ==
    ASSUME NEW k \in Keys_, NEW factor \in {1, 3, 5}, NEW ops \in Nat
    PROVE  SuccessDelay(k, factor, ops) \in Missing_ .. LongestDelay(k)
<1> DEFINE n == NrInterval[k]
           asked == n * factor
           reserve == TickReserve * Larger(ops, 1)
           fresh == Larger(n, FreshTicks - reserve)
<1>1. n \in Nat \ {0} /\ FreshTicks \in Nat /\ TickReserve \in Nat
  BY ReaderNumbers
<1>2. asked \in 1 .. 5 * n
  BY <1>1
<1>3. reserve \in Int
  <2>1. Larger(ops, 1) \in Nat
    BY DEF Larger
  <2> QED BY <1>1, <2>1
<1>4. SuccessDelay(k, factor, ops) = IF k \in CoreKeys THEN Smaller(asked, fresh) ELSE asked
  BY DEF SuccessDelay
<1>5. 5 * n <= LongestDelay(k) /\ LongestDelay(k) \in Nat
  BY ReaderWaits
<1> HIDE DEF asked, reserve
<1>6. fresh \in Int /\ n <= fresh
  BY <1>1, <1>3 DEF Larger
<1> HIDE DEF fresh, n
<1>7. Smaller(asked, fresh) \in 1 .. 5 * n
  BY <1>1, <1>2, <1>6 DEF Smaller
<1>8. \A x \in 1 .. 5 * n : x \in Missing_ .. LongestDelay(k)
  BY <1>1, <1>5 DEF Missing_
<1> QED BY <1>2, <1>4, <1>7, <1>8

\* After a failed one.
LEMMA FailureIsDue ==
    ASSUME NEW k \in Keys_, NEW n \in 1 .. FailLimit
    PROVE  FailureDelay(n) \in Missing_ .. LongestDelay(k)
<1>1. n - 1 \in 0 .. 30
  BY ReaderNumbers
<1> DEFINE power == 2 ^ (n - 1)
           delay == FailTicks * power
<1>2. power \in Nat
  BY <1>1, PowersAreNumbers
<1> HIDE DEF power
<1>3. delay \in Nat
  BY <1>2, ReaderNumbers
<1> HIDE DEF delay
<1>4. FailureDelay(n) = Smaller(delay, FailCap)
  BY DEF FailureDelay, delay, power
<1>5. FailCap \in Nat /\ FailCap <= LongestDelay(k) /\ LongestDelay(k) \in Nat
  BY ReaderNumbers, ReaderWaits
<1> QED BY <1>3, <1>4, <1>5 DEF Smaller, Missing_

LEMMA DueRunsDown ==
    ASSUME NEW k \in Keys_, NEW n \in Missing_ .. LongestDelay(k)
    PROVE  Down(n) \in Missing_ .. LongestDelay(k)
BY ReaderWaits DEF Down, Missing_, Overdue_

(* What is read for a key is a list. *)
List(q) == q \in Seq(InSeq(q))

LEMMA FunctionIsList ==
    ASSUME NEW n \in Nat, NEW q, DOMAIN q = 1 .. n, q = [i \in 1 .. n |-> q[i]]
    PROVE  List(q) /\ Len(q) = n
<1>1. q \in [1 .. n -> {q[i] : i \in 1 .. n}]
  OBVIOUS
<1>2. q \in Seq({q[i] : i \in 1 .. n}) /\ Len(q) = n
  BY <1>1, SeqDef
<1> QED BY <1>2 DEF List, InSeq

LEMMA FilteredIsList ==
    ASSUME NEW q, NEW n \in Nat, NEW places \in SUBSET (1 .. n)
    PROVE  List(Filtered(q, places))
<1>1. IsFiniteSet(places)
  <2>1. IsFiniteSet(1 .. n)
    BY FS_Interval
  <2> QED BY <2>1, FS_Subset
<1>2. Cardinality(places) \in Nat
  BY <1>1, FS_CardinalityType
<1> DEFINE place(i) == CHOOSE j \in places : Cardinality({m \in places : m <= j}) = i
           f == [i \in 1 .. Cardinality(places) |-> q[place(i)]]
<1>3. Filtered(q, places) = f
  BY DEF Filtered
<1> HIDE DEF place
<1>4. DOMAIN f = 1 .. Cardinality(places) /\ f = [i \in 1 .. Cardinality(places) |-> f[i]]
  OBVIOUS
<1> HIDE DEF f
<1>5. List(f)
  BY <1>2, <1>4, FunctionIsList
<1> QED BY <1>3, <1>5

LEMMA OneIsList == \A x : List(<<x>>) /\ List(<<>>)
<1>1. ASSUME NEW x PROVE List(<<x>>)
  <2>1. Len(<<x>>) = 1 /\ <<x>>[1] = x
    OBVIOUS
  <2>2. x \in InSeq(<<x>>)
    BY <2>1 DEF InSeq
  <2> QED BY <2>2 DEF List
<1>2. List(<<>>)
  BY DEF List
<1> QED BY <1>1, <1>2

LEMMA JoinedIsList ==
    ASSUME NEW a, NEW b, List(a), List(b)
    PROVE  List(a \o b)
<1> DEFINE S == InSeq(a) \cup InSeq(b)
<1>1. a \in Seq(S) /\ b \in Seq(S)
  BY DEF List
<1> HIDE DEF S
<1>2. a \o b \in Seq(S) /\ Len(a \o b) \in Nat
  BY <1>1
<1> DEFINE c == a \o b
<1>4. c \in Seq(S) /\ Len(c) \in Nat
  BY <1>2
<1> HIDE DEF c
<1>5. DOMAIN c = 1 .. Len(c) /\ c = [i \in 1 .. Len(c) |-> c[i]]
  BY <1>4
<1>6. List(c)
  BY <1>4, <1>5, FunctionIsList
<1> QED BY <1>6 DEF c

LEMMA ListFacts ==
    ASSUME NEW q, List(q)
    PROVE  Len(q) \in Nat /\ DOMAIN q = 1 .. Len(q) /\ (q # <<>> => 1 \in 1 .. Len(q))
<1>1. q \in Seq(InSeq(q))
  BY DEF List
<1> DEFINE S == InSeq(q)
<1>2. q \in Seq(S)
  BY <1>1
<1> HIDE DEF S
<1> QED BY <1>2, EmptySeq

LEMMA CandidatesAreList == \A ns : List(PvCandidates(ns))
<1> TAKE ns
<1>1. CASE Aggregate # NoService /\ Aggregate \in ns
  <2> DEFINE q == [p \in 1..AggregatePaths |-> Member(Aggregate, p, SourceId("pv-ac", Aggregate))]
  <2>1. PvCandidates(ns) = q
    BY <1>1 DEF PvCandidates
  <2>2. DOMAIN q = 1 .. AggregatePaths /\ q = [i \in 1 .. AggregatePaths |-> q[i]]
    OBVIOUS
  <2> HIDE DEF q
  <2> QED BY <2>1, <2>2, ReaderNumbers, FunctionIsList
<1>2. CASE ~(Aggregate # NoService /\ Aggregate \in ns)
  <2> DEFINE there == {i \in DOMAIN AcServices : AcServices[i] \in ns}
             ac == Filtered(AcServices, there)
             front == [i \in 1..Len(ac) |-> Member(ac[i], 1, SourceId("pv-ac", ac[i]))]
             back == IF DcService # NoService /\ DcService \in ns
                     THEN <<Member(DcService, 2, SourceId("pv-dc", DcService))>> ELSE <<>>
  <2>1. PvCandidates(ns) = front \o back
    BY <1>2 DEF PvCandidates
  <2>2. List(back)
    BY OneIsList
  <2>3. List(ac)
    <3>1. AcServices \in Seq(InSeq(AcServices))
      BY ReaderAssumption DEF ReaderAssumption
    <3>2. List(AcServices)
      BY <3>1 DEF List
    <3>3. Len(AcServices) \in Nat /\ there \in SUBSET (1 .. Len(AcServices))
      BY <3>2, ListFacts
    <3> HIDE DEF there
    <3> QED BY <3>3, FilteredIsList
  <2> HIDE DEF ac
  <2>4. Len(ac) \in Nat
    BY <2>3, ListFacts
  <2>5. DOMAIN front = 1 .. Len(ac) /\ front = [i \in 1 .. Len(ac) |-> front[i]]
    OBVIOUS
  <2> HIDE DEF front, back
  <2>6. List(front)
    BY <2>4, <2>5, FunctionIsList
  <2> QED BY <2>1, <2>2, <2>6, JoinedIsList
<1> QED BY <1>1, <1>2

LEMMA MembersAreList == \A k, os : List(MembersOf(k, os))
<1> TAKE k, os
<1>1. CASE k = "grid"
  <2> DEFINE q == [p \in 1..GridPaths |-> Member("system", p, "grid-primary")]
  <2>1. MembersOf(k, os) = q
    BY <1>1 DEF MembersOf
  <2>2. DOMAIN q = 1 .. GridPaths /\ q = [i \in 1 .. GridPaths |-> q[i]]
    OBVIOUS
  <2> HIDE DEF q
  <2> QED BY <2>1, <2>2, ReaderNumbers, FunctionIsList
<1>2. CASE k = "pv"
  <2> DEFINE all == PvCandidates(names)
             there == {i \in DOMAIN all : ProbeAllowed_(os, all[i].source)}
  <2>1. MembersOf(k, os) = Filtered(all, there)
    BY <1>2 DEF MembersOf
  <2>2. List(all)
    BY CandidatesAreList
  <2> HIDE DEF all
  <2>3. Len(all) \in Nat /\ there \in SUBSET (1 .. Len(all))
    BY <2>2, ListFacts
  <2> HIDE DEF there
  <2> QED BY <2>1, <2>3, FilteredIsList
<1>3. CASE k \notin {"grid", "pv"}
  <2>1. \/ MembersOf(k, os) = <<>>
        \/ \E x : MembersOf(k, os) = <<x>>
    BY <1>3 DEF MembersOf
  <2> QED BY <2>1, OneIsList
<1> QED BY <1>1, <1>2, <1>3

(* The sources that may be known. *)
LEMMA NotSeenOk == EntryOk(NotSeen) /\ \A os, source : SeenTyped(os) => EntryOk(EntryOf(os, source))
<1>1. EntryOk(NotSeen)
  BY ReaderNumbers DEF EntryOk, NotSeen
<1> QED BY <1>1 DEF EntryOf, SeenTyped

\* One source more than fit: one gives way.
LEMMA TrimmedFits ==
    ASSUME NEW os, SeenTyped(os), NEW source
    PROVE  /\ SeenTyped(Trimmed_(os, source))
           /\ source \in DOMAIN Trimmed_(os, source) \/ Cardinality(DOMAIN Trimmed_(os, source)) < MaxSources
<1>0. /\ IsFiniteSet(DOMAIN os) /\ Cardinality(DOMAIN os) <= MaxSources /\ Cardinality(DOMAIN os) \in Nat
      /\ MaxSources \in Nat \ {0}
  BY FS_CardinalityType, ReaderNumbers DEF SeenTyped
<1>1. CASE source \in DOMAIN os \/ Cardinality(DOMAIN os) < MaxSources
  BY <1>1 DEF Trimmed_
<1>2. CASE ~(source \in DOMAIN os \/ Cardinality(DOMAIN os) < MaxSources)
  <2> DEFINE rest == IF DOMAIN os \ ActiveSources(names) = {} THEN DOMAIN os
                     ELSE DOMAIN os \ ActiveSources(names)
             out == CHOOSE s \in rest : \A t \in rest : os[t].idle <= os[s].idle
             kept == [s \in DOMAIN os \ {out} |-> os[s]]
  <2>1. Trimmed_(os, source) = kept
    BY <1>2 DEF Trimmed_
  <2>2. rest \subseteq DOMAIN os /\ rest # {}
    <3>1. DOMAIN os # {}
      <4>1. Cardinality({}) = 0
        BY FS_EmptySet
      <4> QED BY <1>0, <1>2, <4>1
    <3> QED BY <3>1
  <2> HIDE DEF rest
  <2>3. out \in rest
    <3> DEFINE quiet == {KeepTicks - os[s].idle : s \in rest}
    <3>1. \A s \in rest : os[s].idle \in 0 .. KeepTicks
      BY <2>2 DEF SeenTyped, EntryOk
    <3>2. quiet \in SUBSET Nat /\ quiet # {}
      <4>1. \A s \in rest : KeepTicks - os[s].idle \in Nat
        BY <3>1, ReaderNumbers
      <4>2. PICK s \in rest : TRUE
        BY <2>2
      <4> QED BY <4>1, <4>2
    <3>3. PICK x \in quiet : \A y \in quiet : x <= y
      <4> HIDE DEF quiet
      <4> QED BY <3>2, LeastIsThere
    <3>4. PICK s \in rest : x = KeepTicks - os[s].idle
      BY <3>3
    <3>5. \A t \in rest : os[t].idle <= os[s].idle
      <4> TAKE t \in rest
      <4>1. KeepTicks - os[s].idle <= KeepTicks - os[t].idle
        BY <3>3, <3>4
      <4> QED BY <3>1, <4>1, ReaderNumbers
    <3>6. \E z \in rest : \A t \in rest : os[t].idle <= os[z].idle
      BY <3>5
    <3> QED BY <3>6
  <2> HIDE DEF out
  <2>4. IsFiniteSet(DOMAIN os \ {out}) /\ Cardinality(DOMAIN os \ {out}) = Cardinality(DOMAIN os) - 1
    BY <1>0, <2>2, <2>3, FS_RemoveElement
  <2>5. DOMAIN kept = DOMAIN os \ {out} /\ \A s \in DOMAIN kept : kept[s] = os[s]
    OBVIOUS
  <2> HIDE DEF kept
  <2>6. SeenTyped(kept)
    BY <1>0, <2>4, <2>5 DEF SeenTyped
  <2>7. Cardinality(DOMAIN kept) < MaxSources
    BY <1>0, <2>4, <2>5
  <2> QED BY <2>1, <2>6, <2>7
<1> QED BY <1>1, <1>2

LEMMA NotedIsTyped ==
    ASSUME NEW os, SeenTyped(os), NEW source, NEW entry, EntryOk(entry)
    PROVE  SeenTyped(WithSource(os, source, entry))
<1> DEFINE kept == Trimmed_(os, source)
           n == [s \in DOMAIN kept \cup {source} |-> IF s = source THEN entry ELSE kept[s]]
<1>1. SeenTyped(kept) /\ (source \in DOMAIN kept \/ Cardinality(DOMAIN kept) < MaxSources)
  BY TrimmedFits
<1>2. WithSource(os, source, entry) = n
  BY DEF WithSource
<1> HIDE DEF kept
<1>3. DOMAIN n = DOMAIN kept \cup {source} /\ \A s \in DOMAIN n : n[s] = entry \/ (s \in DOMAIN kept /\ n[s] = kept[s])
  OBVIOUS
<1>4. /\ IsFiniteSet(DOMAIN kept) /\ Cardinality(DOMAIN kept) \in Nat /\ Cardinality(DOMAIN kept) <= MaxSources
      /\ MaxSources \in Nat
  BY <1>1, FS_CardinalityType, ReaderNumbers DEF SeenTyped
<1>5. IsFiniteSet(DOMAIN kept \cup {source})
      /\ Cardinality(DOMAIN kept \cup {source}) = IF source \in DOMAIN kept THEN Cardinality(DOMAIN kept)
                                                  ELSE Cardinality(DOMAIN kept) + 1
  BY <1>4, FS_AddElement
<1> HIDE DEF n
<1>6. Cardinality(DOMAIN n) <= MaxSources /\ IsFiniteSet(DOMAIN n)
  BY <1>1, <1>3, <1>4, <1>5
<1>7. \A s \in DOMAIN n : EntryOk(n[s])
  BY <1>1, <1>3 DEF SeenTyped
<1> QED BY <1>2, <1>6, <1>7 DEF SeenTyped

LEMMA AnswersAreTyped ==
    ASSUME NEW os, SeenTyped(os), NEW source, NEW error
    PROVE  SeenTyped(NrRecordValue(os, source)) /\ SeenTyped(NrRecordError(os, source, error))
<1> DEFINE x == EntryOf(os, source)
           a == [x EXCEPT !.validated = TRUE, !.available = TRUE, !.reason = "", !.dormant = FALSE,
                          !.idle = 0, !.probe = 0]
           e == [x EXCEPT !.available = FALSE, !.idle = 0, !.probe = ProbeTicks]
           d == [e EXCEPT !.validated = TRUE, !.reason = "", !.dormant = TRUE, !.dormantFor = 0]
           u == [e EXCEPT !.reason = "source-path-unreadable"]
<1>1. EntryOk(x)
  BY NotSeenOk
<1>2. NrRecordValue(os, source) = WithSource(os, source, a)
  BY DEF NrRecordValue
<1>3. NrRecordError(os, source, error)
        = WithSource(os, source, IF error = "dormant" THEN d ELSE IF e.dormant THEN e ELSE u)
  BY DEF NrRecordError
<1> HIDE DEF x
<1>4. 0 \in 0 .. KeepTicks
  BY ReaderNumbers
<1>5. EntryOk(a) /\ EntryOk(e)
  BY <1>1, <1>4 DEF EntryOk
<1> HIDE DEF e, a
<1>6. EntryOk(d) /\ EntryOk(u)
  BY <1>5 DEF EntryOk
<1> HIDE DEF d, u
<1> QED BY <1>2, <1>3, <1>5, <1>6, NotedIsTyped

LEMMA MaintainedIsTyped ==
    ASSUME NEW os, SeenTyped(os), NEW ns
    PROVE  SeenTyped(NrMaintained(os, ns))
<1> DEFINE lapsed == [s \in DOMAIN os |->
                        IF os[s].dormant /\ os[s].dormantFor >= DormantTicks
                        THEN [os[s] EXCEPT !.dormant = FALSE, !.reason = "source-path-unreadable"]
                        ELSE os[s]]
           D == {t \in DOMAIN os : t \in ActiveSources(ns) \/ os[t].idle < KeepTicks}
           n == [s \in D |-> lapsed[s]]
<1>1. NrMaintained(os, ns) = n
  BY DEF NrMaintained
<1>2. \A s \in DOMAIN os : EntryOk(lapsed[s])
  <2> TAKE s \in DOMAIN os
  <2> DEFINE e == os[s]
             l == [e EXCEPT !.dormant = FALSE, !.reason = "source-path-unreadable"]
  <2>1. EntryOk(e)
    BY DEF SeenTyped
  <2>2. lapsed[s] = e \/ lapsed[s] = l
    OBVIOUS
  <2> HIDE DEF e, lapsed
  <2>3. EntryOk(l)
    BY <2>1 DEF EntryOk
  <2> QED BY <2>1, <2>2, <2>3
<1> HIDE DEF lapsed
<1>3. D \subseteq DOMAIN os
  OBVIOUS
<1> HIDE DEF D
<1>4. DOMAIN n = D /\ \A s \in D : n[s] = lapsed[s]
  OBVIOUS
<1>5. IsFiniteSet(D) /\ Cardinality(D) \in Nat /\ Cardinality(D) <= Cardinality(DOMAIN os)
      /\ Cardinality(DOMAIN os) \in Nat /\ Cardinality(DOMAIN os) <= MaxSources
  BY <1>3, FS_Subset, FS_CardinalityType DEF SeenTyped
<1>6. Cardinality(D) <= MaxSources
  BY <1>5, ReaderNumbers
<1> HIDE DEF n
<1> QED BY <1>1, <1>2, <1>3, <1>4, <1>5, <1>6 DEF SeenTyped

(* The steps. *)
LEMMA SameReader ==
    ASSUME NrTyped, UNCHANGED <<mode, due, failures, seen, reading, atBus>>
    PROVE  NrTyped'
BY DEF NrTyped, SeenTyped, EntryOk, UnderWay, Cycle, LongestDelay, Larger

\* A step keeps the types when each part of it does.
LEMMA ReaderStepTyped ==
    ASSUME mode' \in Modes_,
           DOMAIN due' = Keys_, \A k \in Keys_ : due'[k] \in Missing_ .. LongestDelay(k),
           failures' \in [Keys_ -> 0 .. FailLimit], SeenTyped(seen'),
           reading' # NoRead => UnderWay(reading'),
           atBus'.op = "read" => reading' # NoRead /\ atBus'.member = reading'.members[reading'.index]
    PROVE  NrTyped'
BY DEF NrTyped, SeenTyped, EntryOk, UnderWay, Cycle, LongestDelay, Larger

LEMMA DueIsSet ==
    ASSUME NrTyped, NEW k, NEW n, k \in Keys_ => n \in Missing_ .. LongestDelay(k), due' = [due EXCEPT ![k] = n]
    PROVE  DOMAIN due' = Keys_ /\ \A j \in Keys_ : due'[j] \in Missing_ .. LongestDelay(j)
BY DEF NrTyped

LEMMA AtRestFacts == AtRest.op = "none" /\ NoRead.index = 0
BY DEF AtRest, NoRead

\* A key that is due comes first.
LEMMA NextIsDue ==
    ASSUME NrTyped, NEW md, DueKeys(md) # {}
    PROVE  NextDueKey(md) \in Keys_
<1> DEFINE D == DueKeys(md)
           first(k, j) == due[k] < due[j] \/ (due[k] = due[j] /\ Rank_(k) <= Rank_(j))
<1>1. D \subseteq Keys_ /\ D # {}
  BY DEF DueKeys
<1>2. \A k \in D : due[k] + 3 \in Nat /\ due[k] \in Int
  <2> TAKE k \in D
  <2>1. due[k] \in Missing_ .. LongestDelay(k) /\ LongestDelay(k) \in Nat
    BY <1>1, ReaderWaits DEF NrTyped
  <2> QED BY <2>1 DEF Missing_
<1>3. \A k \in D : Rank_(k) \in Nat
  <2> TAKE k \in D
  <2>1. PICK i \in 1 .. Len(NrOrder) : NrOrder[i] = k
    BY <1>1 DEF Keys_
  <2>2. Rank_(k) \in 1 .. Len(NrOrder)
    BY <2>1 DEF Rank_
  <2>3. Len(NrOrder) \in Nat
    BY ReaderAssumption DEF ReaderAssumption
  <2> QED BY <2>2, <2>3
<1> HIDE DEF D
<1>4. PICK k \in D : \A j \in D : due[k] <= due[j]
  <2> DEFINE S == {due[k] + 3 : k \in D}
  <2>1. S \in SUBSET Nat /\ S # {}
    BY <1>1, <1>2
  <2>2. PICK x \in S : \A y \in S : x <= y
    <3> HIDE DEF S
    <3> QED BY <2>1, LeastIsThere
  <2>3. PICK k \in D : x = due[k] + 3
    BY <2>2
  <2>4. \A j \in D : due[k] <= due[j]
    <3> TAKE j \in D
    <3>1. due[k] + 3 <= due[j] + 3
      BY <2>2, <2>3
    <3> QED BY <1>2, <3>1
  <2> QED BY <2>4
<1>5. PICK e \in D : due[e] = due[k] /\ \A j \in D : due[j] = due[k] => Rank_(e) <= Rank_(j)
  <2> DEFINE E == {j \in D : due[j] = due[k]}
             S == {Rank_(j) : j \in E}
  <2>1. E \subseteq D /\ k \in E
    OBVIOUS
  <2>2. S \in SUBSET Nat /\ S # {}
    <3> HIDE DEF E
    <3> QED BY <1>3, <2>1
  <2>3. PICK x \in S : \A y \in S : x <= y
    <3> HIDE DEF S
    <3> QED BY <2>2, LeastIsThere
  <2>4. PICK e \in E : x = Rank_(e)
    BY <2>3
  <2>5. \A j \in E : Rank_(e) <= Rank_(j)
    BY <2>3, <2>4
  <2> QED BY <2>4, <2>5
<1>6. \A j \in D : first(e, j)
  <2> TAKE j \in D
  <2>1. due[e] <= due[j] /\ due[e] \in Int /\ due[j] \in Int
    BY <1>2, <1>4, <1>5
  <2>2. due[e] = due[j] => Rank_(e) <= Rank_(j)
    BY <1>5
  <2> QED BY <2>1, <2>2
<1>7. NextDueKey(md) = CHOOSE c \in D : \A j \in D : first(c, j)
  BY DEF NextDueKey, D
<1> HIDE DEF first
<1>8. NextDueKey(md) \in D
  BY <1>6, <1>7
<1> QED BY <1>1, <1>8

\* A cycle begins, or its key has no member.
LEMMA StartTyped == ASSUME NrTyped, NextOperation, StartCycle PROVE NrTyped'
<1> DEFINE k == NextDueKey(mode)
           os == IF k = "pv" THEN NrMaintained(seen, names) ELSE seen
           members == MembersOf(k, os)
           factor == IntervalFactor(mode)
           r == [NoRead EXCEPT !.key = k, !.members = members, !.index = 1,
                               !.confidence = 10, !.factor = factor]
           wait == SuccessDelay(k, factor, Len(members))
<1>1. /\ UNCHANGED <<mode, failures>> /\ atBus = AtRest /\ reading = NoRead
      /\ seen' = os /\ due' = [due EXCEPT ![k] = wait] /\ DueKeys(mode) # {}
      /\ IF members = <<>> THEN UNCHANGED <<reading, atBus>>
         ELSE reading' = r /\ atBus' = [op |-> "read", member |-> members[1]]
  BY DEF NextOperation, StartCycle
<1>2. SeenTyped(os)
  BY MaintainedIsTyped DEF NrTyped
<1>3. List(members)
  BY MembersAreList
<1>4. factor \in {1, 3, 5}
  BY DEF IntervalFactor
<1> HIDE DEF members, os, factor
<1>5. Len(members) \in Nat /\ (members # <<>> => 1 \in 1 .. Len(members))
  BY <1>3, ListFacts
<1> HIDE DEF k
<1>6. k \in Keys_ => wait \in Missing_ .. LongestDelay(k)
  BY <1>4, <1>5, SuccessIsDue
<1> HIDE DEF wait
<1>7. DOMAIN due' = Keys_ /\ \A j \in Keys_ : due'[j] \in Missing_ .. LongestDelay(j)
  BY <1>1, <1>6, DueIsSet
<1>8. /\ r \in Cycle(r) /\ r.key = k /\ r.index = 1 /\ r.members = members /\ r.factor = factor /\ r.ops = 0
      /\ r # NoRead
  <2>1. r \in Cycle(r) /\ r.key = k /\ r.index = 1 /\ r.members = members /\ r.factor = factor /\ r.ops = 0
    BY DEF NoRead, Cycle
  <2> HIDE DEF r
  <2> QED BY <2>1, AtRestFacts
<1>9. k \in Keys_
  BY <1>1, NextIsDue DEF k
<1> HIDE DEF r
<1>10. CASE members = <<>>
  BY <1>1, <1>2, <1>7, <1>10, AtRestFacts, ReaderStepTyped DEF NrTyped
<1>11. CASE members # <<>>
  <2>1. UnderWay(r)
    BY <1>4, <1>5, <1>8, <1>9, <1>11 DEF UnderWay
  <2>2. atBus'.op = "read" /\ atBus'.member = members[1] /\ reading' = r
    BY <1>1, <1>11
  <2> QED BY <1>1, <1>2, <1>7, <1>8, <2>1, <2>2, ReaderStepTyped DEF NrTyped
<1> QED BY <1>10, <1>11

\* The aggregate after an answer, and perhaps its end.
LEMMA ReadTyped == ASSUME NrTyped, HandleRead PROVE NrTyped'
<1>1. PICK answer \in BusAnswers, slow \in {1, 3, 5} :
        /\ seen' = IF reading.key # "pv" THEN seen
                   ELSE IF answer = "value" THEN NrRecordValue(seen, atBus.member.source)
                   ELSE NrRecordError(seen, atBus.member.source, answer)
        /\ IF ReadAfter(reading, answer, slow).index <= Len(ReadAfter(reading, answer, slow).members)
           THEN reading' = ReadAfter(reading, answer, slow) /\ UNCHANGED <<due, failures>>
           ELSE CompleteCycle(ReadAfter(reading, answer, slow))
  BY DEF HandleRead
<1> DEFINE r == ReadAfter(reading, answer, slow)
<1>2. mode' = mode /\ atBus' = AtRest /\ atBus.op = "read"
  BY DEF HandleRead
<1>3. UnderWay(reading)
  BY <1>2 DEF NrTyped
<1>4. SeenTyped(seen')
  BY <1>1, AnswersAreTyped DEF NrTyped
<1>5. /\ r \in Cycle(r) /\ r.key = reading.key /\ r.members = reading.members
      /\ r.index = reading.index + 1 /\ r.ops = reading.ops + 1 /\ r.factor \in {1, 3, 5}
  <2> DEFINE m == reading.members[reading.index]
             factor == IF reading.key = "pv" THEN Larger(reading.factor, slow) ELSE reading.factor
             stepped == [reading EXCEPT !.index = reading.index + 1, !.ops = reading.ops + 1, !.factor = factor]
             a == [stepped EXCEPT !.answered = @ \cup {m.source}]
             b == [stepped EXCEPT !.held = TRUE,
                                  !.confidence = Smaller(@, HoldConfidence(HoldOf(m))),
                                  !.answered = @ \cup {SourceId("pv-ac", m.service)}]
             c == [stepped EXCEPT !.failed = TRUE,
                                  !.confidence = IF reading.key = "pv" THEN Smaller(@, 2) ELSE @]
  <2>1. r = IF answer = "value" THEN a ELSE IF reading.key = "pv" /\ MayHold(m, answer) THEN b ELSE c
    BY DEF ReadAfter
  <2>2. factor \in {1, 3, 5}
    BY <1>3 DEF UnderWay, Larger
  <2> HIDE DEF factor, m
  <2>3. /\ stepped \in Cycle(stepped) /\ stepped.key = reading.key /\ stepped.members = reading.members
        /\ stepped.index = reading.index + 1 /\ stepped.ops = reading.ops + 1 /\ stepped.factor = factor
    BY <1>3 DEF UnderWay, Cycle
  <2> HIDE DEF stepped
  <2>4. \A x \in {a, b, c} :
          /\ x \in Cycle(x) /\ x.key = stepped.key /\ x.members = stepped.members
          /\ x.index = stepped.index /\ x.ops = stepped.ops /\ x.factor = stepped.factor
    BY <2>3 DEF Cycle
  <2> HIDE DEF a, b, c
  <2> QED BY <2>1, <2>2, <2>3, <2>4
<1> HIDE DEF r
<1>6. r.key \in Keys_ /\ r.ops \in Nat /\ Len(r.members) \in Nat /\ r.index \in Nat \ {0}
  BY <1>3, <1>5 DEF UnderWay
<1>7. CASE r.index <= Len(r.members) /\ reading' = r /\ UNCHANGED <<due, failures>>
  <2>1. UnderWay(r)
    BY <1>5, <1>6, <1>7 DEF UnderWay
  <2> QED BY <1>2, <1>4, <1>7, <2>1, AtRestFacts, ReaderStepTyped DEF NrTyped
<1>8. CASE CompleteCycle(r)
  <2>1. reading' = NoRead
    BY <1>8 DEF CompleteCycle
  <2>2. failures[r.key] \in 0 .. FailLimit /\ FailLimit \in Nat \ {0}
    <3>1. failures \in [Keys_ -> 0 .. FailLimit]
      BY DEF NrTyped
    <3> QED BY <1>6, <3>1, ReaderNumbers
  <2>3. CASE r.key = "pv" \/ ~r.failed
    <3> DEFINE wait == SuccessDelay(r.key, r.factor, r.ops)
    <3>1. failures' = [failures EXCEPT ![r.key] = 0] /\ due' = [due EXCEPT ![r.key] = wait]
      BY <1>8, <2>3 DEF CompleteCycle, Rescheduled
    <3>2. wait \in Missing_ .. LongestDelay(r.key)
      BY <1>5, <1>6, SuccessIsDue
    <3> HIDE DEF wait
    <3>3. DOMAIN due' = Keys_ /\ \A j \in Keys_ : due'[j] \in Missing_ .. LongestDelay(j)
      BY <3>1, <3>2, DueIsSet
    <3>4. failures' \in [Keys_ -> 0 .. FailLimit]
      <4>1. 0 \in 0 .. FailLimit
        BY <2>2
      <4> DEFINE counts == 0 .. FailLimit
      <4>2. 0 \in counts /\ failures \in [Keys_ -> counts]
        BY <4>1 DEF NrTyped
      <4> HIDE DEF counts
      <4>3. failures' \in [Keys_ -> counts]
        BY <3>1, <4>2
      <4> QED BY <4>3 DEF counts
    <3> QED BY <1>2, <1>4, <2>1, <3>3, <3>4, AtRestFacts, ReaderStepTyped DEF NrTyped
  <2>4. CASE ~(r.key = "pv" \/ ~r.failed)
    <3> DEFINE n == Smaller(failures[r.key] + 1, FailLimit)
               wait == FailureDelay(failures'[r.key])
    <3>1. failures' = [failures EXCEPT ![r.key] = n] /\ due' = [due EXCEPT ![r.key] = wait]
      BY <1>8, <2>4 DEF CompleteCycle, Rescheduled
    <3>2. n \in 1 .. FailLimit
      BY <2>2 DEF Smaller
    <3> HIDE DEF n
    <3>3. failures' \in [Keys_ -> 0 .. FailLimit] /\ failures'[r.key] = n
      BY <1>6, <2>2, <3>1, <3>2 DEF NrTyped
    <3>4. wait \in Missing_ .. LongestDelay(r.key)
      BY <1>6, <3>2, <3>3, FailureIsDue
    <3> HIDE DEF wait
    <3>5. DOMAIN due' = Keys_ /\ \A j \in Keys_ : due'[j] \in Missing_ .. LongestDelay(j)
      BY <3>1, <3>4, DueIsSet
    <3> QED BY <1>2, <1>4, <2>1, <3>3, <3>5, AtRestFacts, ReaderStepTyped DEF NrTyped
  <2> QED BY <2>3, <2>4
<1> QED BY <1>1, <1>7, <1>8 DEF r

LEMMA NamesTyped == ASSUME NrTyped, HandleNames PROVE NrTyped'
<1>1. UNCHANGED <<mode, due, failures, reading>> /\ atBus' = AtRest
  BY DEF HandleNames
<1>2. seen' = seen \/ \E found : seen' = NrMaintained(seen, found)
  BY DEF HandleNames, NamesFailed, NamesListed
<1>3. SeenTyped(seen')
  BY <1>2, MaintainedIsTyped DEF NrTyped
<1> QED BY <1>1, <1>3, AtRestFacts, ReaderStepTyped DEF NrTyped

LEMMA RefreshTyped == ASSUME NrTyped, RequestRefresh PROVE NrTyped'
<1>1. UNCHANGED <<mode, failures, reading, seen, atBus>>
  BY DEF RequestRefresh
<1>2. PICK scope : due' = [k \in Keys_ |-> IF k \in ScopeKeys(scope) THEN Missing_ ELSE due[k]]
  BY DEF RequestRefresh
<1>3. DOMAIN due' = Keys_ /\ \A k \in Keys_ : due'[k] \in Missing_ .. LongestDelay(k)
  BY <1>2, ReaderWaits DEF NrTyped
<1> QED BY <1>1, <1>3, ReaderStepTyped DEF NrTyped

LEMMA ReaderTickTyped == ASSUME NrTyped, NrTick PROVE NrTyped'
<1>1. UNCHANGED <<failures, reading, atBus>> /\ mode' \in Modes_ /\ due' = [k \in Keys_ |-> Down(due[k])]
  BY DEF NrTick
<1>2. DOMAIN due' = Keys_ /\ \A k \in Keys_ : due'[k] \in Missing_ .. LongestDelay(k)
  BY <1>1, DueRunsDown DEF NrTyped
<1> DEFINE asleep(s) == IF seen[s].dormant THEN Up(seen[s].dormantFor, DormantTicks) ELSE 0
           aged(s) == [seen[s] EXCEPT !.probe = Larger(seen[s].probe - 1, 0), !.idle = Up(seen[s].idle, KeepTicks),
                                      !.dormantFor = asleep(s)]
<1>3. seen' = [s \in DOMAIN seen |-> aged(s)]
  BY DEF NrTick
<1>4. \A s \in DOMAIN seen : EntryOk(aged(s))
  <2> TAKE s \in DOMAIN seen
  <2> DEFINE e == seen[s]
             i == Up(e.idle, KeepTicks)
             n == Larger(e.probe - 1, 0)
             d == asleep(s)
             x == [e EXCEPT !.probe = n, !.idle = i, !.dormantFor = d]
  <2>1. EntryOk(e)
    BY DEF NrTyped, SeenTyped
  <2>2. i \in 0 .. KeepTicks
    BY <2>1, ReaderNumbers DEF EntryOk, Up
  <2>3. aged(s) = x
    OBVIOUS
  <2> HIDE DEF e, i, n, d, aged
  <2>4. EntryOk(x)
    BY <2>1, <2>2 DEF EntryOk
  <2> QED BY <2>3, <2>4
<1> HIDE DEF aged
<1>5. SeenTyped(seen')
  BY <1>3, <1>4 DEF NrTyped, SeenTyped
<1> QED BY <1>1, <1>2, <1>5, ReaderStepTyped DEF NrTyped

LEMMA ReaderKeepsTypes == ASSUME NrTyped, [NrNext]_nrVars PROVE NrTyped'
<1>1. CASE PublishSnapshots \/ UNCHANGED nrVars
  <2>1. UNCHANGED <<mode, due, failures, seen, reading, atBus>>
    BY <1>1 DEF PublishSnapshots, nrVars
  <2> QED BY <2>1, SameReader
<1>2. CASE NextOperation
  <2>1. UNCHANGED <<mode, failures>>
    BY <1>2 DEF NextOperation
  <2>2. CASE ContinueCycle
    <3>1. UNCHANGED <<due, seen, reading>> /\ reading # NoRead /\ atBus'.member = reading.members[reading.index]
      BY <2>2 DEF ContinueCycle
    <3> QED BY <2>1, <3>1, ReaderStepTyped DEF NrTyped
  <2>3. CASE StartDiscovery
    <3>1. UNCHANGED <<due, seen, reading>> /\ atBus'.op = "names"
      BY <2>3 DEF StartDiscovery
    <3> QED BY <2>1, <3>1, ReaderStepTyped DEF NrTyped
  <2> QED BY <1>2, <2>2, <2>3, StartTyped DEF NextOperation
<1> QED BY <1>1, <1>2, ReadTyped, NamesTyped, RefreshTyped, ReaderTickTyped DEF NrNext

LEMMA ReaderStartsTyped == ASSUME NrInit PROVE NrTyped
<1>1. mode \in Modes_ /\ reading = NoRead /\ atBus.op = "none"
  BY DEF NrInit, Modes_, AtRest
<1>2. DOMAIN due = Keys_ /\ \A k \in Keys_ : due[k] \in Missing_ .. LongestDelay(k)
  BY ReaderWaits DEF NrInit
<1>3. failures \in [Keys_ -> 0 .. FailLimit]
  <2>1. 0 \in 0 .. FailLimit
    BY ReaderNumbers
  <2> QED BY <2>1, Zenon DEF NrInit
<1>4. SeenTyped(seen)
  <2>1. seen = <<>>
    BY DEF NrInit
  <2>2. DOMAIN seen = {}
    <3>1. Len(<<>>) = 0 /\ DOMAIN <<>> = 1 .. 0
      OBVIOUS
    <3>2. 1 .. 0 = {}
      OBVIOUS
    <3> QED BY <2>1, <3>1, <3>2
  <2>3. IsFiniteSet({}) /\ Cardinality({}) = 0
    BY FS_EmptySet
  <2> QED BY <2>2, <2>3, ReaderNumbers DEF SeenTyped
<1> QED BY <1>1, <1>2, <1>3, <1>4 DEF NrTyped

LEMMA ReaderTypes == NrTyped => NrTypeOK
<1> SUFFICES ASSUME NrTyped PROVE NrTypeOK
  OBVIOUS
<1>1. \A k \in Keys_ : due[k] \in Missing_..Larger(5 * NrInterval[k], FailCap) /\ failures[k] \in 0..FailLimit
  BY DEF NrTyped, LongestDelay
<1>2. Cardinality(DOMAIN seen) <= MaxSources
  BY DEF NrTyped, SeenTyped
<1>3. reading # NoRead => reading.index \in 1..Len(reading.members)
  BY DEF NrTyped, UnderWay
<1> QED BY <1>1, <1>2, <1>3 DEF NrTyped, NrTypeOK

(***************************************************************************)
(* The auto-input helper: an alive snapshot carries no old value.          *)
(***************************************************************************)
Allowed(k) == IF k = "grid" THEN BackupAge ELSE AllowedAge
Lasts(k) == Allowed(k) + Interval(k) + HpPollTicks

\* Ticks until the source is refreshed at the latest.
Left(t, k) == IF t[k] = 0 THEN t["poll"] ELSE t[k] + HpPollTicks - 1

ShownAges == [ok : BOOLEAN, age : 0 .. HpCap]
Payloads == [state : {"starting", "initializing", "running"},
             captured : 0 .. HpCap, heartbeat : 0 .. HpCap,
             pv : ShownAges, gateway : ShownAges, battery : ShownAges, grid : ShownAges]

\* What is shown will not be too old when it is refreshed next.
KeptUntilDue(p, t) == \A k \in DueAll : p[k].ok => p[k].age + Left(t, k) < Lasts(k)

\* What is shown is not too old.
Young(p) == \A k \in DueAll : p[k].ok => p[k].age < Lasts(k)

SomeTimers(t) ==
    /\ t \in [Deadlines -> Nat] /\ t["poll"] <= HpPollTicks
    /\ \A k \in DueAll : t[k] <= Interval(k)

\* What one pass works on, and the file: no older than its heartbeat allows.
Passes == [payload : Payloads, stored : [there : BOOLEAN, content : Payloads],
           timers : [Deadlines -> Nat], retry : [Scopes_ -> 0 .. RetryGap],
           wanted : SUBSET Scopes_]
FileRecent(p) == \A k \in DueAll : p[k].ok => p[k].age < Lasts(k) + p.heartbeat
PassOk(h) == h \in Passes /\ FileRecent(h.stored.content)

LEMMA HelperNumbers ==
    /\ HpPollTicks \in Nat \ {0} /\ PvTicks \in Nat \ {0} /\ GridTicks \in Nat \ {0}
    /\ BatteryTicks \in Nat \ {0} /\ ValidationTicks \in Nat \ {0} /\ TopologyTicks \in Nat \ {0}
    /\ BeatTicks \in Nat \ {0} /\ RetryGap \in Nat \ {0} /\ MaxInputAge \in Nat \ {0}
    /\ BackupAge \in Nat /\ KeepAge \in Nat
    /\ AllowedAge \in Nat /\ MaxInputAge <= AllowedAge /\ AllowedAge <= HpCap
    /\ HpCap \in Nat
    /\ \A k \in DueAll : Interval(k) \in Nat \ {0} /\ Allowed(k) \in Nat /\ Lasts(k) \in Nat \ {0}
                         /\ Lasts(k) = Allowed(k) + Interval(k) + HpPollTicks
<1>1. /\ HpPollTicks \in Nat \ {0} /\ PvTicks \in Nat \ {0} /\ GridTicks \in Nat \ {0}
      /\ BatteryTicks \in Nat \ {0} /\ ValidationTicks \in Nat \ {0} /\ TopologyTicks \in Nat \ {0}
      /\ BeatTicks \in Nat \ {0} /\ RetryGap \in Nat \ {0} /\ MaxInputAge \in Nat \ {0}
      /\ BackupAge \in Nat /\ KeepAge \in Nat
  BY HpAssumption DEF HpAssumption
<1>2. AllowedAge \in Nat /\ MaxInputAge <= AllowedAge
  BY <1>1 DEF AllowedAge
<1>3. Longest \in Nat
  <2>1. \E n \in {PvTicks, GridTicks, BatteryTicks} : \A k \in {PvTicks, GridTicks, BatteryTicks} : k <= n
    BY <1>1
  <2>2. Longest \in {PvTicks, GridTicks, BatteryTicks}
    BY <2>1 DEF Longest
  <2> QED BY <1>1, <2>2
<1>4. HpCap \in Nat /\ AllowedAge <= HpCap
  BY <1>1, <1>2, <1>3 DEF HpCap
<1>5. \A k \in DueAll : Interval(k) \in Nat \ {0} /\ Allowed(k) \in Nat
  BY <1>1, <1>2 DEF DueAll, Interval, Allowed
<1>6. \A k \in DueAll : Lasts(k) \in Nat \ {0} /\ Lasts(k) = Allowed(k) + Interval(k) + HpPollTicks
  BY <1>1, <1>5 DEF Lasts
<1> QED BY <1>1, <1>2, <1>4, <1>5, <1>6

InputOk ==
    /\ input.fields \in [HpFields -> Measurements]
    /\ plan.policy \in HpPolicies

\* What the projection shows is recent.
LEMMA ProjectionIsRecent ==
    ASSUME InputOk, NEW view \in HpViews, NEW kept
    PROVE  /\ ApplyPv(kept, view) \in ShownAges
           /\ ApplyPv(kept, view).ok => ApplyPv(kept, view).age <= AllowedAge
<1> DEFINE candidates == CandidatesOf(view)
           Sound(c) == c.there => c.c.age \in 0 .. AllowedAge
<1>1. Given("pv") => input.fields["pv"].age \in 0 .. AllowedAge
  <2>1. input.fields["pv"].age \in 0 .. HpCap
    BY DEF InputOk, HpFields, Measurements
  <2> QED BY <2>1, HelperNumbers DEF Given, Usable
<1>2. view.pv.status # "error" => view.pv.age \in 0 .. AllowedAge
  BY HpInputs DEF HpInputs
<1> DEFINE gateway == [there |-> Given("pv"), c |-> input.fields["pv"]]
           outside == [there |-> plan.external /\ view.pv.status # "error", c |-> view.pv]
           nobody  == [there |-> FALSE, c |-> view.pv]
<1>3. Sound(gateway) /\ Sound(outside) /\ Sound(nobody)
  BY <1>1, <1>2
<1>4. /\ candidates[1] \in {gateway, outside, nobody}
      /\ candidates[2] \in {gateway, outside, nobody}
  <2>1. plan.policy \in {"gateway_only", "gateway_preferred", "external_preferred", "external_only"}
    BY HpAssumption DEF InputOk, HpAssumption
  <2>2. \/ candidates = <<gateway, nobody>> \/ candidates = <<gateway, outside>>
        \/ candidates = <<outside, gateway>> \/ candidates = <<outside, nobody>>
    BY <2>1 DEF CandidatesOf
  <2> HIDE DEF candidates, gateway, outside, nobody
  <2> QED BY <2>2
<1>5. Sound(candidates[1]) /\ Sound(candidates[2])
  BY <1>3, <1>4
<1> DEFINE shown == Better(candidates[1], candidates[2])
<1>6. \/ shown = NoShown
      \/ candidates[1].there /\ shown = Shown(candidates[1].c)
      \/ candidates[2].there /\ shown = Shown(candidates[2].c)
  <2> HIDE DEF candidates
  <2> QED BY DEF Better
<1>7. ApplyPv(kept, view) = shown
  BY DEF ApplyPv, SelectPvProjection
<1>8. shown \in ShownAges /\ (shown.ok => shown.age <= AllowedAge)
  <2> HIDE DEF candidates, shown
  <2>1. CASE shown = NoShown
    BY <2>1, HelperNumbers DEF NoShown, ShownAges
  <2>2. ASSUME NEW c, c.there, Sound(c), shown = Shown(c.c)
        PROVE  shown \in ShownAges /\ (shown.ok => shown.age <= AllowedAge)
    BY <2>2, HelperNumbers DEF Shown, ShownAges
  <2> QED BY <1>5, <1>6, <2>1, <2>2
<1> QED BY <1>7, <1>8

LEMMA BatteryIsRecent ==
    ASSUME InputOk
    PROVE  /\ ApplyBattery \in ShownAges
           /\ ApplyBattery.ok => ApplyBattery.age <= AllowedAge
<1>1. \A f \in HpFields : input.fields[f].age \in 0 .. HpCap
  BY DEF InputOk, Measurements
<1>2. GivenSoc => input.fields["soc"].age \in 0 .. AllowedAge
  BY <1>1, HelperNumbers DEF GivenSoc, Given, Usable, HpFields
<1>3. Given("net") => input.fields["net"].age \in 0 .. AllowedAge
  BY <1>1, HelperNumbers DEF Given, Usable, HpFields
<1>4. CASE ~GivenSoc
  BY <1>4, HelperNumbers DEF ApplyBattery, NoShown, ShownAges
<1>5. CASE GivenSoc
  <2>1. ApplyBattery = Shown(input.fields["soc"])
        \/ (Given("net") /\ ApplyBattery = Shown(input.fields["net"]))
    BY <1>5 DEF ApplyBattery
  <2>2. ASSUME NEW m, m.age \in 0 .. AllowedAge
        PROVE  Shown(m) \in ShownAges /\ Shown(m).age <= AllowedAge
    BY <2>2, HelperNumbers DEF Shown, ShownAges
  <2> QED BY <1>2, <1>3, <1>5, <2>1, <2>2
<1> QED BY <1>4, <1>5

LEMMA GridIsRecent ==
    ASSUME NEW g \in ShownAges
    PROVE  /\ ResolveGrid(g) \in ShownAges
           /\ ResolveGrid(g).ok => ResolveGrid(g).age <= BackupAge
BY HelperNumbers DEF ResolveGrid, NoShown, ShownAges

LEMMA GatewayGridShown ==
    ASSUME InputOk
    PROVE  ApplyGridGateway \in ShownAges
<1>1. input.fields["grid"].age \in 0 .. HpCap
  BY DEF InputOk, Measurements, HpFields
<1> QED BY <1>1, HelperNumbers DEF ApplyGridGateway, NoShown, Shown, ShownAges

PayloadFields == {"state", "captured", "heartbeat", "pv", "gateway", "battery", "grid"}

Updated(p, s, x, g, b, r) ==
    [p EXCEPT !.pv = x, !.gateway = g, !.battery = b, !.grid = r,
              !.state = s, !.captured = 0, !.heartbeat = 0]

LEMMA PayloadUpdated ==
    ASSUME NEW p \in Payloads, NEW q,
           NEW s \in {"starting", "initializing", "running"}, NEW x \in ShownAges,
           NEW g \in ShownAges, NEW b \in ShownAges, NEW r \in ShownAges,
           q = Updated(p, s, x, g, b, r)
    PROVE  /\ q \in Payloads
           /\ q["pv"] = x /\ q["battery"] = b /\ q["grid"] = r /\ q.heartbeat = 0
<1>1. DOMAIN p = PayloadFields
  BY DEF Payloads, PayloadFields
<1>2. DOMAIN q = PayloadFields /\ q = [f \in PayloadFields |-> q[f]]
  BY <1>1 DEF Updated
<1>3. /\ q.pv = x /\ q.gateway = g /\ q.battery = b /\ q.grid = r
      /\ q.state = s /\ q.captured = 0 /\ q.heartbeat = 0
  BY <1>1 DEF PayloadFields, Updated
<1>4. q = [state |-> q.state, captured |-> q.captured, heartbeat |-> q.heartbeat, pv |-> q.pv,
           gateway |-> q.gateway, battery |-> q.battery, grid |-> q.grid]
  <2> HIDE <1>3
  <2> QED BY <1>2 DEF PayloadFields
<1>5. 0 \in 0 .. HpCap
  BY HelperNumbers
<1>6. q \in Payloads
  BY <1>3, <1>4, <1>5 DEF Payloads
<1> QED BY <1>3, <1>6

\* What is applied is recent, the rest stays.
LEMMA AppliedIsRecent ==
    ASSUME InputOk, NEW p \in Payloads, NEW overdue, overdue \subseteq DueAll, NEW view \in HpViews
    PROVE  /\ ApplyInputs(p, overdue, view) \in Payloads
           /\ \A k \in DueAll :
                 \/ ApplyInputs(p, overdue, view)[k] = p[k] /\ k \notin overdue
                 \/ ApplyInputs(p, overdue, view)[k].ok => ApplyInputs(p, overdue, view)[k].age <= Allowed(k)
           /\ ApplyInputs(p, overdue, view).heartbeat = 0
<1> DEFINE q == ApplyInputs(p, overdue, view)
           g == IF "grid" \in overdue THEN ApplyGridGateway ELSE p.gateway
           pv == IF "pv" \in overdue THEN ApplyPv(p.pv, view) ELSE p.pv
           b == CASE "battery" \notin overdue -> p.battery
                  [] "battery" \in overdue /\ plan.external -> ApplyExternalBattery(view)
                  [] OTHER -> ApplyBattery
<1>3. pv \in ShownAges /\ ("pv" \in overdue => (pv.ok => pv.age <= AllowedAge))
  <2>1. p.pv \in ShownAges
    BY DEF Payloads
  <2>2. ApplyPv(p.pv, view) \in ShownAges
        /\ (ApplyPv(p.pv, view).ok => ApplyPv(p.pv, view).age <= AllowedAge)
    BY ProjectionIsRecent
  <2> QED BY <2>1, <2>2
<1>4. g \in ShownAges
  BY GatewayGridShown DEF Payloads
<1>5. b \in ShownAges /\ ("battery" \in overdue => (b.ok => b.age <= AllowedAge))
  <2>1. p.battery \in ShownAges
    BY DEF Payloads
  <2>2. view.battery \in ShownAges /\ view.battery.age <= AllowedAge
    <3>1. view.battery \in [ok : BOOLEAN, age : 0 .. AllowedAge]
      BY HpInputs DEF HpInputs
    <3> QED BY <3>1, HelperNumbers DEF ShownAges
  <2>3. ApplyBattery \in ShownAges /\ (ApplyBattery.ok => ApplyBattery.age <= AllowedAge)
    BY BatteryIsRecent
  <2> QED BY <2>1, <2>2, <2>3 DEF ApplyExternalBattery
<1>6. ResolveGrid(g) \in ShownAges /\ (ResolveGrid(g).ok => ResolveGrid(g).age <= BackupAge)
  BY <1>4, GridIsRecent
<1>7. MarkRunning(p.state, overdue) \in {"starting", "initializing", "running"}
  BY DEF MarkRunning, Payloads
<1>8. q \in Payloads /\ q["pv"] = pv /\ q["battery"] = b /\ q["grid"] = ResolveGrid(g) /\ q.heartbeat = 0
  <2>1. q = Updated(p, MarkRunning(p.state, overdue), pv, g, b, ResolveGrid(g))
    BY DEF ApplyInputs, Updated
  <2> HIDE DEF q, pv, g, b
  <2> QED BY <1>3, <1>4, <1>5, <1>6, <1>7, <2>1, PayloadUpdated
<1>9. /\ q["pv"] = pv /\ q["battery"] = b /\ q["grid"] = ResolveGrid(g) /\ q.heartbeat = 0
  BY <1>8
<1>10. ASSUME NEW k \in DueAll
       PROVE  (q[k] = p[k] /\ k \notin overdue) \/ (q[k].ok => q[k].age <= Allowed(k))
  <2>1. CASE k = "pv"
    <3>1. "pv" \notin overdue => pv = p["pv"]
      OBVIOUS
    <3> HIDE DEF q, pv
    <3> QED BY <2>1, <1>9, <1>3, <3>1 DEF Allowed
  <2>2. CASE k = "battery"
    <3>1. "battery" \notin overdue => b = p["battery"]
      OBVIOUS
    <3> HIDE DEF q, b
    <3> QED BY <2>2, <1>9, <1>5, <3>1 DEF Allowed
  <2>3. CASE k = "grid"
    <3> HIDE DEF q, g
    <3> QED BY <2>3, <1>9, <1>6 DEF Allowed
  <2> QED BY <2>1, <2>2, <2>3 DEF DueAll
<1> QED BY <1>8, <1>9, <1>10

LEMMA SnapshotWritten ==
    ASSUME NEW h, PassOk(h), Young(h.payload), NEW works \in BOOLEAN
    PROVE  /\ PassOk(WriteSnapshot(h, works))
           /\ WriteSnapshot(h, works).payload = h.payload
           /\ WriteSnapshot(h, works).timers = h.timers
<1>1. CASE ~works
  BY <1>1 DEF WriteSnapshot
<1>2. CASE works
  <2> DEFINE file == [there |-> TRUE, content |-> h.payload]
             n == [h EXCEPT !.stored = file]
  <2>1. file \in [there : BOOLEAN, content : Payloads] /\ file.content = h.payload
    BY DEF PassOk, Passes
  <2>2. n \in Passes /\ n.stored = file /\ n.payload = h.payload /\ n.timers = h.timers
    <3> HIDE DEF file
    <3> QED BY <2>1 DEF PassOk, Passes
  <2>3. FileRecent(h.payload)
    <3>1. h.payload \in Payloads
      BY DEF PassOk, Passes
    <3>2. h.payload.heartbeat \in Nat
      BY <3>1, HelperNumbers DEF Payloads
    <3>3. ASSUME NEW k \in DueAll, h.payload[k].ok
          PROVE  h.payload[k].age < Lasts(k) + h.payload.heartbeat
      <4>1. h.payload[k].age < Lasts(k) /\ Lasts(k) \in Nat
        BY <3>3, HelperNumbers DEF Young
      <4>2. h.payload[k].age \in Nat
        BY <3>1, HelperNumbers DEF Payloads, ShownAges, DueAll
      <4> QED BY <3>2, <4>1, <4>2
    <3> QED BY <3>3 DEF FileRecent
  <2>4. WriteSnapshot(h, works) = n
    BY <1>2 DEF WriteSnapshot
  <2> HIDE DEF n, file
  <2> QED BY <2>1, <2>2, <2>3, <2>4 DEF PassOk
<1> QED BY <1>1, <1>2

LEMMA RefreshRequested ==
    ASSUME NEW h, PassOk(h), NEW scopes, scopes \subseteq Scopes_, NEW works \in BOOLEAN
    PROVE  /\ PassOk(RequestRefresh_(h, scopes, works))
           /\ RequestRefresh_(h, scopes, works).payload = h.payload
           /\ RequestRefresh_(h, scopes, works).timers = h.timers
<1> DEFINE allowed == {scope \in scopes : h.retry[scope] = 0}
           gaps == [s \in Scopes_ |-> IF s \in allowed THEN RetryGap ELSE h.retry[s]]
           n == [h EXCEPT !.retry = gaps]
           m == [n EXCEPT !.wanted = @ \cup allowed]
<1>1. gaps \in [Scopes_ -> 0 .. RetryGap]
  <2>1. RetryGap \in 0 .. RetryGap /\ h.retry \in [Scopes_ -> 0 .. RetryGap]
    BY HelperNumbers DEF PassOk, Passes
  <2> QED BY <2>1
<1>2. allowed \subseteq Scopes_
  OBVIOUS
<1>3. PassOk(n) /\ n.payload = h.payload /\ n.timers = h.timers
  <2> HIDE DEF gaps
  <2> QED BY <1>1 DEF PassOk, Passes
<1>4. PassOk(m) /\ m.payload = n.payload /\ m.timers = n.timers
  <2> HIDE DEF n, allowed
  <2> QED BY <1>2, <1>3 DEF PassOk, Passes
<1>5. RequestRefresh_(h, scopes, works) \in {n, m}
  BY DEF RequestRefresh_, Enqueue_
<1> HIDE DEF n, m
<1> QED BY <1>3, <1>4, <1>5

LEMMA Refreshed ==
    ASSUME InputOk, NEW h, PassOk(h), NEW overdue, overdue \subseteq DueAll, NEW view \in HpViews,
           NEW initial \in BOOLEAN, NEW writes \in BOOLEAN, NEW sends \in BOOLEAN,
           Young(h.payload)
    PROVE  LET n == Refresh(h, overdue, view, initial, writes, sends)
           IN  /\ PassOk(n) /\ n.timers = h.timers /\ Young(n.payload)
               /\ \A k \in DueAll :
                     \/ n.payload[k] = h.payload[k] /\ k \notin overdue
                     \/ n.payload[k].ok => n.payload[k].age <= Allowed(k)
<1> DEFINE q == ApplyInputs(h.payload, overdue, view)
           asked == RequestMissing(overdue)
                     \cup (IF initial /\ ~Loaded_ THEN {"all"} ELSE {})
                     \cup (IF initial /\ ~topology THEN {"topology"} ELSE {})
           applied == [h EXCEPT !.payload = q]
           sent == RequestRefresh_(applied, asked, sends)
           n == Refresh(h, overdue, view, initial, writes, sends)
<1>1. h.payload \in Payloads
  BY DEF PassOk, Passes
<1>2. /\ q \in Payloads
      /\ \A k \in DueAll : \/ q[k] = h.payload[k] /\ k \notin overdue
                           \/ q[k].ok => q[k].age <= Allowed(k)
  BY <1>1, AppliedIsRecent
<1>3. Young(q)
  <2> HIDE DEF q
  <2>1. ASSUME NEW k \in DueAll, q[k].ok PROVE q[k].age < Lasts(k)
    <3>1. CASE q[k] = h.payload[k]
      BY <2>1, <3>1 DEF Young
    <3>2. CASE q[k].age <= Allowed(k)
      <4>1. q[k].age \in Nat
        BY <1>2, HelperNumbers DEF Payloads, ShownAges, DueAll
      <4>2. /\ Allowed(k) \in Nat /\ Interval(k) \in Nat \ {0} /\ HpPollTicks \in Nat
            /\ Lasts(k) = Allowed(k) + Interval(k) + HpPollTicks
        BY HelperNumbers
      <4> QED BY <3>2, <4>1, <4>2
    <3> QED BY <1>2, <2>1, <3>1, <3>2
  <2> QED BY <2>1 DEF Young
<1>4. asked \subseteq Scopes_
  BY DEF RequestMissing, Scopes_, DueAll
<1>5. PassOk(applied) /\ applied.payload = q /\ applied.timers = h.timers
  <2> HIDE DEF q
  <2> QED BY <1>2 DEF PassOk, Passes
<1>6. PassOk(sent) /\ sent.payload = q /\ sent.timers = h.timers
  <2> HIDE DEF applied, asked, q
  <2> QED BY <1>4, <1>5, RefreshRequested
<1>7. n = WriteSnapshot(sent, writes)
  BY DEF Refresh
<1>8. PassOk(n) /\ n.payload = q /\ n.timers = h.timers
  <2> HIDE DEF sent, q, n
  <2> QED BY <1>3, <1>6, <1>7, SnapshotWritten
<1> HIDE DEF q
<1> QED BY <1>2, <1>3, <1>8

LEMMA LeftIsBounded ==
    ASSUME NEW t, SomeTimers(t), NEW k \in DueAll
    PROVE  /\ Left(t, k) \in Nat /\ Left(t, k) < Interval(k) + HpPollTicks
           /\ Interval(k) \in Nat \ {0} /\ Allowed(k) \in Nat /\ HpPollTicks \in Nat \ {0}
           /\ Lasts(k) = Allowed(k) + Interval(k) + HpPollTicks
<1>1. /\ Interval(k) \in Nat \ {0} /\ Allowed(k) \in Nat /\ HpPollTicks \in Nat \ {0}
      /\ Lasts(k) = Allowed(k) + Interval(k) + HpPollTicks
  BY HelperNumbers
<1>2. t["poll"] \in Nat /\ t["poll"] <= HpPollTicks /\ t[k] \in Nat /\ t[k] <= Interval(k)
  BY DEF SomeTimers, Deadlines, DueAll
<1>3. Left(t, k) \in Nat /\ Left(t, k) < Interval(k) + HpPollTicks
  BY <1>1, <1>2 DEF Left
<1> QED BY <1>1, <1>3

AgesKnown(p) == \A k \in DueAll : p[k].age \in Nat

LEMMA AgesAreKnown ==
    ASSUME NEW p \in Payloads
    PROVE  AgesKnown(p)
BY HelperNumbers DEF Payloads, ShownAges, DueAll, AgesKnown

LEMMA KeptIsYoung ==
    ASSUME NEW p \in Payloads, NEW t, SomeTimers(t), KeptUntilDue(p, t)
    PROVE  Young(p)
<1> SUFFICES ASSUME NEW k \in DueAll, p[k].ok PROVE p[k].age < Lasts(k)
  BY DEF Young
<1>1. p[k].age + Left(t, k) < Lasts(k) /\ p[k].age \in Nat
  BY AgesAreKnown DEF KeptUntilDue, AgesKnown
<1> QED BY <1>1, LeftIsBounded

\* What was just applied is kept until it is due again.
LEMMA RecentIsKept ==
    ASSUME NEW p \in Payloads, NEW t, SomeTimers(t), NEW k \in DueAll,
           p[k].age <= Allowed(k)
    PROVE  p[k].age + Left(t, k) < Lasts(k)
<1>1. p[k].age \in Nat
  BY AgesAreKnown DEF AgesKnown
<1> QED BY <1>1, LeftIsBounded

PassGood(h) == PassOk(h) /\ SomeTimers(h.timers) /\ KeptUntilDue(h.payload, h.timers)

RefreshedFrom(n, h, overdue) ==
    /\ PassGood(n) /\ n.timers = h.timers
    /\ \A k \in DueAll :
          \/ n.payload[k] = h.payload[k] /\ k \notin overdue
          \/ n.payload[k].ok => n.payload[k].age <= Allowed(k)

\* A refresh that is not counted in the timers.
LEMMA ExtraRefresh ==
    ASSUME InputOk, NEW h, PassGood(h), NEW overdue, overdue \subseteq DueAll, NEW view \in HpViews,
           NEW initial \in BOOLEAN, NEW writes \in BOOLEAN, NEW sends \in BOOLEAN
    PROVE  RefreshedFrom(Refresh(h, overdue, view, initial, writes, sends), h, overdue)
<1> DEFINE n == Refresh(h, overdue, view, initial, writes, sends)
<1>1. h.payload \in Payloads
  BY DEF PassGood, PassOk, Passes
<1>2. Young(h.payload)
  BY <1>1, KeptIsYoung DEF PassGood
<1>3. /\ PassOk(n) /\ n.timers = h.timers /\ Young(n.payload)
      /\ \A k \in DueAll :
            \/ n.payload[k] = h.payload[k] /\ k \notin overdue
            \/ n.payload[k].ok => n.payload[k].age <= Allowed(k)
  BY <1>2, Refreshed DEF PassGood
<1> HIDE DEF n
<1>4. n.payload \in Payloads
  BY <1>3 DEF PassOk, Passes
<1>5. KeptUntilDue(n.payload, n.timers)
  <2> SUFFICES ASSUME NEW k \in DueAll, n.payload[k].ok
               PROVE  n.payload[k].age + Left(h.timers, k) < Lasts(k)
    BY <1>3 DEF KeptUntilDue
  <2>1. CASE n.payload[k] = h.payload[k]
    BY <2>1 DEF PassGood, KeptUntilDue
  <2>2. CASE n.payload[k].age <= Allowed(k)
    BY <1>4, <2>2, RecentIsKept DEF PassGood
  <2> QED BY <1>3, <2>1, <2>2
<1>6. PassGood(n)
  BY <1>3, <1>5 DEF PassGood
<1>7. RefreshedFrom(n, h, overdue)
  BY <1>3, <1>6 DEF RefreshedFrom
<1> QED BY <1>7 DEF n

\* The sources that are due are refreshed and counted anew.
LEMMA HelperPollKeeps ==
    ASSUME InputOk, NEW h, PassGood(h), NEW view \in HpViews,
           NEW writes \in BOOLEAN, NEW sends \in BOOLEAN
    PROVE  /\ PassGood(PollPart(h, view, writes, sends))
           /\ PollPart(h, view, writes, sends).timers["poll"] > 0
<1> DEFINE overdue == {s \in DueAll : h.timers[s] = 0}
           done == IF overdue = {} THEN h ELSE Refresh(h, overdue, view, FALSE, writes, sends)
           t == [d \in Deadlines |->
                   IF d \in overdue THEN Interval(d)
                   ELSE IF d = "poll" THEN HpPollTicks ELSE done.timers[d]]
           n == [done EXCEPT !.timers = t]
<1>1. CASE h.timers["poll"] > 0
  BY <1>1 DEF PollPart
<1>2. CASE ~(h.timers["poll"] > 0)
  <2>1. /\ PassGood(done) /\ done.timers = h.timers
        /\ \A k \in DueAll :
              \/ done.payload[k] = h.payload[k] /\ k \notin overdue
              \/ done.payload[k].ok => done.payload[k].age <= Allowed(k)
    <3> DEFINE r == Refresh(h, overdue, view, FALSE, writes, sends)
    <3>1. RefreshedFrom(r, h, overdue)
      <4>1. overdue \subseteq DueAll
        OBVIOUS
      <4> HIDE DEF overdue
      <4> QED BY <4>1, ExtraRefresh
    <3>2. CASE overdue = {}
      BY <3>2
    <3>3. CASE overdue # {}
      <4>1. done = r
        BY <3>3
      <4> HIDE DEF done, r, overdue
      <4> QED BY <3>1, <4>1 DEF RefreshedFrom
    <3> QED BY <3>2, <3>3
  <2>2. SomeTimers(h.timers)
    BY DEF PassGood
  <2>3. SomeTimers(t) /\ t["poll"] = HpPollTicks
    <3>1. \A d \in Deadlines : t[d] \in Nat
      <4> SUFFICES ASSUME NEW d \in Deadlines PROVE t[d] \in Nat
        OBVIOUS
      <4>1. done.timers[d] \in Nat
        BY <2>1, <2>2 DEF SomeTimers
      <4>2. d \in overdue => Interval(d) \in Nat
        BY HelperNumbers
      <4> HIDE DEF done, overdue
      <4> QED BY <4>1, <4>2, HelperNumbers
    <3>2. t["poll"] = HpPollTicks
      BY DEF DueAll, Deadlines
    <3>3. \A k \in DueAll : t[k] <= Interval(k)
      <4> SUFFICES ASSUME NEW k \in DueAll PROVE t[k] <= Interval(k)
        OBVIOUS
      <4>1. k \in Deadlines /\ k # "poll"
        BY DEF DueAll, Deadlines
      <4>2. done.timers[k] <= Interval(k) /\ Interval(k) \in Nat
        BY <2>1, <2>2, HelperNumbers DEF SomeTimers
      <4> HIDE DEF done, overdue
      <4> QED BY <4>1, <4>2
    <3> HIDE DEF t
    <3>4. t \in [Deadlines -> Nat]
      <4>1. t = [d \in Deadlines |-> t[d]]
        BY DEF t
      <4> QED BY <3>1, <4>1
    <3> QED BY <3>2, <3>3, <3>4, HelperNumbers DEF SomeTimers
  <2>4. done.payload \in Payloads
    <3> HIDE DEF done
    <3> QED BY <2>1 DEF PassGood, PassOk, Passes
  <2>5. KeptUntilDue(done.payload, t)
    <3> SUFFICES ASSUME NEW k \in DueAll, done.payload[k].ok
                 PROVE  done.payload[k].age + Left(t, k) < Lasts(k)
      BY DEF KeptUntilDue
    <3>1. CASE k \in overdue
      <4>1. done.payload[k].age <= Allowed(k)
        <5> HIDE DEF done
        <5> QED BY <2>1, <3>1
      <4> HIDE DEF done, t
      <4> QED BY <2>3, <2>4, <4>1, RecentIsKept
    <3>2. CASE k \notin overdue
      <4>1. t[k] = h.timers[k] /\ h.timers[k] # 0
        <5>1. k \in Deadlines /\ k # "poll" /\ h.timers[k] # 0
          BY <3>2 DEF DueAll, Deadlines
        <5> HIDE DEF done, overdue
        <5> QED BY <2>1, <3>2, <5>1
      <4>2. Left(t, k) = Left(h.timers, k)
        <5> HIDE DEF t
        <5> QED BY <4>1 DEF Left
      <4>3. done.payload[k].age + Left(h.timers, k) < Lasts(k)
        <5> HIDE DEF done
        <5> QED BY <2>1 DEF PassGood, KeptUntilDue
      <4> HIDE DEF done, t
      <4> QED BY <4>2, <4>3
    <3> QED BY <3>1, <3>2
  <2>6. PassOk(n) /\ n.timers = t /\ n.payload = done.payload
    <3> HIDE DEF done, t
    <3> QED BY <2>1, <2>3 DEF PassGood, PassOk, Passes, SomeTimers
  <2>7. PollPart(h, view, writes, sends) = n
    BY <1>2 DEF PollPart
  <2> HIDE DEF n, t, done
  <2> QED BY <2>3, <2>5, <2>6, <2>7, HelperNumbers DEF PassGood
<1> QED BY <1>1, <1>2

\* A timer that is not one of the sources' or the poll's may be set.
LEMMA TimerSet ==
    ASSUME NEW h, PassGood(h), NEW d \in Deadlines, d \notin DueAll, d # "poll", NEW v \in Nat
    PROVE  /\ PassGood([h EXCEPT !.timers[d] = v])
           /\ [h EXCEPT !.timers[d] = v].timers["poll"] = h.timers["poll"]
<1> DEFINE t == [h.timers EXCEPT ![d] = v]
           n == [h EXCEPT !.timers = t]
<1>1. h.timers \in [Deadlines -> Nat]
  BY DEF PassGood, SomeTimers
<1>2. t \in [Deadlines -> Nat] /\ t["poll"] = h.timers["poll"] /\ \A k \in DueAll : t[k] = h.timers[k]
  BY <1>1
<1>3. SomeTimers(t) /\ KeptUntilDue(h.payload, t)
  <2> HIDE DEF t
  <2>1. \A k \in DueAll : Left(t, k) = Left(h.timers, k)
    BY <1>2 DEF Left
  <2> QED BY <1>2, <2>1 DEF PassGood, SomeTimers, KeptUntilDue
<1>4. PassOk(n) /\ n.payload = h.payload /\ n.timers = t
  <2> HIDE DEF t
  <2> QED BY <1>2 DEF PassGood, PassOk, Passes
<1>5. [h EXCEPT !.timers[d] = v] = n
  BY DEF PassGood, PassOk, Passes
<1> HIDE DEF n, t
<1> QED BY <1>2, <1>3, <1>4, <1>5 DEF PassGood

LEMMA ValidationKeeps ==
    ASSUME InputOk, NEW h, PassGood(h), NEW view \in HpViews,
           NEW writes \in BOOLEAN, NEW sends \in BOOLEAN
    PROVE  /\ PassGood(ValidationPart(h, view, writes, sends))
           /\ ValidationPart(h, view, writes, sends).timers["poll"] = h.timers["poll"]
<1> DEFINE r == Refresh(h, DueAll, view, FALSE, writes, sends)
           n == [r EXCEPT !.timers["validation"] = ValidationTicks]
<1>1. RefreshedFrom(r, h, DueAll)
  BY ExtraRefresh
<1>2. PassGood(r) /\ r.timers = h.timers
  BY <1>1 DEF RefreshedFrom
<1>3. PassGood(n) /\ n.timers["poll"] = r.timers["poll"]
  <2> HIDE DEF r
  <2> QED BY <1>2, TimerSet, HelperNumbers DEF Deadlines, DueAll
<1>4. ValidationPart(h, view, writes, sends) \in {h, n}
  BY DEF ValidationPart
<1> HIDE DEF n, r
<1> QED BY <1>2, <1>3, <1>4

LEMMA TopologyKeeps ==
    ASSUME NEW h, PassGood(h), NEW sends \in BOOLEAN
    PROVE  /\ PassGood(TopologyPart(h, sends))
           /\ TopologyPart(h, sends).timers["poll"] = h.timers["poll"]
<1> DEFINE r == RequestRefresh_(h, {"topology"}, sends)
           n == [r EXCEPT !.timers["topology"] = TopologyTicks]
<1>1. PassOk(r) /\ r.payload = h.payload /\ r.timers = h.timers
  BY RefreshRequested DEF PassGood, Scopes_
<1>2. PassGood(r)
  BY <1>1 DEF PassGood
<1>3. PassGood(n) /\ n.timers["poll"] = r.timers["poll"]
  <2> HIDE DEF r
  <2> QED BY <1>2, TimerSet, HelperNumbers DEF Deadlines, DueAll
<1>4. TopologyPart(h, sends) \in {h, n}
  BY DEF TopologyPart
<1> HIDE DEF n, r
<1> QED BY <1>1, <1>3, <1>4

LEMMA HeartbeatKeeps ==
    ASSUME NEW h, PassGood(h), NEW writes \in BOOLEAN
    PROVE  /\ PassGood(HeartbeatPart(h, writes))
           /\ HeartbeatPart(h, writes).timers["poll"] = h.timers["poll"]
<1> DEFINE p == Heartbeat(h.payload)
           b == [h EXCEPT !.payload = p]
           w == WriteSnapshot(b, writes)
           n == [w EXCEPT !.timers["heartbeat"] = BeatTicks]
<1>1. h.payload \in Payloads
  BY DEF PassGood, PassOk, Passes
<1>2. p \in Payloads /\ \A k \in DueAll : p[k] = h.payload[k]
  BY <1>1, HelperNumbers DEF Heartbeat, Payloads, DueAll
<1>3. KeptUntilDue(p, h.timers)
  <2> HIDE DEF p
  <2> QED BY <1>2 DEF PassGood, KeptUntilDue
<1>4. PassGood(b) /\ b.timers = h.timers /\ b.payload = p
  <2> HIDE DEF p
  <2> QED BY <1>2, <1>3 DEF PassGood, PassOk, Passes
<1>5. Young(p)
  <2> HIDE DEF p
  <2> QED BY <1>2, <1>3, KeptIsYoung DEF PassGood
<1>6. PassOk(w) /\ w.payload = p /\ w.timers = h.timers
  <2> HIDE DEF b, p
  <2> QED BY <1>4, <1>5, SnapshotWritten DEF PassGood
<1>7. PassGood(w)
  <2> HIDE DEF w, b, p
  <2> QED BY <1>4, <1>6 DEF PassGood
<1>8. PassGood(n) /\ n.timers["poll"] = w.timers["poll"]
  <2> HIDE DEF w
  <2> QED BY <1>7, TimerSet, HelperNumbers DEF Deadlines, DueAll
<1>9. HeartbeatPart(h, writes) \in {h, n}
  BY DEF HeartbeatPart
<1> HIDE DEF n, w
<1> QED BY <1>6, <1>8, <1>9

HelperInv ==
    /\ stage \in {"off", "starting", "initializing", "first", "running"}
    /\ stage # "off" => plan.policy \in HpPolicies
    /\ stage = "off" => \A k \in DueAll : ~payload[k].ok
    /\ stage # "running" => timers = FirstSchedule
    /\ stage = "running" /\ passed => timers["poll"] > 0
    /\ DOMAIN input = {"there", "sound", "age", "fields"}
    /\ input.fields \in [HpFields -> Measurements]
    /\ PassGood(Here)

LEMMA HelperTyped == HelperInv => HpTypeOK /\ AliveIsRecent
<1> SUFFICES ASSUME HelperInv PROVE HpTypeOK /\ AliveIsRecent
  OBVIOUS
<1>1. /\ payload \in Payloads /\ stored \in [there : BOOLEAN, content : Payloads]
      /\ timers \in [Deadlines -> Nat] /\ retry \in [Scopes_ -> 0 .. RetryGap]
      /\ wanted \subseteq Scopes_ /\ FileRecent(stored.content)
  BY DEF HelperInv, PassGood, PassOk, Passes, Here
<1>2. HpTypeOK
  BY <1>1 DEF HpTypeOK, HelperInv, Payloads, ShownAges
<1>3. \A k \in DueAll : Interval(k) = (IF k = "pv" THEN PvTicks ELSE IF k = "grid" THEN GridTicks ELSE BatteryTicks)
  BY DEF Interval, DueAll
<1>4. /\ Lasts("pv") = AllowedAge + PvTicks + HpPollTicks
      /\ Lasts("grid") = BackupAge + GridTicks + HpPollTicks
      /\ Lasts("battery") = AllowedAge + BatteryTicks + HpPollTicks
  BY <1>3 DEF Lasts, Allowed, DueAll
<1>5. AliveIsRecent
  <2>1. \A k \in DueAll : stored.content[k].ok => stored.content[k].age < Lasts(k) + stored.content.heartbeat
    BY <1>1 DEF FileRecent
  <2>2. stored.content.heartbeat \in Nat
    BY <1>1, HelperNumbers DEF Payloads
  <2> DEFINE p == stored.content
  <2>3. /\ p["pv"].ok => p["pv"].age < Lasts("pv") + p.heartbeat
        /\ p["grid"].ok => p["grid"].age < Lasts("grid") + p.heartbeat
        /\ p["battery"].ok => p["battery"].age < Lasts("battery") + p.heartbeat
    BY <2>1 DEF DueAll
  <2>4. /\ p.pv.ok => p.pv.age < AllowedAge + PvTicks + HpPollTicks + p.heartbeat
        /\ p.grid.ok => p.grid.age < BackupAge + GridTicks + HpPollTicks + p.heartbeat
        /\ p.battery.ok => p.battery.age < AllowedAge + BatteryTicks + HpPollTicks + p.heartbeat
    <3> HIDE DEF p
    <3> QED BY <1>4, <2>3
  <2> QED BY <2>4 DEF AliveIsRecent
<1> QED BY <1>2, <1>5

LEMMA EmptyIsKept ==
    /\ EmptySnapshot \in Payloads /\ \A k \in DueAll : ~EmptySnapshot[k].ok
    /\ FirstSchedule["poll"] = HpPollTicks /\ SomeTimers(FirstSchedule)
    /\ NoRetry \in [Scopes_ -> 0 .. RetryGap]
<1>1. NoShown \in ShownAges /\ HpCap \in 0 .. HpCap
  BY HelperNumbers DEF NoShown, ShownAges
<1>2. EmptySnapshot \in Payloads
  BY <1>1 DEF EmptySnapshot, Payloads
<1>3. \A k \in DueAll : ~EmptySnapshot[k].ok
  BY DEF EmptySnapshot, DueAll, NoShown
<1>4. \A d \in Deadlines : FirstSchedule[d] \in Nat
  <2>1. /\ FirstSchedule["pv"] = 0 /\ FirstSchedule["grid"] = 0 /\ FirstSchedule["battery"] = 0
        /\ FirstSchedule["poll"] = HpPollTicks
    BY DEF FirstSchedule, Deadlines, DueAll
  <2>2. /\ FirstSchedule["validation"] = ValidationTicks /\ FirstSchedule["topology"] = TopologyTicks
        /\ FirstSchedule["heartbeat"] = BeatTicks /\ FirstSchedule["parent"] = 1
    BY DEF FirstSchedule, Deadlines, DueAll
  <2> QED BY <2>1, <2>2, HelperNumbers DEF Deadlines
<1>5. FirstSchedule["poll"] = HpPollTicks /\ \A k \in DueAll : FirstSchedule[k] = 0
  BY DEF FirstSchedule, Deadlines, DueAll
<1>6. SomeTimers(FirstSchedule)
  <2> DEFINE first(d) == CASE d \in DueAll -> 0
                           [] d = "poll" -> HpPollTicks
                           [] d = "validation" -> ValidationTicks
                           [] d = "topology" -> TopologyTicks
                           [] d = "heartbeat" -> BeatTicks
                           [] d = "parent" -> 1
  <2>1. FirstSchedule = [d \in Deadlines |-> first(d)]
    BY Zenon DEF FirstSchedule
  <2>2. FirstSchedule \in [Deadlines -> Nat]
    <3> HIDE DEF first
    <3> QED BY <1>4, <2>1
  <2> QED BY <1>5, <2>2, HelperNumbers DEF SomeTimers
<1>7. NoRetry \in [Scopes_ -> 0 .. RetryGap]
  BY HelperNumbers DEF NoRetry
<1> QED BY <1>2, <1>3, <1>5, <1>6, <1>7

\* Nothing shown: nothing to keep.
LEMMA NothingShownIsKept ==
    ASSUME NEW p, NEW t, \A k \in DueAll : ~p[k].ok
    PROVE  KeptUntilDue(p, t)
BY DEF KeptUntilDue

LEMMA HelperStarts == HpInit => HelperInv
<1> SUFFICES ASSUME HpInit PROVE HelperInv
  OBVIOUS
<1>1. /\ stage = "off" /\ payload = EmptySnapshot /\ timers = FirstSchedule /\ retry = NoRetry
      /\ wanted = {} /\ stored = [there |-> FALSE, content |-> EmptySnapshot] /\ input = NoFileYet
  BY DEF HpInit
<1>2. Here \in Passes
  <2>1. stored \in [there : BOOLEAN, content : Payloads]
    BY <1>1, EmptyIsKept
  <2> QED BY <1>1, <2>1, EmptyIsKept DEF Here, Passes, SomeTimers
<1>3. FileRecent(EmptySnapshot)
  BY EmptyIsKept DEF FileRecent
<1>4. PassGood(Here)
  BY <1>1, <1>2, <1>3, EmptyIsKept, NothingShownIsKept DEF PassGood, PassOk, Here
<1>5. DOMAIN NoFileYet = {"there", "sound", "age", "fields"} /\ NoFileYet.fields \in [HpFields -> Measurements]
  BY HelperNumbers DEF NoFileYet, Measurements
<1> QED BY <1>1, <1>4, <1>5, EmptyIsKept DEF HelperInv

\* The process goes on with what a pass left, or ends and keeps nothing but the file.
LEMMA BecomesGood ==
    ASSUME NEW h, NEW next, PassOk(h), next # "off" => PassGood(h), Becomes(h, next)
    PROVE  /\ stage' = next /\ PassGood(Here)'
           /\ next = "off" => timers' = FirstSchedule /\ \A k \in DueAll : ~payload'[k].ok
           /\ next # "off" => timers' = h.timers /\ plan' = plan
<1>1. /\ stage' = next /\ stored' = h.stored /\ wanted' = h.wanted
      /\ next = "off" => payload' = EmptySnapshot /\ timers' = FirstSchedule /\ retry' = NoRetry
      /\ next # "off" => payload' = h.payload /\ timers' = h.timers /\ retry' = h.retry /\ plan' = plan
  BY DEF Becomes
<1>2. h.stored \in [there : BOOLEAN, content : Payloads] /\ h.wanted \subseteq Scopes_ /\ FileRecent(h.stored.content)
  BY DEF PassOk, Passes
<1>3. /\ payload' \in Payloads /\ SomeTimers(timers') /\ retry' \in [Scopes_ -> 0 .. RetryGap]
      /\ KeptUntilDue(payload', timers')
  <2>1. CASE next = "off"
    BY <1>1, <2>1, EmptyIsKept, NothingShownIsKept
  <2>2. CASE next # "off"
    BY <1>1, <2>2 DEF PassGood, PassOk, Passes
  <2> QED BY <2>1, <2>2
<1>4. PassGood(Here)'
  <2>1. Here' = [payload |-> payload', stored |-> stored', timers |-> timers', retry |-> retry', wanted |-> wanted']
    BY DEF Here
  <2>2. Here' \in Passes
    BY <1>1, <1>2, <1>3, <2>1 DEF Passes, SomeTimers
  <2>3. /\ Here'.stored = h.stored /\ Here'.payload = payload' /\ Here'.timers = timers'
    BY <1>1, <2>1
  <2>4. PassGood(Here')
    BY <1>2, <1>3, <2>2, <2>3 DEF PassGood, PassOk
  <2> QED BY <2>4
<1> QED BY <1>1, <1>4, EmptyIsKept

LEMMA HelperLaunches == HelperInv /\ Launch => HelperInv'
<1> SUFFICES ASSUME HelperInv, Launch PROVE HelperInv'
  OBVIOUS
<1>1. /\ payload' = EmptySnapshot /\ timers' = FirstSchedule /\ retry' = NoRetry /\ stage' = "starting"
      /\ input' = input /\ stored' = stored /\ wanted' = wanted
      /\ plan'.policy \in HpPolicies
  BY DEF Launch
<1>2. stored \in [there : BOOLEAN, content : Payloads] /\ wanted \subseteq Scopes_ /\ FileRecent(stored.content)
  BY DEF HelperInv, PassGood, PassOk, Passes, Here
<1>3. PassGood(Here)'
  <2>1. Here' = [payload |-> EmptySnapshot, stored |-> stored, timers |-> FirstSchedule,
                 retry |-> NoRetry, wanted |-> wanted]
    BY <1>1 DEF Here
  <2>2. Here' \in Passes
    BY <1>2, <2>1, EmptyIsKept DEF Passes, SomeTimers
  <2>3. PassGood(Here')
    BY <1>2, <2>1, <2>2, EmptyIsKept, NothingShownIsKept DEF PassGood, PassOk
  <2> QED BY <2>3
<1> QED BY <1>1, <1>3 DEF HelperInv

LEMMA HelperPublishes == HelperInv /\ PublishLifecycle => HelperInv'
<1> SUFFICES ASSUME HelperInv, PublishLifecycle PROVE HelperInv'
  OBVIOUS
<1>1. stage \in {"starting", "initializing"} /\ input' = input /\ passed' = passed
  BY DEF PublishLifecycle
<1> DEFINE p == Lifecycle(payload, stage)
           begun == [Here EXCEPT !.payload = p]
<1>2. PassGood(Here) /\ Here.payload = payload /\ Here.timers = timers /\ timers = FirstSchedule
      /\ plan.policy \in HpPolicies
  BY <1>1 DEF HelperInv, Here
<1>3. payload \in Payloads
  BY <1>2 DEF PassGood, PassOk, Passes
<1>4. p \in Payloads /\ \A k \in DueAll : p[k] = payload[k]
  <2>1. 0 \in 0 .. HpCap
    BY HelperNumbers
  <2>2. p \in Payloads
    BY <1>1, <1>3, <2>1 DEF Lifecycle, Payloads
  <2>3. \A k \in DueAll : p[k] = payload[k]
    BY <1>3 DEF Lifecycle, Payloads, DueAll
  <2> QED BY <2>2, <2>3
<1>5. PassGood(begun) /\ begun.payload = p /\ begun.timers = timers
  <2>1. KeptUntilDue(p, timers)
    <3> HIDE DEF p
    <3> QED BY <1>2, <1>4 DEF PassGood, KeptUntilDue
  <2> HIDE DEF p
  <2>2. PassOk(begun) /\ begun.payload = p /\ begun.timers = Here.timers
    BY <1>2, <1>4 DEF PassGood, PassOk, Passes
  <2> HIDE DEF begun
  <2> QED BY <1>2, <2>1, <2>2 DEF PassGood
<1>6. Young(p)
  <2> HIDE DEF p
  <2> QED BY <1>2, <1>4, <1>5, KeptIsYoung DEF PassGood
<1>7. ASSUME NEW works \in BOOLEAN
      PROVE  PassGood(WriteSnapshot(begun, works)) /\ WriteSnapshot(begun, works).timers = timers
  <2>1. /\ PassOk(WriteSnapshot(begun, works)) /\ WriteSnapshot(begun, works).payload = begun.payload
        /\ WriteSnapshot(begun, works).timers = begun.timers
    <3> HIDE DEF begun, p
    <3> QED BY <1>5, <1>6, SnapshotWritten DEF PassGood
  <2> HIDE DEF begun, p
  <2> QED BY <1>5, <2>1 DEF PassGood
<1>8. \E h : \E next \in {"off", "initializing", "first"} :
        PassGood(h) /\ h.timers = timers /\ Becomes(h, next)
  <2>1. PICK writes \in BOOLEAN :
          IF stage = "starting" /\ plan.once THEN Becomes(Here, "initializing")
          ELSE Becomes(WriteSnapshot(begun, writes),
                       CASE ~writes -> "off"
                         [] writes /\ stage = "starting" -> "initializing"
                         [] OTHER -> "first")
    BY Zenon DEF PublishLifecycle
  <2> HIDE DEF begun
  <2>2. CASE stage = "starting" /\ plan.once
    BY <1>2, <2>1, <2>2
  <2>3. CASE ~(stage = "starting" /\ plan.once)
    <3> DEFINE next == CASE ~writes -> "off"
                         [] writes /\ stage = "starting" -> "initializing"
                         [] OTHER -> "first"
    <3>1. next \in {"off", "initializing", "first"}
      OBVIOUS
    <3>2. Becomes(WriteSnapshot(begun, writes), next)
      BY <2>1, <2>3
    <3> HIDE DEF next
    <3> QED BY <1>7, <3>1, <3>2
  <2> QED BY <2>2, <2>3
<1>9. PICK h : \E next \in {"off", "initializing", "first"} :
        PassGood(h) /\ h.timers = timers /\ Becomes(h, next)
  BY <1>8
<1>10. PICK next \in {"off", "initializing", "first"} :
        PassGood(h) /\ h.timers = timers /\ Becomes(h, next)
  BY <1>9
<1>11. /\ stage' = next /\ PassGood(Here)'
       /\ next = "off" => timers' = FirstSchedule /\ \A k \in DueAll : ~payload'[k].ok
       /\ next # "off" => timers' = h.timers /\ plan' = plan
  BY <1>10, BecomesGood DEF PassGood
<1>12. timers' = FirstSchedule /\ stage' \in {"off", "initializing", "first"}
       /\ (stage' # "off" => plan'.policy \in HpPolicies)
  BY <1>2, <1>10, <1>11
<1> QED BY <1>1, <1>11, <1>12 DEF HelperInv

LEMMA HelperFirstRefresh == HelperInv /\ FirstRefresh => HelperInv'
<1> SUFFICES ASSUME HelperInv, FirstRefresh PROVE HelperInv'
  OBVIOUS
<1>1. PICK view \in HpViews, writes \in BOOLEAN, sends \in BOOLEAN :
        Becomes(Refresh(Here, DueAll, view, TRUE, writes, sends),
                IF writes /\ ~plan.once THEN "running" ELSE "off")
  BY DEF FirstRefresh
<1>2. /\ stage = "first" /\ input' = input /\ passed' = passed
      /\ PassGood(Here) /\ InputOk /\ timers = FirstSchedule /\ Here.timers = timers
  BY DEF FirstRefresh, HelperInv, InputOk, Here
<1> DEFINE n == Refresh(Here, DueAll, view, TRUE, writes, sends)
           next == IF writes /\ ~plan.once THEN "running" ELSE "off"
<1>3. RefreshedFrom(n, Here, DueAll)
  BY <1>2, ExtraRefresh
<1>4. PassGood(n) /\ n.timers = FirstSchedule /\ Becomes(n, next) /\ next \in {"running", "off"}
  BY <1>1, <1>2, <1>3 DEF RefreshedFrom
<1> HIDE DEF n, next
<1>5. /\ stage' = next /\ PassGood(Here)'
      /\ next = "off" => timers' = FirstSchedule /\ \A k \in DueAll : ~payload'[k].ok
      /\ next # "off" => timers' = n.timers /\ plan' = plan
  BY <1>4, BecomesGood DEF PassGood
<1>6. timers' = FirstSchedule /\ timers'["poll"] > 0 /\ (stage' # "off" => plan'.policy \in HpPolicies)
  BY <1>2, <1>4, <1>5, EmptyIsKept, HelperNumbers DEF InputOk
<1> QED BY <1>2, <1>4, <1>5, <1>6 DEF HelperInv

LEMMA HelperLoops == HelperInv /\ LoopPass => HelperInv'
<1> SUFFICES ASSUME HelperInv, LoopPass PROVE HelperInv'
  OBVIOUS
<1>1. /\ stage = "running" /\ input' = input /\ passed' = TRUE
      /\ PassGood(Here) /\ InputOk
  BY DEF LoopPass, HelperInv, InputOk
<1>2. \E h : \E next \in {"off", "running"} :
        /\ PassGood(h) /\ Becomes(h, next)
        /\ next = "running" => h.timers["poll"] > 0
  <2>1. CASE Orphaned
    BY <1>1, <2>1 DEF LoopPass
  <2>2. CASE ~Orphaned
    <3> DEFINE kept == IF timers["parent"] = 0 THEN [Here EXCEPT !.timers["parent"] = 1] ELSE Here
    <3>1. PICK view \in HpViews, sends \in BOOLEAN,
               writes \in [{"poll", "validation", "heartbeat"} -> BOOLEAN] :
            LET polled == PollPart(kept, view, writes["poll"], sends)
                checked == ValidationPart(polled, view, writes["validation"], sends)
            IN  Becomes(HeartbeatPart(TopologyPart(checked, sends), writes["heartbeat"]), "running")
      BY <2>2 DEF LoopPass
    <3> DEFINE polled == PollPart(kept, view, writes["poll"], sends)
               checked == ValidationPart(polled, view, writes["validation"], sends)
               asked == TopologyPart(checked, sends)
               beaten == HeartbeatPart(asked, writes["heartbeat"])
    <3>2. PassGood(kept)
      <4>1. PassGood([Here EXCEPT !.timers["parent"] = 1])
        BY <1>1, TimerSet DEF Deadlines, DueAll
      <4> QED BY <1>1, <4>1
    <3>3. writes["poll"] \in BOOLEAN /\ writes["validation"] \in BOOLEAN /\ writes["heartbeat"] \in BOOLEAN
      OBVIOUS
    <3> HIDE DEF kept
    <3>4. PassGood(polled) /\ polled.timers["poll"] > 0
      BY <1>1, <3>2, <3>3, HelperPollKeeps
    <3> HIDE DEF polled
    <3>5. PassGood(checked) /\ checked.timers["poll"] = polled.timers["poll"]
      BY <1>1, <3>3, <3>4, ValidationKeeps
    <3> HIDE DEF checked
    <3>6. PassGood(asked) /\ asked.timers["poll"] = checked.timers["poll"]
      BY <3>5, TopologyKeeps
    <3> HIDE DEF asked
    <3>7. PassGood(beaten) /\ beaten.timers["poll"] = asked.timers["poll"]
      BY <3>3, <3>6, HeartbeatKeeps
    <3>8. Becomes(beaten, "running")
      BY <3>1 DEF asked, checked, polled
    <3> HIDE DEF beaten
    <3> QED BY <3>4, <3>5, <3>6, <3>7, <3>8
  <2> QED BY <2>1, <2>2
<1>3. PICK h : \E next \in {"off", "running"} :
        /\ PassGood(h) /\ Becomes(h, next)
        /\ next = "running" => h.timers["poll"] > 0
  BY <1>2
<1>4. PICK next \in {"off", "running"} :
        /\ PassGood(h) /\ Becomes(h, next)
        /\ next = "running" => h.timers["poll"] > 0
  BY <1>3
<1>5. /\ stage' = next /\ PassGood(Here)'
      /\ next = "off" => timers' = FirstSchedule /\ \A k \in DueAll : ~payload'[k].ok
      /\ next # "off" => timers' = h.timers /\ plan' = plan
  BY <1>4, BecomesGood DEF PassGood
<1>6. stage' = "running" => timers'["poll"] > 0
  BY <1>4, <1>5
<1>7. stage' # "off" => plan'.policy \in HpPolicies
  BY <1>1, <1>5 DEF InputOk
<1>8. stage' \in {"off", "running"} /\ (stage' # "running" => timers' = FirstSchedule)
  BY <1>4, <1>5
<1> QED BY <1>1, <1>5, <1>6, <1>7, <1>8 DEF HelperInv

LEMMA HelperEnds == HelperInv /\ HelperDies => HelperInv'
<1> SUFFICES ASSUME HelperInv, HelperDies PROVE HelperInv'
  OBVIOUS
<1>1. Becomes(Here, "off") /\ input' = input /\ passed' = passed /\ PassOk(Here)
  BY DEF HelperDies, HelperInv, PassGood
<1>2. /\ stage' = "off" /\ PassGood(Here)'
      /\ timers' = FirstSchedule /\ \A k \in DueAll : ~payload'[k].ok
  BY <1>1, BecomesGood
<1> QED BY <1>1, <1>2 DEF HelperInv

LEMMA HelperStays ==
    ASSUME HelperInv, UNCHANGED <<plan, stage, payload, stored, timers, retry, passed>>,
           wanted' \subseteq Scopes_,
           DOMAIN input' = {"there", "sound", "age", "fields"},
           input'.fields \in [HpFields -> Measurements]
    PROVE  HelperInv'
<1>1. PassGood(Here)'
  <2>1. Here' = [Here EXCEPT !.wanted = wanted']
    BY DEF Here
  <2>2. PassGood(Here') 
    <3>1. PassGood(Here)
      BY DEF HelperInv
    <3> HIDE DEF Here
    <3> QED BY <2>1, <3>1 DEF PassGood, PassOk, Passes
  <2> QED BY <2>2
<1> QED BY <1>1 DEF HelperInv

LEMMA GatewayOffers == HelperInv /\ GatewayWrites => HelperInv'
<1> SUFFICES ASSUME HelperInv, GatewayWrites PROVE HelperInv'
  OBVIOUS
<1>1. PICK offer \in HpOffers, sound \in BOOLEAN :
        input' = [there |-> TRUE, sound |-> sound, age |-> 0, fields |-> offer]
  BY DEF GatewayWrites
<1>2. offer \in [HpFields -> Measurements]
  BY HpInputs DEF HpInputs
<1>3. UNCHANGED <<plan, stage, payload, stored, timers, retry, passed>> /\ wanted' = {}
  BY DEF GatewayWrites
<1> QED BY <1>1, <1>2, <1>3, HelperStays

LEMMA ParentLeaves == HelperInv /\ ParentDies => HelperInv'
<1> SUFFICES ASSUME HelperInv, ParentDies PROVE HelperInv'
  OBVIOUS
<1>1. UNCHANGED <<plan, stage, input, payload, stored, timers, retry, wanted, passed>>
  BY DEF ParentDies
<1>2. wanted \subseteq Scopes_
  BY DEF HelperInv, PassGood, PassOk, Passes, Here
<1>3. DOMAIN input = {"there", "sound", "age", "fields"} /\ input.fields \in [HpFields -> Measurements]
  BY DEF HelperInv
<1> QED BY <1>1, <1>2, <1>3, HelperStays

LEMMA OneTickOlder ==
    ASSUME NEW n \in 0 .. HpCap
    PROVE  Older_(n) \in 0 .. HpCap /\ Older_(n) <= n + 1 /\ (n < HpCap => Older_(n) = n + 1)
           /\ (n = HpCap => Older_(n) = HpCap)
BY HelperNumbers DEF Older_

LEMMA ShownGrowsOlder ==
    ASSUME NEW s \in ShownAges
    PROVE  OlderShown(s) \in ShownAges /\ OlderShown(s).ok = s.ok /\ OlderShown(s).age <= s.age + 1
<1>1. s.age \in 0 .. HpCap
  BY DEF ShownAges
<1>2. CASE s.ok
  <2>1. OlderShown(s) = [s EXCEPT !.age = Older_(s.age)]
    BY <1>2 DEF OlderShown
  <2> QED BY <1>1, <2>1, OneTickOlder DEF ShownAges
<1>3. CASE ~s.ok
  BY <1>1, <1>3, HelperNumbers DEF OlderShown
<1> QED BY <1>2, <1>3

LEMMA PayloadGrowsOlder ==
    ASSUME NEW p \in Payloads
    PROVE  /\ OlderPayload(p) \in Payloads /\ OlderPayload(p).heartbeat = Older_(p.heartbeat)
           /\ \A k \in DueAll : OlderPayload(p)[k].ok = p[k].ok /\ OlderPayload(p)[k].age <= p[k].age + 1
<1> DEFINE q == OlderPayload(p)
<1>1. DOMAIN p = PayloadFields
  BY DEF Payloads, PayloadFields
<1>2. DOMAIN q = PayloadFields /\ q = [f \in PayloadFields |-> q[f]]
  BY <1>1 DEF OlderPayload
<1>3. /\ q.pv = OlderShown(p.pv) /\ q.gateway = OlderShown(p.gateway)
      /\ q.battery = OlderShown(p.battery) /\ q.grid = OlderShown(p.grid)
      /\ q.state = p.state /\ q.captured = Older_(p.captured) /\ q.heartbeat = Older_(p.heartbeat)
  BY <1>1 DEF OlderPayload, PayloadFields
<1> HIDE DEF q
<1>4. q = [state |-> q.state, captured |-> q.captured, heartbeat |-> q.heartbeat, pv |-> q.pv,
           gateway |-> q.gateway, battery |-> q.battery, grid |-> q.grid]
  <2> HIDE <1>3
  <2> QED BY <1>2 DEF PayloadFields
<1>5. /\ p.captured \in 0 .. HpCap /\ p.heartbeat \in 0 .. HpCap
      /\ p.pv \in ShownAges /\ p.gateway \in ShownAges /\ p.battery \in ShownAges /\ p.grid \in ShownAges
      /\ p.state \in {"starting", "initializing", "running"}
  BY DEF Payloads
<1>6. q.captured \in 0 .. HpCap /\ q.heartbeat \in 0 .. HpCap
  BY <1>3, <1>5, OneTickOlder
<1>7. q.pv \in ShownAges /\ q.gateway \in ShownAges /\ q.battery \in ShownAges /\ q.grid \in ShownAges
  BY <1>3, <1>5, ShownGrowsOlder
<1>8. q \in Payloads
  BY <1>3, <1>4, <1>5, <1>6, <1>7 DEF Payloads
<1>9. ASSUME NEW k \in DueAll
      PROVE  q[k].ok = p[k].ok /\ q[k].age <= p[k].age + 1
  <2>1. CASE k = "pv"
    <3>1. OlderShown(p.pv).ok = p.pv.ok /\ OlderShown(p.pv).age <= p.pv.age + 1
      BY <1>5, ShownGrowsOlder
    <3> QED BY <1>3, <2>1, <3>1
  <2>2. CASE k = "grid"
    <3>1. OlderShown(p.grid).ok = p.grid.ok /\ OlderShown(p.grid).age <= p.grid.age + 1
      BY <1>5, ShownGrowsOlder
    <3> QED BY <1>3, <2>2, <3>1
  <2>3. CASE k = "battery"
    <3>1. OlderShown(p.battery).ok = p.battery.ok /\ OlderShown(p.battery).age <= p.battery.age + 1
      BY <1>5, ShownGrowsOlder
    <3> QED BY <1>3, <2>3, <3>1
  <2> QED BY <2>1, <2>2, <2>3 DEF DueAll
<1> QED BY <1>3, <1>8, <1>9 DEF q

LEMMA FileStaysRecent ==
    ASSUME NEW p \in Payloads, FileRecent(p)
    PROVE  FileRecent(OlderPayload(p))
<1> DEFINE q == OlderPayload(p)
<1>1. /\ q \in Payloads /\ q.heartbeat = Older_(p.heartbeat)
      /\ \A k \in DueAll : q[k].ok = p[k].ok /\ q[k].age <= p[k].age + 1
  BY PayloadGrowsOlder
<1> HIDE DEF q
<1>2. p.heartbeat \in 0 .. HpCap /\ HpCap \in Nat
  BY HelperNumbers DEF Payloads
<1>3. ASSUME NEW k \in DueAll, q[k].ok
      PROVE  q[k].age < Lasts(k) + q.heartbeat
  <2>1. p[k].age < Lasts(k) + p.heartbeat /\ Lasts(k) \in Nat \ {0}
    BY <1>1, <1>3, HelperNumbers DEF FileRecent
  <2>2. p[k].age \in 0 .. HpCap /\ q[k].age \in 0 .. HpCap
    BY <1>1 DEF Payloads, ShownAges, DueAll
  <2>3. CASE p.heartbeat < HpCap
    BY <1>1, <1>2, <2>1, <2>2, <2>3, OneTickOlder
  <2>4. CASE p.heartbeat = HpCap
    BY <1>1, <1>2, <2>1, <2>2, <2>4, OneTickOlder
  <2> QED BY <1>2, <2>3, <2>4
<1>4. FileRecent(q)
  BY <1>3 DEF FileRecent
<1> QED BY <1>4 DEF q

\* The loop runs in every tick, so a source that is due waits for the poll only.
LEMMA LeftShrinks ==
    ASSUME NEW t, NEW u, SomeTimers(t), t["poll"] > 0,
           u = [d \in Deadlines |-> Sooner(t[d])], NEW k \in DueAll
    PROVE  Left(u, k) + 1 <= Left(t, k)
<1>1. k \in Deadlines /\ "poll" \in Deadlines
  BY DEF DueAll, Deadlines
<1>2. t[k] \in Nat /\ t["poll"] \in Nat /\ t["poll"] <= HpPollTicks /\ HpPollTicks \in Nat
  BY <1>1, HelperNumbers DEF SomeTimers
<1>3. u[k] = Sooner(t[k]) /\ u["poll"] = Sooner(t["poll"])
  BY <1>1
<1>4. u["poll"] = t["poll"] - 1
  BY <1>2, <1>3 DEF Sooner
<1>5. CASE t[k] = 0
  BY <1>2, <1>3, <1>4, <1>5 DEF Left, Sooner
<1>6. CASE t[k] = 1
  BY <1>2, <1>3, <1>4, <1>6 DEF Left, Sooner
<1>7. CASE t[k] > 1
  BY <1>2, <1>3, <1>7 DEF Left, Sooner
<1> QED BY <1>2, <1>5, <1>6, <1>7

LEMMA TimersShrink ==
    ASSUME NEW t, SomeTimers(t)
    PROVE  SomeTimers([d \in Deadlines |-> Sooner(t[d])])
<1> DEFINE u == [d \in Deadlines |-> Sooner(t[d])]
<1>1. \A n \in Nat : Sooner(n) \in Nat /\ Sooner(n) <= n
  BY DEF Sooner
<1>2. t \in [Deadlines -> Nat]
  BY DEF SomeTimers
<1>3. u \in [Deadlines -> Nat] /\ \A d \in Deadlines : u[d] <= t[d]
  BY <1>1, <1>2
<1>4. "poll" \in Deadlines /\ DueAll \subseteq Deadlines
  BY DEF DueAll, Deadlines
<1> HIDE DEF u
<1>5. SomeTimers(u)
  <2>1. u["poll"] <= HpPollTicks
    <3>1. u["poll"] <= t["poll"] /\ t["poll"] <= HpPollTicks /\ u["poll"] \in Nat /\ t["poll"] \in Nat
      BY <1>2, <1>3, <1>4 DEF SomeTimers
    <3> QED BY <3>1, HelperNumbers
  <2>2. ASSUME NEW k \in DueAll PROVE u[k] <= Interval(k)
    <3>1. u[k] <= t[k] /\ t[k] <= Interval(k) /\ u[k] \in Nat /\ t[k] \in Nat
      BY <1>2, <1>3, <1>4 DEF SomeTimers
    <3> QED BY <3>1, HelperNumbers
  <2> QED BY <1>3, <2>1, <2>2 DEF SomeTimers
<1> QED BY <1>5 DEF u

LEMMA HelperTicks == HelperInv /\ TickPasses => HelperInv'
<1> SUFFICES ASSUME HelperInv, TickPasses PROVE HelperInv'
  OBVIOUS
<1>1. /\ stage' = stage /\ plan' = plan /\ passed' = FALSE /\ wanted' = wanted
      /\ payload' = OlderPayload(payload)
      /\ stored' = [stored EXCEPT !.content = OlderPayload(@)]
      /\ timers' = IF stage = "off" THEN timers ELSE [d \in Deadlines |-> Sooner(timers[d])]
      /\ retry' = [s \in Scopes_ |-> Sooner(retry[s])]
      /\ stage \in {"off", "running"} /\ (stage = "running" => passed)
  BY DEF TickPasses
<1>2. /\ payload \in Payloads /\ stored \in [there : BOOLEAN, content : Payloads]
      /\ SomeTimers(timers) /\ retry \in [Scopes_ -> 0 .. RetryGap]
      /\ wanted \subseteq Scopes_ /\ FileRecent(stored.content) /\ KeptUntilDue(payload, timers)
  BY DEF HelperInv, PassGood, PassOk, Passes, Here
<1>3. /\ payload' \in Payloads
      /\ \A k \in DueAll : payload'[k].ok = payload[k].ok /\ payload'[k].age <= payload[k].age + 1
  BY <1>1, <1>2, PayloadGrowsOlder
<1>4. stored' \in [there : BOOLEAN, content : Payloads] /\ FileRecent(stored'.content)
  <2>1. stored.content \in Payloads
    BY <1>2
  <2>2. OlderPayload(stored.content) \in Payloads /\ FileRecent(OlderPayload(stored.content))
    BY <1>2, <2>1, PayloadGrowsOlder, FileStaysRecent
  <2>3. stored' \in [there : BOOLEAN, content : Payloads] /\ stored'.content = OlderPayload(stored.content)
    BY <1>1, <1>2, <2>2
  <2> QED BY <2>2, <2>3
<1>5. SomeTimers(timers')
  BY <1>1, <1>2, TimersShrink
<1>6. retry' \in [Scopes_ -> 0 .. RetryGap]
  <2>1. \A n \in 0 .. RetryGap : Sooner(n) \in 0 .. RetryGap
    BY HelperNumbers DEF Sooner
  <2> QED BY <1>1, <1>2, <2>1
<1>7. KeptUntilDue(payload', timers')
  <2>1. CASE stage = "off"
    <3>1. \A k \in DueAll : ~payload'[k].ok
      BY <1>3, <2>1 DEF HelperInv
    <3> QED BY <3>1, NothingShownIsKept
  <2>2. CASE stage = "running"
    <3>1. timers["poll"] > 0 /\ timers' = [d \in Deadlines |-> Sooner(timers[d])]
      BY <1>1, <2>2 DEF HelperInv
    <3>2. ASSUME NEW k \in DueAll, payload'[k].ok
          PROVE  payload'[k].age + Left(timers', k) < Lasts(k)
      <4>1. payload[k].age + Left(timers, k) < Lasts(k)
        BY <1>2, <1>3, <3>2 DEF KeptUntilDue
      <4>2. payload'[k].age <= payload[k].age + 1 /\ payload'[k].age \in Nat /\ payload[k].age \in Nat
        BY <1>2, <1>3, AgesAreKnown DEF AgesKnown
      <4>3. Left(timers', k) + 1 <= Left(timers, k)
        BY <1>2, <3>1, LeftShrinks
      <4>4. Left(timers, k) \in Nat /\ Left(timers', k) \in Nat /\ Lasts(k) \in Nat
        BY <1>2, <1>5, LeftIsBounded, HelperNumbers
      <4> QED BY <4>1, <4>2, <4>3, <4>4
    <3> QED BY <3>2 DEF KeptUntilDue
  <2> QED BY <1>1, <2>1, <2>2
<1>8. PassGood(Here)'
  <2>1. Here' = [payload |-> payload', stored |-> stored', timers |-> timers', retry |-> retry', wanted |-> wanted']
    BY DEF Here
  <2>2. Here' \in Passes
    BY <1>1, <1>2, <1>3, <1>4, <1>5, <1>6, <2>1 DEF Passes, SomeTimers
  <2>3. Here'.stored = stored' /\ Here'.payload = payload' /\ Here'.timers = timers'
    BY <2>1
  <2>4. PassGood(Here')
    BY <1>4, <1>5, <1>7, <2>2, <2>3 DEF PassGood, PassOk
  <2> QED BY <2>4
<1>9. DOMAIN input' = {"there", "sound", "age", "fields"} /\ input'.fields \in [HpFields -> Measurements]
  <2>1. input' = [input EXCEPT !.age = Older_(@),
                    !.fields = [f \in HpFields |-> OlderMeasured(input.fields[f])]]
    BY DEF TickPasses
  <2> DEFINE fs == [f \in HpFields |-> OlderMeasured(input.fields[f])]
  <2>2. fs \in [HpFields -> Measurements]
    <3>1. ASSUME NEW m \in Measurements PROVE OlderMeasured(m) \in Measurements
      <4>1. Older_(m.age) \in 0 .. HpCap
        BY OneTickOlder DEF Measurements
      <4> QED BY <4>1 DEF Measurements, OlderMeasured
    <3>2. input.fields \in [HpFields -> Measurements]
      BY DEF HelperInv
    <3> QED BY <3>1, <3>2
  <2>3. DOMAIN input = {"there", "sound", "age", "fields"}
    BY DEF HelperInv
  <2> HIDE DEF fs
  <2> QED BY <2>1, <2>2, <2>3 DEF fs
<1>10. stage' = "off" => \A k \in DueAll : ~payload'[k].ok
  BY <1>1, <1>3 DEF HelperInv
<1> QED BY <1>1, <1>8, <1>9, <1>10 DEF HelperInv

LEMMA HelperKeeps == HelperInv /\ [HpNext]_hpVars => HelperInv'
<1> SUFFICES ASSUME HelperInv, [HpNext]_hpVars PROVE HelperInv'
  OBVIOUS
<1>1. CASE UNCHANGED hpVars
  <2>1. UNCHANGED <<plan, stage, input, payload, stored, timers, retry, wanted, passed>>
    BY <1>1 DEF hpVars
  <2>2. wanted \subseteq Scopes_
    BY DEF HelperInv, PassGood, PassOk, Passes, Here
  <2>3. DOMAIN input = {"there", "sound", "age", "fields"} /\ input.fields \in [HpFields -> Measurements]
    BY DEF HelperInv
  <2> QED BY <2>1, <2>2, <2>3, HelperStays
<1>2. CASE HpNext
  BY <1>2, HelperLaunches, HelperPublishes, HelperFirstRefresh, HelperLoops, HelperEnds,
     ParentLeaves, GatewayOffers, HelperTicks DEF HpNext
<1> QED BY <1>1, <1>2

\* For any intervals, ages, policies, failing writes, deaths and restarts: a value
\* the snapshot shows was recent enough when its heartbeat was stamped (runtime.rs).
THEOREM AliveMeansRecent == HpInit /\ [][HpNext]_hpVars => [](HpTypeOK /\ AliveIsRecent)
BY HelperStarts, HelperKeeps, HelperTyped, PTL

(***************************************************************************)
(* The energy sources of the helper: what is accepted was read in one      *)
(* pass, and a SOC is as old as the oldest source it was averaged from.    *)
(***************************************************************************)
LongestWait == IF NsInterval > NsBackoffMax THEN NsInterval ELSE NsBackoffMax
Connectors == [built : BOOLEAN, owned : BOOLEAN, parts : Seq({0, 1}), left : Int]

\* Parts of one pass.
Uniform(parts, e) == \A i \in DOMAIN parts : parts[i] = e

\* A read under way holds parts of the present era only, and lacks some.
ReadOk(s, c, e) ==
    /\ c \in Connectors /\ Uniform(c.parts, e) /\ Len(c.parts) < PartsOf[s]
    /\ ~c.built => c.parts = <<>>
    /\ kinds[s] = "opendtu" /\ c.parts # <<>> => c.left >= 1 /\ Len(c.parts) + c.left <= PartsOf[s]

GoodFields == {"has", "parts", "soc", "capacity", "pv", "grid", "sure", "age"}
GoodOk(g) ==
    /\ DOMAIN g = GoodFields /\ g.age \in 0 .. NsCap
    /\ g.has => g.parts \in Seq({0, 1}) /\ g.parts # <<>> /\ \E e \in {0, 1} : Uniform(g.parts, e)

StateFields == {"good", "wait", "fails", "progress"}
StateOk(st, parts) ==
    /\ DOMAIN st = StateFields /\ st.wait \in 0 .. LongestWait /\ st.fails \in 0 .. FailCut
    /\ GoodOk(st.good) /\ (st.progress => parts # <<>>)

FusionFields == {"active", "last", "invalid", "recovered", "mismatch"}
FusionOk(f) == DOMAIN f = FusionFields /\ f.active \in {"none", "primary", "backup"}

\* A SOC that is told names its sources; none is newer than it, or an equally
\* good observer of the same battery is not.
SocOk(r, state, g) ==
    /\ DOMAIN r = {"has", "from", "age"} /\ r.from \subseteq 0 .. NsCount /\ r.age \in 0 .. NsCap
    /\ ~r.has => r.from = {}
    /\ \A i \in r.from : \E k \in EquallyGood(state, i) :
          r.age >= (IF k = 0 THEN g.age ELSE state[k].good.age)

SourcesInv ==
    /\ DOMAIN conn = Sources_ /\ DOMAIN src = Sources_ /\ era \in [Sources_ -> {0, 1}]
    /\ \A s \in Sources_ : ReadOk(s, conn[s], era[s]) /\ StateOk(src[s], conn[s].parts)
    /\ turn \in 0 .. NsCount - 1 /\ gate \in GatewayReadings(0 .. NsCap)
    /\ FusionOk(fuse)
    /\ DOMAIN told = {"soc", "pv", "grid"} /\ SocOk(told.soc, src, gate)

SourceConstants ==
    /\ NsCount \in Nat \ {0} /\ NsInterval \in Nat \ {0} /\ NsBackoffBase \in Nat \ {0}
    /\ NsBackoffMax \in Nat /\ NsKeep \in Nat /\ PrimaryAge \in Nat /\ GatewayAge \in Nat /\ HoldAge \in Nat
    /\ NsCap \in Nat \ {0} /\ FailCut \in Nat \ {0} /\ LongestWait \in Nat
    /\ NsInterval <= LongestWait /\ NsBackoffMax <= LongestWait
    /\ 0 \notin Sources_ /\ Sources_ \subseteq Nat
    /\ \A s \in Sources_ : PartsOf[s] \in Nat \ {0}

LEMMA SourceNumbers == SourceConstants
<1>1. /\ NsCount \in Nat \ {0} /\ NsInterval \in Nat \ {0} /\ NsBackoffBase \in Nat \ {0}
      /\ NsBackoffMax \in Nat /\ NsKeep \in Nat /\ PrimaryAge \in Nat /\ GatewayAge \in Nat /\ HoldAge \in Nat
      /\ PartsOf \in [1 .. NsCount -> Nat \ {0}]
  BY NsAssumption DEF NsAssumption
<1>2. NsCap \in Nat \ {0} /\ FailCut \in Nat \ {0}
  BY <1>1 DEF NsCap, FailCut
<1>3. LongestWait \in Nat /\ NsInterval <= LongestWait /\ NsBackoffMax <= LongestWait
  BY <1>1 DEF LongestWait
<1>4. 0 \notin Sources_ /\ Sources_ \subseteq Nat /\ \A s \in Sources_ : PartsOf[s] \in Nat \ {0}
  BY <1>1 DEF Sources_
<1> QED BY <1>1, <1>2, <1>3, <1>4 DEF SourceConstants

LEMMA BackoffIsBounded ==
    ASSUME NEW n \in 1 .. FailCut
    PROVE  BackoffFor(n) \in 0 .. LongestWait
<1> DEFINE exponent == IF n - 1 < 30 THEN n - 1 ELSE 30
           power == 2 ^ exponent
<1>1. exponent \in 0 .. 30
  BY SourceNumbers DEF SourceConstants
<1>2. power \in Nat
  <2> HIDE DEF exponent
  <2> QED BY <1>1, PowersAreNumbers
<1>3. BackoffFor(n) = IF NsBackoffBase * power < NsBackoffMax THEN NsBackoffBase * power ELSE NsBackoffMax
  BY DEF BackoffFor
<1> HIDE DEF power
<1>4. NsBackoffBase * power \in Nat
  BY <1>2, SourceNumbers DEF SourceConstants
<1> DEFINE grown == NsBackoffBase * power
<1> HIDE DEF grown
<1>5. grown \in Nat /\ BackoffFor(n) = IF grown < NsBackoffMax THEN grown ELSE NsBackoffMax
  BY <1>3, <1>4 DEF grown
<1> QED BY <1>5, SourceNumbers DEF SourceConstants

\* A failure keeps the snapshot and ends what was in progress.
LEMMA FailureRecorded ==
    ASSUME NEW st, NEW parts, StateOk(st, parts), NEW rest
    PROVE  StateOk(NsRecordFailure(st), rest)
<1> DEFINE fails == IF st.fails < FailCut THEN st.fails + 1 ELSE FailCut
           n == NsRecordFailure(st)
<1>1. fails \in 1 .. FailCut /\ BackoffFor(fails) \in 0 .. LongestWait
  <2>1. fails \in 1 .. FailCut
    BY SourceNumbers DEF StateOk, SourceConstants
  <2> HIDE DEF fails
  <2> QED BY <2>1, BackoffIsBounded
<1>2. n = [st EXCEPT !.fails = fails, !.progress = FALSE, !.wait = BackoffFor(fails)]
  BY DEF NsRecordFailure
<1>3. /\ DOMAIN n = StateFields /\ n.fails = fails /\ n.wait = BackoffFor(fails) /\ n.good = st.good
      /\ ~n.progress
  <2> HIDE DEF n, fails
  <2> QED BY <1>2 DEF StateOk, StateFields
<1>4. fails \in 0 .. FailCut
  BY <1>1, SourceNumbers DEF SourceConstants
<1> HIDE DEF n, fails
<1>5. StateOk(n, rest)
  BY <1>1, <1>3, <1>4 DEF StateOk
<1> QED BY <1>5 DEF n

LEMMA ProgressRecorded ==
    ASSUME NEW st, NEW parts, StateOk(st, parts), NEW rest, rest # <<>>
    PROVE  StateOk(RecordProgress(st), rest)
<1>1. /\ DOMAIN RecordProgress(st) = StateFields /\ RecordProgress(st).fails = st.fails
      /\ RecordProgress(st).wait = 0 /\ RecordProgress(st).good = st.good
  BY DEF RecordProgress, StateOk, StateFields
<1> QED BY <1>1, SourceNumbers DEF StateOk, SourceConstants

LEMMA SuccessRecorded ==
    ASSUME NEW c \in Connectors, NEW e \in {0, 1}, Uniform(c.parts, e), c.parts # <<>>, NEW answer, NEW rest
    PROVE  StateOk(NsRecordSuccess(SnapshotOf(c, answer)), rest)
<1> DEFINE g == SnapshotOf(c, answer)
<1>1. /\ DOMAIN g = GoodFields /\ g.parts = c.parts /\ g.age = 0
  BY DEF SnapshotOf, GoodFields
<1>2. GoodOk(g)
  <2> HIDE DEF g
  <2> QED BY <1>1, SourceNumbers DEF GoodOk, Connectors, SourceConstants
<1>3. /\ DOMAIN NsRecordSuccess(g) = StateFields /\ NsRecordSuccess(g).good = g /\ NsRecordSuccess(g).wait = NsInterval
      /\ NsRecordSuccess(g).fails = 0 /\ ~NsRecordSuccess(g).progress
  <2> HIDE DEF g
  <2> QED BY DEF NsRecordSuccess, StateFields
<1> HIDE DEF g
<1>4. StateOk(NsRecordSuccess(g), rest)
  BY <1>2, <1>3, SourceNumbers DEF StateOk, SourceConstants
<1> QED BY <1>4 DEF g

\* What a step of a read leaves behind.
StepOk(s, step, e) ==
    /\ step.verdict \in {"failed", "more", "complete"} /\ step.conn \in Connectors
    /\ step.verdict = "failed" => step.conn.parts = <<>>
    /\ step.verdict = "more" => ReadOk(s, step.conn, e) /\ step.conn.parts # <<>>
    /\ step.verdict = "complete" => step.conn.parts # <<>> /\ Uniform(step.conn.parts, e)

LEMMA StepShape ==
    ASSUME NEW c, NEW verdict, NEW answer
    PROVE  Step(c, verdict, answer).conn = c /\ Step(c, verdict, answer).verdict = verdict
BY DEF Step

LEMMA ReadIsReset ==
    ASSUME NEW c \in Connectors
    PROVE  ResetProgress(c) \in Connectors /\ ResetProgress(c).parts = <<>>
<1>1. <<>> \in Seq({0, 1})
  OBVIOUS
<1> DEFINE d == [c EXCEPT !.parts = <<>>]
<1>2. d \in Connectors /\ d.parts = <<>>
  BY <1>1 DEF Connectors
<1>3. ResetProgress(c) = [d EXCEPT !.left = 0]
  BY DEF ResetProgress
<1> HIDE DEF d
<1> QED BY <1>2, <1>3 DEF Connectors

LEMMA PartIsTaken ==
    ASSUME NEW s \in Sources_, era[s] \in {0, 1}, NEW c \in Connectors, Uniform(c.parts, era[s])
    PROVE  LET t == TakePart(s, c)
           IN  /\ t \in Connectors /\ t.built = c.built /\ t.left = c.left
               /\ t.parts # <<>> /\ Uniform(t.parts, era[s]) /\ Len(t.parts) = Len(c.parts) + 1
<1> DEFINE p == Append(c.parts, era[s])
<1>1. c.parts \in Seq({0, 1})
  BY DEF Connectors
<1>2. p \in Seq({0, 1}) /\ Len(p) = Len(c.parts) + 1 /\ Len(c.parts) \in Nat
  BY <1>1
<1>3. Uniform(p, era[s])
  <2>1. ASSUME NEW i \in DOMAIN p PROVE p[i] = era[s]
    <3>1. i \in 1 .. Len(c.parts) + 1
      BY <1>2
    <3>2. CASE i = Len(c.parts) + 1
      BY <1>1, <3>2
    <3>3. CASE i # Len(c.parts) + 1
      <4>1. i \in 1 .. Len(c.parts)
        BY <1>2, <3>1, <3>3
      <4>2. p[i] = c.parts[i] /\ i \in DOMAIN c.parts
        BY <1>1, <4>1
      <4> HIDE DEF p
      <4> QED BY <4>2 DEF Uniform
    <3> QED BY <3>2, <3>3
  <2> HIDE DEF p
  <2> QED BY <2>1 DEF Uniform
<1>4. p # <<>>
  <2> HIDE DEF p
  <2> QED BY <1>2
<1> DEFINE t == TakePart(s, c)
<1>5. t = [c EXCEPT !.parts = p]
  BY DEF TakePart
<1>6. t \in Connectors /\ t.parts = p /\ t.built = c.built /\ t.left = c.left
  <2> HIDE DEF p, t
  <2> QED BY <1>2, <1>5 DEF Connectors
<1> HIDE DEF p
<1> QED BY <1>2, <1>3, <1>4, <1>6

\* c, as a step finds it: built, holding what the read has so far.
Under(s, c, e) == ReadOk(s, c, e) /\ c.built

LEMMA PlainSteps ==
    ASSUME NEW s \in Sources_, era[s] \in {0, 1}, NEW c, Under(s, c, era[s]),
           NEW step \in HttpStep(s, c) \cup CommandStep(s, c)
    PROVE  StepOk(s, step, era[s])
<1>1. c \in Connectors /\ Uniform(c.parts, era[s])
  BY DEF Under, ReadOk
<1>2. \/ \E answer : step = Step(TakePart(s, c), "complete", answer)
      \/ step = Step(FailedRead(c), "failed", NoAnswer_)
  BY DEF HttpStep, CommandStep
<1>3. TakePart(s, c) \in Connectors /\ TakePart(s, c).parts # <<>> /\ Uniform(TakePart(s, c).parts, era[s])
  BY <1>1, PartIsTaken
<1>4. FailedRead(c) \in Connectors /\ FailedRead(c).parts = <<>>
  BY <1>1, ReadIsReset DEF FailedRead
<1> QED BY <1>2, <1>3, <1>4, StepShape DEF StepOk

LEMMA ModbusSteps ==
    ASSUME NEW s \in Sources_, era[s] \in {0, 1}, NEW c, Under(s, c, era[s]), kinds[s] # "opendtu",
           NEW step \in ModbusStep(s, kinds[s], c)
    PROVE  StepOk(s, step, era[s])
<1>1. c \in Connectors /\ Uniform(c.parts, era[s]) /\ c.built
  BY DEF Under, ReadOk
<1> DEFINE owned == Own(kinds[s], c)
           taken == TakePart(s, owned)
<1>2. owned \in Connectors /\ owned.parts = c.parts /\ owned.built = c.built
  <2>1. owned \in {c, [c EXCEPT !.owned = TRUE]}
    BY DEF Own
  <2>2. [c EXCEPT !.owned = TRUE] \in Connectors /\ [c EXCEPT !.owned = TRUE].parts = c.parts
        /\ [c EXCEPT !.owned = TRUE].built = c.built
    BY <1>1 DEF Connectors
  <2> HIDE DEF owned
  <2> QED BY <1>1, <2>1, <2>2
<1>3. /\ taken \in Connectors /\ taken.parts # <<>> /\ Uniform(taken.parts, era[s]) /\ taken.built = c.built
  <2> HIDE DEF owned
  <2> QED BY <1>1, <1>2, PartIsTaken
<1>4. \/ step = Step(FailedRead(c), "failed", NoAnswer_)
      \/ step = Step(FailedRead(owned), "failed", NoAnswer_)
      \/ Len(taken.parts) < PartsOf[s] /\ step = Step(taken, "more", NoAnswer_)
      \/ \E answer : step = Step(taken, "complete", answer)
  <2> HIDE DEF owned, taken
  <2> QED BY DEF ModbusStep, owned, taken
<1>5. /\ FailedRead(c) \in Connectors /\ FailedRead(c).parts = <<>>
      /\ FailedRead(owned) \in Connectors /\ FailedRead(owned).parts = <<>>
  <2> HIDE DEF owned
  <2> QED BY <1>1, <1>2, ReadIsReset DEF FailedRead
<1>6. Len(taken.parts) < PartsOf[s] => ReadOk(s, taken, era[s])
  <2> HIDE DEF taken
  <2> QED BY <1>1, <1>3 DEF ReadOk
<1> HIDE DEF owned, taken
<1> QED BY <1>3, <1>4, <1>5, <1>6, StepShape DEF StepOk

LEMMA OpenDtuSteps ==
    ASSUME NEW s \in Sources_, era[s] \in {0, 1}, NEW c, Under(s, c, era[s]), kinds[s] = "opendtu",
           NEW step \in OpenDtuStep(s, c)
    PROVE  StepOk(s, step, era[s])
<1>1. c \in Connectors /\ Uniform(c.parts, era[s]) /\ c.built /\ Len(c.parts) < PartsOf[s]
      /\ (c.parts # <<>> => c.left >= 1 /\ Len(c.parts) + c.left <= PartsOf[s])
  BY DEF Under, ReadOk
<1> DEFINE t == TakePart(s, c)
           lefts == IF c.parts = <<>> THEN 0 .. PartsOf[s] - 1 ELSE {c.left - 1}
           more(n) == [t EXCEPT !.left = n]
<1>2. /\ t \in Connectors /\ t.parts # <<>> /\ Uniform(t.parts, era[s]) /\ t.built = c.built
      /\ Len(t.parts) = Len(c.parts) + 1
  BY <1>1, PartIsTaken
<1>3. FailedRead(c) \in Connectors /\ FailedRead(c).parts = <<>>
  BY <1>1, ReadIsReset DEF FailedRead
<1>4. \/ step = Step(FailedRead(c), "failed", NoAnswer_)
      \/ \E n \in lefts : n > 0 /\ step = Step(more(n), "more", NoAnswer_)
      \/ \E answer : step = Step(t, "complete", answer)
  <2> DEFINE said(ok, n, answer) ==
               CASE ~ok -> Step(FailedRead(c), "failed", NoAnswer_)
                 [] ok /\ n > 0 -> Step(more(n), "more", NoAnswer_)
                 [] OTHER -> Step(t, "complete", answer)
           all == {said(ok, n, answer) : ok \in JsonResults, n \in lefts, answer \in OpenDtuAnswers}
  <2>0. OpenDtuStep(s, c) = all
    BY DEF OpenDtuStep
  <2>5. step \in all
    <3> HIDE DEF all
    <3> QED BY <2>0
  <2>1. PICK ok \in JsonResults, n \in lefts, answer \in OpenDtuAnswers : step = said(ok, n, answer)
    <3> HIDE DEF said, lefts
    <3> QED BY <2>5, SMT
  <2> HIDE DEF t, lefts, more
  <2>2. CASE ~ok
    BY <2>1, <2>2
  <2>3. CASE ok /\ n > 0
    BY <2>1, <2>3
  <2>4. CASE ok /\ ~(n > 0)
    BY <2>1, <2>4
  <2> QED BY <2>2, <2>3, <2>4
<1>5. ASSUME NEW n \in lefts, n > 0
      PROVE  more(n) \in Connectors /\ ReadOk(s, more(n), era[s]) /\ more(n).parts # <<>>
  <2>1. c.left \in Int /\ c.parts \in Seq({0, 1}) /\ Len(c.parts) \in Nat /\ PartsOf[s] \in Nat \ {0}
    BY <1>1, SourceNumbers DEF Connectors, SourceConstants
  <2>2. n \in Int /\ Len(c.parts) + 1 + n <= PartsOf[s]
    <3>1. CASE c.parts = <<>>
      <4>1. Len(c.parts) = 0
        BY <3>1
      <4> QED BY <2>1, <3>1, <4>1
    <3>2. CASE c.parts # <<>>
      BY <1>1, <2>1, <3>2
    <3> QED BY <3>1, <3>2
  <2> HIDE DEF t, lefts
  <2>3. more(n) \in Connectors /\ more(n).parts = t.parts /\ more(n).left = n /\ more(n).built = t.built
    BY <1>2, <2>2 DEF Connectors
  <2> HIDE DEF more
  <2>4. Len(more(n).parts) + n <= PartsOf[s] /\ Len(more(n).parts) < PartsOf[s]
    BY <1>2, <1>5, <2>1, <2>2, <2>3
  <2> QED BY <1>1, <1>2, <1>5, <2>2, <2>3, <2>4 DEF ReadOk
<1> HIDE DEF t, lefts, more
<1> QED BY <1>2, <1>3, <1>4, <1>5, StepShape DEF StepOk

LEMMA StepsAreOk ==
    ASSUME NEW s \in Sources_, era[s] \in {0, 1}, NEW c, Under(s, c, era[s]),
           NEW step \in ReadStep(s, c)
    PROVE  StepOk(s, step, era[s])
<1>1. CASE kinds[s] = "http" \/ kinds[s] = "command"
  <2>1. step \in HttpStep(s, c) \cup CommandStep(s, c)
    BY <1>1 DEF ReadStep
  <2> QED BY <2>1, PlainSteps
<1>2. CASE kinds[s] = "opendtu"
  <2>1. step \in OpenDtuStep(s, c)
    BY <1>2 DEF ReadStep
  <2> QED BY <1>2, <2>1, OpenDtuSteps
<1>3. CASE kinds[s] \notin {"http", "command", "opendtu"}
  <2>1. step \in ModbusStep(s, kinds[s], c)
    BY <1>3 DEF ReadStep
  <2> QED BY <1>3, <2>1, ModbusSteps
<1> QED BY <1>1, <1>2, <1>3

\* An attempt leaves a read under way and a state that fit the era it ends in.
LEMMA OutcomesAreOk ==
    ASSUME NEW s \in Sources_, era[s] \in {0, 1}, ReadOk(s, conn[s], era[s]), StateOk(src[s], conn[s].parts),
           NEW out \in AttemptOutcomes(s)
    PROVE  /\ ReadOk(s, out.conn, IF out.failed THEN 1 - era[s] ELSE era[s])
           /\ StateOk(out.src, out.conn.parts)
<1> DEFINE Fine(o) == /\ ReadOk(s, o.conn, IF o.failed THEN 1 - era[s] ELSE era[s])
                      /\ StateOk(o.src, o.conn.parts)
           c == [conn[s] EXCEPT !.built = TRUE]
<1>1. ASSUME NEW d \in Connectors, d.parts = <<>>, NEW e PROVE ReadOk(s, d, e)
  <2>1. Uniform(d.parts, e) /\ Len(d.parts) = 0
    BY <1>1 DEF Uniform
  <2> QED BY <1>1, <2>1, SourceNumbers DEF ReadOk, SourceConstants
<1>2. ASSUME NEW d \in Connectors, d.parts = <<>> PROVE Fine(Failed_(s, d))
  <2>1. Failed_(s, d).conn = d /\ Failed_(s, d).src = NsRecordFailure(src[s])
    BY DEF Failed_
  <2>2. StateOk(NsRecordFailure(src[s]), d.parts)
    BY FailureRecorded
  <2>3. ReadOk(s, d, IF Failed_(s, d).failed THEN 1 - era[s] ELSE era[s])
    BY <1>1, <1>2
  <2> QED BY <2>1, <2>2, <2>3
<1>3. c \in Connectors /\ c.parts = conn[s].parts /\ c.built /\ c.left = conn[s].left
  BY DEF ReadOk, Connectors
<1>4. Under(s, c, era[s])
  <2> HIDE DEF c
  <2> QED BY <1>3 DEF Under, ReadOk
<1>5. ASSUME NEW step \in ReadStep(s, c) PROVE Fine(Concluded(s, step))
  <2> HIDE DEF c, Fine
  <2>1. StepOk(s, step, era[s])
    BY <1>4, StepsAreOk
  <2>2. CASE step.verdict = "failed"
    <3>1. step.conn \in Connectors /\ step.conn.parts = <<>>
      BY <2>1, <2>2 DEF StepOk
    <3>2. Concluded(s, step) = Failed_(s, step.conn)
      BY <2>2 DEF Concluded
    <3> QED BY <1>2, <3>1, <3>2
  <2>3. CASE step.verdict = "more"
    <3>1. ReadOk(s, step.conn, era[s]) /\ step.conn.parts # <<>>
      BY <2>1, <2>3 DEF StepOk
    <3>2. Concluded(s, step) = [conn |-> step.conn, src |-> RecordProgress(src[s]), failed |-> FALSE]
      BY <2>3 DEF Concluded
    <3>3. StateOk(RecordProgress(src[s]), step.conn.parts)
      BY <3>1, ProgressRecorded
    <3>4. /\ Concluded(s, step).conn = step.conn /\ Concluded(s, step).src = RecordProgress(src[s])
          /\ Concluded(s, step).failed = FALSE
      BY <3>2
    <3> QED BY <3>1, <3>3, <3>4 DEF Fine
  <2>4. CASE step.verdict = "complete" /\ Confirms(step.answer)
    <3>1. step.conn \in Connectors /\ step.conn.parts # <<>> /\ Uniform(step.conn.parts, era[s])
      BY <2>1, <2>4 DEF StepOk
    <3> DEFINE r == ResetProgress(step.conn)
               g == NsRecordSuccess(SnapshotOf(step.conn, step.answer))
    <3>2. r \in Connectors /\ r.parts = <<>>
      BY <3>1, ReadIsReset
    <3>3. StateOk(g, r.parts)
      BY <3>1, SuccessRecorded
    <3>4. ReadOk(s, r, era[s])
      <4> HIDE DEF r
      <4> QED BY <1>1, <3>2
    <3>5. Concluded(s, step) = [conn |-> r, failed |-> FALSE, src |-> g]
      BY <2>4 DEF Concluded
    <3> HIDE DEF r, g
    <3>6. Concluded(s, step).conn = r /\ Concluded(s, step).src = g /\ Concluded(s, step).failed = FALSE
      BY <3>5
    <3> QED BY <3>3, <3>4, <3>6 DEF Fine
  <2>5. CASE step.verdict = "complete" /\ ~Confirms(step.answer)
    <3>1. step.conn \in Connectors
      BY <2>1 DEF StepOk
    <3>2. ResetProgress(step.conn) \in Connectors /\ ResetProgress(step.conn).parts = <<>>
      BY <3>1, ReadIsReset
    <3>3. Concluded(s, step) = Failed_(s, ResetProgress(step.conn))
      BY <2>5 DEF Concluded
    <3> QED BY <1>2, <3>2, <3>3
  <2> QED BY <2>1, <2>2, <2>3, <2>4, <2>5 DEF StepOk
<1>6. CASE ~conn[s].built /\ out = Failed_(s, conn[s])
  <2>1. conn[s] \in Connectors /\ conn[s].parts = <<>>
    BY <1>6 DEF ReadOk
  <2>2. Fine(out)
    <3> HIDE DEF Fine
    <3> QED BY <1>2, <1>6, <2>1
  <2> QED BY <2>2
<1>7. CASE out \in {Concluded(s, step) : step \in ReadStep(s, c)}
  <2>1. Fine(out)
    <3> HIDE DEF Fine, c
    <3> QED BY <1>5, <1>7
  <2> QED BY <2>1
<1> QED BY <1>6, <1>7 DEF AttemptOutcomes

\* The greatest of some bounded numbers.
LEMMA MostIsThere ==
    ASSUME NEW n \in Nat, NEW S \in SUBSET (0 .. n), S # {}
    PROVE  Most(S) \in S /\ \A y \in S : y <= Most(S)
<1> DEFINE T == {n - y : y \in S}
<1>1. T \in SUBSET Nat /\ T # {}
  <2>1. \A y \in S : n - y \in Nat
    OBVIOUS
  <2>2. PICK y \in S : TRUE
    OBVIOUS
  <2> QED BY <2>1, <2>2
<1>2. PICK t \in T : \A u \in T : t <= u
  <2> HIDE DEF T
  <2> QED BY <1>1, LeastIsThere
<1>3. PICK x \in S : t = n - x
  BY <1>2
<1>4. \A y \in S : y <= x
  <2> TAKE y \in S
  <2>1. n - x <= n - y
    BY <1>2, <1>3
  <2> QED BY <2>1
<1>5. \E z \in S : \A y \in S : y <= z
  BY <1>4
<1> QED BY <1>5 DEF Most

LEMMA SourceIsDue ==
    ASSUME turn \in 0 .. NsCount - 1, DueSources_ # {}
    PROVE  NsNextDue \in Sources_ /\ NsNextDue % NsCount \in 0 .. NsCount - 1
<1>1. NsCount \in Nat \ {0}
  BY SourceNumbers DEF SourceConstants
<1>2. \A s \in DueSources_ : s \in Int /\ Offset(s) \in Nat
  BY <1>1 DEF DueSources_, Sources_, Offset
<1> DEFINE S == {Offset(s) : s \in DueSources_}
<1>3. PICK x \in S : \A y \in S : x <= y
  <2>1. S \in SUBSET Nat /\ S # {}
    BY <1>2
  <2> HIDE DEF S
  <2> QED BY <2>1, LeastIsThere
<1>4. PICK s \in DueSources_ : x = Offset(s)
  BY <1>3
<1>5. \E d \in DueSources_ : \A o \in DueSources_ : Offset(d) <= Offset(o)
  BY <1>3, <1>4
<1>6. NsNextDue \in DueSources_
  BY <1>5 DEF NsNextDue
<1> QED BY <1>1, <1>6 DEF DueSources_, Sources_

(***************************************************************************)
(* The date of a SOC.                                                      *)
(***************************************************************************)
AgeIn(state, i) == IF i = 0 THEN gate.age ELSE state[i].good.age
Aged(all, state) ==
    /\ DOMAIN all \subseteq 0 .. NsCount
    /\ \A i \in DOMAIN all : all[i].age = AgeIn(state, i) /\ all[i].age \in 0 .. NsCap
    /\ \A i \in DOMAIN all : all[i].sure = SureIn(state, i) /\ (i # 0 => all[i] = state[i].good /\ all[i].has)

LEMMA ContributorsAreAged ==
    ASSUME NEW state, \A s \in Sources_ : state[s].good.age \in 0 .. NsCap, gate.age \in 0 .. NsCap
    PROVE  Aged(Contributors(state), state)
<1> DEFINE all == Contributors(state)
           there == {s \in Sources_ : NsContributing(state[s])} \cup (IF GatewayThere THEN {0} ELSE {})
<1>1. there \subseteq 0 .. NsCount
  BY SourceNumbers DEF SourceConstants, Sources_
<1>2. all = [i \in there |-> IF i = 0 THEN GatewaySnapshot ELSE state[i].good]
  BY DEF Contributors
<1>3. GatewaySnapshot.age = gate.age /\ GatewaySnapshot.sure = TRUE
  BY DEF GatewaySnapshot
<1>4. \A i \in there : i = 0 \/ i \in Sources_
  OBVIOUS
<1>g. \A i \in there : i # 0 => state[i].good.has
  BY DEF NsContributing
<1> HIDE DEF there, all
<1>5. \A i \in there : all[i].age = AgeIn(state, i) /\ all[i].age \in 0 .. NsCap
  BY <1>2, <1>3, <1>4 DEF AgeIn
<1>6. DOMAIN all = there
  BY <1>2
<1>s. \A i \in there : all[i].sure = SureIn(state, i) /\ (i # 0 => all[i] = state[i].good /\ all[i].has)
  BY <1>2, <1>3, <1>g DEF SureIn
<1>7. Aged(all, state)
  BY <1>1, <1>5, <1>6, <1>s DEF Aged
<1> QED BY <1>7 DEF all

LEMMA OldestIsBound ==
    ASSUME NEW all, NEW state, Aged(all, state), NEW S \in SUBSET DOMAIN all, S # {}
    PROVE  Oldest(all, S) \in 0 .. NsCap /\ \A i \in S : Oldest(all, S) >= AgeIn(state, i)
<1> DEFINE T == {all[i].age : i \in S}
<1>1. T \in SUBSET (0 .. NsCap) /\ T # {}
  BY DEF Aged
<1>2. Most(T) \in T /\ \A y \in T : y <= Most(T)
  <2> HIDE DEF T
  <2> QED BY <1>1, MostIsThere, SourceNumbers DEF SourceConstants
<1>3. Oldest(all, S) = Most(T)
  BY DEF Oldest
<1>4. \A i \in S : all[i].age \in T /\ all[i].age = AgeIn(state, i)
  BY DEF Aged
<1> HIDE DEF T
<1>5. Most(T) \in 0 .. NsCap /\ \A i \in S : AgeIn(state, i) \in 0 .. NsCap
  BY <1>1, <1>2, <1>4
<1>6. \A i \in S : AgeIn(state, i) <= Most(T)
  BY <1>2, <1>4
<1> QED BY <1>3, <1>5, <1>6

\* Two sources the choice cannot tell apart by battery, priority and confidence.
Tied(all, i, k) ==
    /\ PhysicalOf[i] # 0 /\ PhysicalOf[k] = PhysicalOf[i]
    /\ PriorityOf[k] = PriorityOf[i] /\ all[k].sure = all[i].sure

\* Every averaged source is asked when the average is dated, or one it is tied
\* with: of two observers of one battery, both choices take the one of higher
\* priority, then of higher confidence; between equals the averaging takes the
\* last id and the dating the first in the list.
LEMMA AveragedAreDated ==
    ASSUME NEW all, DOMAIN all \subseteq 0 .. NsCount, NEW i \in AveragedSources(all)
    PROVE  \E k \in DatingSources(all) : k = i \/ Tied(all, i, k)
<1> DEFINE giving == {k \in DOMAIN all : Provides(all, k)}
           Place(k) == IF k = 0 THEN NsCount + 1 ELSE k
           Beats(j, k) ==
              \/ PriorityOf[j] > PriorityOf[k]
              \/ /\ PriorityOf[j] = PriorityOf[k]
                 /\ \/ all[j].sure /\ ~all[k].sure
                    \/ all[j].sure = all[k].sure /\ Place(j) < Place(k)
           ties == {k \in giving : k = i \/ Tied(all, i, k)}
<1>1. i \in giving /\ giving \subseteq 0 .. NsCount /\ NsCount \in Nat
  BY SourceNumbers DEF AveragedSources, SourceConstants
<1>2. \A j : j \in DatingSources(all) <=>
         j \in giving /\ (PhysicalOf[j] # 0 =>
            \A k \in giving \ {j} : PhysicalOf[k] = PhysicalOf[j] => Beats(j, k))
  BY DEF DatingSources
<1>3. CASE PhysicalOf[i] = 0
  BY <1>1, <1>2, <1>3
<1>4. CASE PhysicalOf[i] # 0
  <2>1. \A k \in giving : Place(k) \in Nat
    BY <1>1
  <2>2. \A j, k \in giving : Place(j) = Place(k) => j = k
    BY <1>1
  <2>3. ASSUME NEW k \in giving \ {i}, PhysicalOf[k] = PhysicalOf[i] PROVE Outranks(all, i, k)
    BY <1>4, <2>3 DEF AveragedSources
  <2> HIDE DEF Place, giving
  <2>4. PICK best \in ties : \A k \in ties : Place(best) <= Place(k)
    <3> DEFINE S == {Place(k) : k \in ties}
    <3>1. S \in SUBSET Nat /\ S # {}
      BY <1>1, <2>1
    <3>2. PICK x \in S : \A y \in S : x <= y
      <4> HIDE DEF S
      <4> QED BY <3>1, LeastIsThere
    <3> QED BY <3>2
  <2>5. /\ best \in giving /\ PhysicalOf[best] = PhysicalOf[i]
        /\ PriorityOf[best] = PriorityOf[i] /\ all[best].sure = all[i].sure
    BY <2>4 DEF Tied
  <2>6. ASSUME NEW k \in giving \ {best}, PhysicalOf[k] = PhysicalOf[best]
        PROVE  Beats(best, k)
    <3>1. CASE k \in ties
      <4>1. PriorityOf[k] = PriorityOf[best] /\ all[k].sure = all[best].sure
        BY <2>5, <3>1 DEF Tied
      <4>2. Place(best) < Place(k)
        BY <2>1, <2>2, <2>4, <2>5, <2>6, <3>1
      <4> QED BY <4>1, <4>2
    <3>2. CASE k \notin ties
      <4>1. k # i /\ ~Tied(all, i, k)
        BY <2>6, <3>2
      <4>2. Outranks(all, i, k)
        BY <2>3, <2>5, <2>6, <4>1
      <4>3. \/ PriorityOf[i] > PriorityOf[k]
            \/ PriorityOf[i] = PriorityOf[k] /\ all[i].sure /\ ~all[k].sure
        BY <1>4, <2>5, <2>6, <4>1, <4>2, Zenon DEF Outranks, Tied
      <4> QED BY <2>5, <4>3
    <3> QED BY <3>1, <3>2
  <2>7. best \in DatingSources(all)
    BY <1>2, <2>5, <2>6
  <2> QED BY <2>4, <2>7
<1> QED BY <1>3, <1>4

LEMMA SelectedSocIsDated ==
    ASSUME NEW state, \A s \in Sources_ : state[s].good.age \in 0 .. NsCap,
           gate.age \in 0 .. NsCap
    PROVE  SocOk(SelectSoc(Contributors(state)), state, gate)
<1> DEFINE all == Contributors(state)
           averaged == AveragedSources(all)
           own == {i \in DOMAIN all \ {0} : all[i].soc}
           first == CHOOSE i \in own : \A k \in own : i <= k
           r == SelectSoc(all)
           Good(x) == /\ DOMAIN x = {"has", "from", "age"} /\ x.from \subseteq 0 .. NsCount /\ x.age \in 0 .. NsCap
                      /\ ~x.has => x.from = {}
                      /\ \A i \in x.from : \E k \in EquallyGood(state, i) : x.age >= AgeIn(state, k)
<1>1. Aged(all, state)
  BY ContributorsAreAged
<1> HIDE DEF all
<1>s. \A i : i \in EquallyGood(state, i)
  BY DEF EquallyGood
<1>2. ASSUME UseCombined /\ averaged # {} PROVE Good(r)
  <2>1. DatingSources(all) \subseteq {k \in DOMAIN all : Provides(all, k)} /\ averaged \subseteq DOMAIN all
    BY DEF DatingSources, AveragedSources
  <2>a. \A i \in averaged : \E k \in DatingSources(all) : k = i \/ Tied(all, i, k)
    BY <1>1, AveragedAreDated DEF Aged
  <2> DEFINE o == Oldest(all, DatingSources(all))
  <2>2. o \in 0 .. NsCap /\ \A i \in DatingSources(all) : o >= AgeIn(state, i)
    <3>1. DatingSources(all) # {}
      BY <1>2, <2>a
    <3> HIDE DEF averaged
    <3> QED BY <1>1, <2>1, <3>1, OldestIsBound
  <2>b. ASSUME NEW i \in averaged PROVE \E k \in EquallyGood(state, i) : o >= AgeIn(state, k)
    <3>1. PICK k \in DatingSources(all) : k = i \/ Tied(all, i, k)
      BY <2>a
    <3>2. o >= AgeIn(state, k)
      BY <2>2
    <3>3. k \in DOMAIN all /\ i \in DOMAIN all /\ Provides(all, k)
      BY <2>1
    <3>4. k \in EquallyGood(state, i)
      <4>1. CASE k = i
        BY <1>s, <4>1
      <4>2. CASE Tied(all, i, k)
        <5>1. k \in 0 .. NsCount /\ SureIn(state, k) = SureIn(state, i)
          BY <1>1, <3>3, <4>2 DEF Aged, Tied
        <5>2. k # 0 => state[k].good.has /\ state[k].good.soc /\ state[k].good.capacity
          BY <1>1, <3>3 DEF Aged, Provides
        <5> QED BY <4>2, <5>1, <5>2 DEF EquallyGood, Tied
      <4> QED BY <3>1, <4>1, <4>2
    <3> QED BY <3>2, <3>4
  <2>3. r = [has |-> TRUE, from |-> averaged, age |-> o]
    BY <1>2 DEF SelectSoc
  <2> HIDE DEF averaged, o, r
  <2>4. /\ DOMAIN r = {"has", "from", "age"} /\ r.has /\ r.from = averaged /\ r.age = o
    BY <2>3
  <2>5. averaged \subseteq 0 .. NsCount
    BY <1>1, <2>1 DEF Aged
  <2> QED BY <2>b, <2>2, <2>4, <2>5
<1>3. ASSUME ~(UseCombined /\ averaged # {}) /\ own # {} PROVE Good(r)
  <2>1. own \in SUBSET Nat /\ own \subseteq DOMAIN all /\ own \subseteq 0 .. NsCount
    BY <1>1 DEF Aged
  <2>2. first \in own
    <3>1. \E i \in own : \A k \in own : i <= k
      <4> HIDE DEF own
      <4> QED BY <1>3, <2>1, LeastIsThere
    <3> HIDE DEF own
    <3> QED BY <3>1
  <2>3. r = [has |-> TRUE, from |-> {first}, age |-> all[first].age]
    BY <1>3 DEF SelectSoc
  <2> HIDE DEF averaged, own, first, r
  <2>4. /\ DOMAIN r = {"has", "from", "age"} /\ r.has /\ r.from = {first} /\ r.age = all[first].age
    BY <2>3
  <2>5. all[first].age = AgeIn(state, first) /\ all[first].age \in 0 .. NsCap
    BY <1>1, <2>1, <2>2 DEF Aged
  <2>6. AgeIn(state, first) >= AgeIn(state, first) /\ first \in EquallyGood(state, first)
    BY <1>s, <2>5, SourceNumbers DEF SourceConstants
  <2> QED BY <2>1, <2>2, <2>4, <2>5, <2>6
<1>4. ASSUME ~(UseCombined /\ averaged # {}) /\ own = {} /\ 0 \in DOMAIN all /\ gate.soc PROVE Good(r)
  <2>1. r = [has |-> TRUE, from |-> {0}, age |-> gate.age]
    BY <1>4 DEF SelectSoc
  <2> HIDE DEF averaged, own, first, r
  <2>2. /\ DOMAIN r = {"has", "from", "age"} /\ r.has /\ r.from = {0} /\ r.age = gate.age
    BY <2>1
  <2>3. gate.age >= AgeIn(state, 0) /\ 0 \in 0 .. NsCount
    BY SourceNumbers DEF AgeIn, SourceConstants
  <2> QED BY <1>s, <2>2, <2>3
<1>5. ASSUME ~(UseCombined /\ averaged # {}) /\ own = {} /\ ~(0 \in DOMAIN all /\ gate.soc) PROVE Good(r)
  <2>1. r = NoReading
    BY <1>5 DEF SelectSoc
  <2> HIDE DEF averaged, own, first, r
  <2>2. /\ DOMAIN r = {"has", "from", "age"} /\ ~r.has /\ r.from = {} /\ r.age = 0
    BY <2>1 DEF NoReading
  <2> QED BY <2>2, SourceNumbers DEF SourceConstants
<1>6. Good(r)
  <2> HIDE DEF r, averaged, own
  <2> QED BY <1>2, <1>3, <1>4, <1>5
<1>7. SocOk(r, state, gate)
  <2> HIDE DEF r
  <2> QED BY <1>6 DEF SocOk, AgeIn
<1> QED BY <1>7 DEF all

LEMMA FusionKeepsShape ==
    ASSUME NEW f, FusionOk(f), NEW state
    PROVE  FusionOk(ResolveFusion(f, state).fusion)
<1>1. ASSUME NEW g, FusionOk(g), NEW side \in {"primary", "backup"} PROVE FusionOk(Activate(g, side))
  BY <1>1 DEF Activate, FusionOk, FusionFields
<1>2. ASSUME NEW g, FusionOk(g), NEW x PROVE FusionOk([g EXCEPT !.invalid = x])
  BY <1>2 DEF FusionOk, FusionFields
<1>3. ASSUME NEW g, FusionOk(g), NEW x PROVE FusionOk([g EXCEPT !.recovered = x])
  BY <1>3 DEF FusionOk, FusionFields
<1>4. ASSUME NEW g, NEW source, NEW age PROVE Pick(g, source, age).fusion = g
  BY DEF Pick
<1>5. ASSUME NEW g, FusionOk(g), NEW p, NEW b PROVE FusionOk(SelectGrid(g, state, p, b).fusion)
  <2> DEFINE missed == [g EXCEPT !.invalid = IF @ < Failover THEN @ + 1 ELSE @]
             again == [g EXCEPT !.recovered = CASE ~p -> 0
                                                 [] p /\ @ < Recover -> @ + 1
                                                 [] OTHER -> @]
             valid == [g EXCEPT !.invalid = 0]
  <2>1. FusionOk(missed) /\ FusionOk(again) /\ FusionOk(valid)
    BY <1>2, <1>3, <1>5
  <2>2. FusionOk(Activate(g, "primary")) /\ FusionOk(Activate(g, "backup"))
    BY <1>1, <1>5
  <2>3. \E h \in {missed, again, valid, g, Activate(g, "primary"), Activate(g, "backup")} :
           \E source, age : SelectGrid(g, state, p, b) = Pick(h, source, age)
    <3> HIDE DEF missed, again, valid
    <3>1. g.active \in {"none", "primary", "backup"}
      BY <1>5 DEF FusionOk
    <3>2. CASE g.active = "none"
      BY <3>2 DEF SelectGrid
    <3>3. CASE g.active = "primary"
      BY <3>3 DEF SelectGrid, missed, valid
    <3>4. CASE g.active = "backup"
      BY <3>4 DEF SelectGrid, again
    <3> QED BY <3>1, <3>2, <3>3, <3>4
  <2> HIDE DEF missed, again, valid
  <2> QED BY <1>4, <1>5, <2>1, <2>2, <2>3
<1>6. ASSUME NEW g, FusionOk(g), NEW p, NEW b PROVE FusionOk(Plausible(g, state, p, b))
  BY <1>6 DEF Plausible, FusionOk, FusionFields
<1> DEFINE p == PrimaryValid(state)
           b == BackupValid
           viewed == IF p THEN [f EXCEPT !.last = [has |-> TRUE, from |-> {1}, age |-> state[1].good.age]] ELSE f
           chosen == SelectGrid(viewed, state, p, b)
           checked == Plausible(chosen.fusion, state, p, b)
<1>7. FusionOk(viewed)
  <2> HIDE DEF p
  <2> QED BY DEF FusionOk, FusionFields
<1>8. FusionOk(checked)
  <2>1. FusionOk(chosen.fusion)
    <3> HIDE DEF viewed, p, b
    <3> QED BY <1>5, <1>7
  <2> HIDE DEF chosen, p, b
  <2> QED BY <1>6, <2>1
<1>9. \E source, age : ResolveFusion(f, state) = Pick(checked, source, age)
  <2> HIDE DEF p, b, checked
  <2> QED BY DEF ResolveFusion, checked, p, b
<1> HIDE DEF checked
<1> QED BY <1>4, <1>8, <1>9

LEMMA GrownKeepsOrder ==
    ASSUME NEW n \in 0 .. NsCap, NEW m \in 0 .. NsCap, n <= m
    PROVE  /\ Grown(n) \in 0 .. NsCap /\ Grown(m) \in 0 .. NsCap /\ Grown(n) <= Grown(m)
           /\ n <= Grown(m)
BY SourceNumbers DEF Grown, SourceConstants

(***************************************************************************)
(* The actions.                                                            *)
(***************************************************************************)
LEMMA NewSourceOk ==
    ASSUME NEW s \in Sources_, NEW e
    PROVE  ReadOk(s, NoConnector, e) /\ StateOk(NewSource, NoConnector.parts)
<1>1. NoConnector \in Connectors /\ NoConnector.parts = <<>> /\ Uniform(NoConnector.parts, e)
      /\ Len(NoConnector.parts) = 0
  BY DEF NoConnector, Connectors, Uniform
<1>2. /\ DOMAIN NewSource = StateFields /\ NewSource.good = NoGood /\ NewSource.wait = 0 /\ NewSource.fails = 0
      /\ ~NewSource.progress
  BY DEF NewSource, StateFields
<1>3. DOMAIN NoGood = GoodFields /\ NoGood.age = 0 /\ ~NoGood.has
  BY DEF NoGood, GoodFields
<1> QED BY <1>1, <1>2, <1>3, SourceNumbers DEF ReadOk, StateOk, GoodOk, SourceConstants

LEMMA FusionStarts == FusionOk(NewFusion)
BY DEF FusionOk, NewFusion, FusionFields

LEMMA NothingTold ==
    ASSUME NEW state, NEW g
    PROVE  SocOk(NoReading, state, g)
BY SourceNumbers DEF SocOk, NoReading, SourceConstants

LEMMA SourcesStart == NsInit => SourcesInv
<1> SUFFICES ASSUME NsInit PROVE SourcesInv
  OBVIOUS
<1>1. DOMAIN conn = Sources_ /\ DOMAIN src = Sources_ /\ era \in [Sources_ -> {0, 1}]
  BY DEF NsInit
<1>2. \A s \in Sources_ : ReadOk(s, conn[s], era[s]) /\ StateOk(src[s], conn[s].parts)
  <2> TAKE s \in Sources_
  <2>1. conn[s] = NoConnector /\ src[s] = NewSource
    BY DEF NsInit
  <2> QED BY <2>1, NewSourceOk
<1>3. turn \in 0 .. NsCount - 1
  BY SourceNumbers DEF NsInit, SourceConstants
<1>4. gate \in GatewayReadings(0 .. NsCap)
  <2>1. gate \in GatewayReadings({0})
    BY NsAssumption DEF NsInit, NsAssumption
  <2> QED BY <2>1, SourceNumbers DEF GatewayReadings, SourceConstants
<1>5. FusionOk(fuse)
  BY FusionStarts DEF NsInit
<1>6. DOMAIN told = {"soc", "pv", "grid"} /\ told.soc = NoReading
  BY DEF NsInit
<1>7. SocOk(told.soc, src, gate)
  BY <1>6, NothingTold
<1> QED BY <1>1, <1>2, <1>3, <1>4, <1>5, <1>6, <1>7 DEF SourcesInv

LEMMA CycleKeeps ==
    ASSUME SourcesInv, CollectCycle
    PROVE  SourcesInv'
<1> USE DEF SourcesInv
<1>1. /\ DOMAIN conn' = Sources_ /\ DOMAIN src' = Sources_ /\ era' \in [Sources_ -> {0, 1}]
      /\ turn' \in 0 .. NsCount - 1
      /\ \A s \in Sources_ : ReadOk(s, conn[s], era[s])' /\ StateOk(src'[s], conn'[s].parts)
  <2>1. CASE DueSources_ = {}
    <3>1. UNCHANGED <<kinds, conn, src, turn, era>>
      BY <2>1 DEF CollectCycle
    <3> QED BY <3>1 DEF ReadOk
  <2>2. CASE DueSources_ # {}
    <3> DEFINE n == NsNextDue
    <3>1. n \in Sources_ /\ turn' \in 0 .. NsCount - 1
      BY <2>2, SourceIsDue DEF CollectCycle
    <3>2. PICK out \in AttemptOutcomes(n) :
            /\ conn' = [conn EXCEPT ![n] = out.conn]
            /\ src' = [src EXCEPT ![n] = out.src]
            /\ era' = [era EXCEPT ![n] = IF out.failed THEN 1 - @ ELSE @]
      BY <2>2 DEF CollectCycle
    <3> HIDE DEF n
    <3>3. era[n] \in {0, 1} /\ ReadOk(n, conn[n], era[n]) /\ StateOk(src[n], conn[n].parts)
      BY <3>1
    <3> DEFINE e == IF out.failed THEN 1 - era[n] ELSE era[n]
    <3>4. ReadOk(n, out.conn, e) /\ StateOk(out.src, out.conn.parts)
      BY <3>1, <3>3, OutcomesAreOk
    <3>5. e \in {0, 1}
      BY <3>3
    <3>6. /\ DOMAIN conn' = Sources_ /\ DOMAIN src' = Sources_ /\ era' = [era EXCEPT ![n] = e]
          /\ conn'[n] = out.conn /\ src'[n] = out.src /\ era'[n] = e
          /\ \A s \in Sources_ \ {n} : conn'[s] = conn[s] /\ src'[s] = src[s] /\ era'[s] = era[s]
      BY <3>1, <3>2
    <3> HIDE DEF e
    <3>7. era' \in [Sources_ -> {0, 1}]
      BY <3>5, <3>6
    <3>8. kinds' = kinds
      BY DEF CollectCycle
    <3>9. ASSUME NEW s \in Sources_ PROVE ReadOk(s, conn[s], era[s])' /\ StateOk(src'[s], conn'[s].parts)
      <4>1. CASE s = n
        <5>1. ReadOk(s, conn'[s], era'[s])
          BY <3>4, <3>6, <4>1
        <5> QED BY <3>4, <3>6, <3>8, <4>1, <5>1 DEF ReadOk
      <4>2. CASE s # n
        <5>1. ReadOk(s, conn'[s], era'[s]) /\ StateOk(src'[s], conn'[s].parts)
          BY <3>6, <4>2
        <5> QED BY <3>8, <5>1 DEF ReadOk
      <4> QED BY <4>1, <4>2
    <3> QED BY <3>1, <3>6, <3>7, <3>9
  <2> QED BY <2>1, <2>2
<1>2. gate' = gate
  BY DEF CollectCycle
<1>3. FusionOk(fuse')
  <2>1. fuse' = ResolveFusion(fuse, src').fusion
    BY DEF CollectCycle
  <2> QED BY <2>1, FusionKeepsShape
<1>4. DOMAIN told' = {"soc", "pv", "grid"} /\ told'.soc = SelectSoc(Contributors(src'))
  BY DEF CollectCycle
<1>5. SocOk(told'.soc, src', gate)
  <2>1. \A s \in Sources_ : src'[s].good.age \in 0 .. NsCap
    BY <1>1 DEF StateOk, GoodOk
  <2>2. gate.age \in 0 .. NsCap
    BY DEF GatewayReadings
  <2> QED BY <1>4, <2>1, <2>2, SelectedSocIsDated
<1>6. FusionOk(fuse)' /\ SocOk(told.soc, src, gate)'
  BY <1>2, <1>3, <1>5 DEF FusionOk, SocOk
<1> QED BY <1>1, <1>2, <1>4, <1>6 DEF StateOk

LEMMA RestartKeeps ==
    ASSUME SourcesInv, HelperRestarts
    PROVE  SourcesInv'
<1>1. /\ DOMAIN conn' = Sources_ /\ DOMAIN src' = Sources_ /\ era' \in [Sources_ -> {0, 1}]
      /\ \A s \in Sources_ : conn'[s] = NoConnector /\ src'[s] = NewSource
      /\ turn' = 0 /\ gate' = gate /\ fuse' = NewFusion
      /\ DOMAIN told' = {"soc", "pv", "grid"} /\ told'.soc = NoReading
  BY DEF HelperRestarts
<1>2. \A s \in Sources_ : ReadOk(s, conn[s], era[s])' /\ StateOk(src[s], conn[s].parts)'
  <2> TAKE s \in Sources_
  <2>1. /\ NoConnector \in Connectors /\ NoConnector.parts = <<>> /\ Len(NoConnector.parts) = 0
        /\ Uniform(NoConnector.parts, era'[s])
    BY DEF NoConnector, Connectors, Uniform
  <2>2. StateOk(NewSource, NoConnector.parts) /\ PartsOf[s] \in Nat \ {0}
    BY NewSourceOk, SourceNumbers DEF SourceConstants
  <2> QED BY <1>1, <2>1, <2>2 DEF ReadOk, StateOk
<1>3. turn' \in 0 .. NsCount - 1 /\ gate' \in GatewayReadings(0 .. NsCap)
  BY <1>1, SourceNumbers DEF SourcesInv, SourceConstants
<1>4. FusionOk(fuse)' /\ SocOk(told.soc, src, gate)'
  <2>1. FusionOk(fuse')
    BY <1>1, FusionStarts
  <2>2. SocOk(told'.soc, src', gate')
    BY <1>1, NothingTold
  <2> QED BY <2>1, <2>2 DEF FusionOk, SocOk
<1> QED BY <1>1, <1>2, <1>3, <1>4 DEF SourcesInv

LEMMA MeasuringKeeps ==
    ASSUME SourcesInv, GatewayMeasures
    PROVE  SourcesInv'
<1>1. UNCHANGED <<kinds, conn, src, turn, fuse, told, era>>
  BY DEF GatewayMeasures
<1>2. gate' \in GatewayReadings({0})
  BY NsAssumption DEF GatewayMeasures, NsAssumption
<1>3. gate' \in GatewayReadings(0 .. NsCap) /\ gate'.age = 0
  BY <1>2, SourceNumbers DEF GatewayReadings, SourceConstants
<1>4. \A s \in Sources_ : ReadOk(s, conn[s], era[s])' /\ StateOk(src[s], conn[s].parts)'
  BY <1>1 DEF SourcesInv, ReadOk, StateOk
<1>5. FusionOk(fuse)'
  BY <1>1 DEF SourcesInv, FusionOk
<1>6. SocOk(told.soc, src, gate)'
  <2>1. SocOk(told.soc, src, gate)
    BY DEF SourcesInv
  <2> QED BY <1>1, <1>3, <2>1 DEF SocOk
<1> QED BY <1>1, <1>3, <1>4, <1>5, <1>6 DEF SourcesInv

LEMMA SourcesTickKeeps ==
    ASSUME SourcesInv, TickGoesBy
    PROVE  SourcesInv'
<1>1. UNCHANGED <<kinds, conn, turn, era>>
  BY DEF TickGoesBy
<1>2. ASSUME NEW s \in Sources_
      PROVE  /\ src'[s].good.age = (IF src[s].good.has THEN Grown(src[s].good.age) ELSE src[s].good.age)
             /\ StateOk(src'[s], conn[s].parts)
             /\ src'[s].good.has = src[s].good.has /\ src'[s].good.soc = src[s].good.soc
             /\ src'[s].good.capacity = src[s].good.capacity /\ src'[s].good.sure = src[s].good.sure
  <2> DEFINE st == src[s]
             w == IF st.wait > 0 THEN st.wait - 1 ELSE 0
             a == IF st.good.has THEN Grown(st.good.age) ELSE st.good.age
             g == Older(st.good)
  <2>1. StateOk(st, conn[s].parts) /\ st.good.age \in 0 .. NsCap
    BY DEF SourcesInv, StateOk, GoodOk
  <2>2. src'[s] = [st EXCEPT !.wait = w, !.good = g]
    BY DEF TickGoesBy
  <2>3. w \in 0 .. LongestWait /\ a \in 0 .. NsCap
    <3> HIDE DEF st
    <3>1. st.wait \in 0 .. LongestWait /\ LongestWait \in Nat
      BY <2>1, SourceNumbers DEF StateOk, SourceConstants
    <3>2. w \in 0 .. LongestWait
      BY <3>1
    <3>3. Grown(st.good.age) \in 0 .. NsCap
      <4>1. st.good.age \in 0 .. NsCap /\ st.good.age <= st.good.age
        BY <2>1, SourceNumbers DEF SourceConstants
      <4> QED BY <4>1, GrownKeepsOrder
    <3> QED BY <2>1, <3>2, <3>3
  <2>7. /\ DOMAIN g = GoodFields /\ g.age = a /\ g.has = st.good.has /\ g.parts = st.good.parts
        /\ g.soc = st.good.soc /\ g.capacity = st.good.capacity /\ g.sure = st.good.sure
    <3> HIDE DEF st
    <3> QED BY <2>1 DEF Older, Later, StateOk, GoodOk, GoodFields
  <2> HIDE DEF w, a, st, g
  <2>4. /\ DOMAIN src'[s] = StateFields /\ src'[s].wait = w /\ src'[s].fails = st.fails
        /\ src'[s].progress = st.progress /\ src'[s].good = g
    BY <2>1, <2>2 DEF StateOk, StateFields
  <2>5. /\ DOMAIN src'[s].good = GoodFields /\ src'[s].good.age = a
        /\ src'[s].good.has = st.good.has /\ src'[s].good.parts = st.good.parts
        /\ src'[s].good.soc = st.good.soc /\ src'[s].good.capacity = st.good.capacity
        /\ src'[s].good.sure = st.good.sure
    BY <2>4, <2>7
  <2>6. StateOk(src'[s], conn[s].parts)
    BY <2>1, <2>3, <2>4, <2>5 DEF StateOk, GoodOk
  <2> QED BY <2>5, <2>6 DEF a, st
<1>3. DOMAIN src' = Sources_
  BY DEF TickGoesBy
<1>4. gate.age \in 0 .. NsCap /\ gate' = [gate EXCEPT !.age = Grown(gate.age)]
  BY DEF SourcesInv, GatewayReadings, TickGoesBy, Later
<1>5. gate' \in GatewayReadings(0 .. NsCap) /\ gate'.age = Grown(gate.age)
  <2>1. Grown(gate.age) \in 0 .. NsCap
    BY <1>4, GrownKeepsOrder, SourceNumbers DEF SourceConstants
  <2> QED BY <1>4, <2>1 DEF SourcesInv, GatewayReadings
<1>6. FusionOk(fuse')
  <2>1. \E x : fuse' = [fuse EXCEPT !.last = x]
    BY DEF TickGoesBy
  <2> QED BY <2>1 DEF SourcesInv, FusionOk, FusionFields
<1>7. /\ DOMAIN told' = {"soc", "pv", "grid"}
      /\ DOMAIN told'.soc = {"has", "from", "age"} /\ told'.soc.from = told.soc.from /\ told'.soc.has = told.soc.has
      /\ told'.soc.age = (IF told.soc.has THEN Grown(told.soc.age) ELSE told.soc.age)
  <2>1. PICK x, y : told' = [told EXCEPT !.soc = Older(told.soc), !.pv = x, !.grid = y]
    BY DEF TickGoesBy
  <2>2. DOMAIN told = {"soc", "pv", "grid"} /\ DOMAIN told.soc = {"has", "from", "age"}
    BY DEF SourcesInv, SocOk
  <2>3. DOMAIN told' = {"soc", "pv", "grid"} /\ told'.soc = Older(told.soc)
    BY <2>1, <2>2
  <2> QED BY <2>2, <2>3 DEF Older, Later
<1>8. SocOk(told'.soc, src', gate')
  <2>1. SocOk(told.soc, src, gate)
    BY DEF SourcesInv
  <2>2. told'.soc.age \in 0 .. NsCap
    BY <1>7, <2>1, GrownKeepsOrder, SourceNumbers DEF SocOk, SourceConstants
  <2>3. ASSUME NEW i \in told.soc.from
        PROVE  \E k \in EquallyGood(src', i) : told'.soc.age >= (IF k = 0 THEN gate'.age ELSE src'[k].good.age)
    <3>1. told.soc.has /\ told.soc.age \in 0 .. NsCap /\ i \in 0 .. NsCount
      BY <2>1 DEF SocOk
    <3>2. told'.soc.age = Grown(told.soc.age)
      BY <1>7, <3>1
    <3>e. PICK k \in EquallyGood(src, i) : told.soc.age >= (IF k = 0 THEN gate.age ELSE src[k].good.age)
      BY <2>1 DEF SocOk
    <3>k. k \in 0 .. NsCount
      BY <3>1, <3>e DEF EquallyGood
    <3>f. k \in EquallyGood(src', i)
      <4>s. \A s \in 0 .. NsCount : s = 0 \/ s \in Sources_
        BY SourceNumbers DEF Sources_, SourceConstants
      <4>1. \A s \in 0 .. NsCount : SureIn(src', s) = SureIn(src, s)
        BY <1>2, <4>s, Zenon DEF SureIn
      <4>2. k # 0 => k \in Sources_
        BY <3>k, SourceNumbers DEF Sources_, SourceConstants
      <4> QED BY <1>2, <3>1, <3>e, <3>k, <4>1, <4>2 DEF EquallyGood
    <3>3. CASE k = 0
      <4>1. gate.age <= told.soc.age
        BY <3>1, <3>3, <3>e, <1>4
      <4>2. Grown(gate.age) <= Grown(told.soc.age) /\ Grown(told.soc.age) \in 0 .. NsCap /\ Grown(gate.age) \in 0 .. NsCap
        BY <1>4, <3>1, <4>1, GrownKeepsOrder
      <4> QED BY <1>5, <3>2, <3>3, <3>f, <4>2
    <3>4. CASE k # 0
      <4>1. k \in Sources_
        BY <3>k, <3>4, SourceNumbers DEF Sources_, SourceConstants
      <4>2. src[k].good.age \in 0 .. NsCap
        BY <4>1 DEF SourcesInv, StateOk, GoodOk
      <4>3. src[k].good.age <= told.soc.age
        BY <3>e, <3>1, <3>4, <4>2
      <4>4. /\ Grown(src[k].good.age) <= Grown(told.soc.age) /\ src[k].good.age <= Grown(told.soc.age)
            /\ Grown(told.soc.age) \in 0 .. NsCap /\ Grown(src[k].good.age) \in 0 .. NsCap
        BY <4>2, <4>3, <3>1, GrownKeepsOrder
      <4> QED BY <1>2, <3>2, <3>4, <3>f, <4>1, <4>2, <4>4
    <3> QED BY <3>3, <3>4
  <2> QED BY <1>7, <2>1, <2>2, <2>3 DEF SocOk
<1>9. \A s \in Sources_ : ReadOk(s, conn[s], era[s])' /\ StateOk(src[s], conn[s].parts)'
  <2> TAKE s \in Sources_
  <2>1. ReadOk(s, conn[s], era[s])'
    BY <1>1 DEF SourcesInv, ReadOk
  <2>2. StateOk(src[s], conn[s].parts)'
    BY <1>1, <1>2 DEF StateOk
  <2> QED BY <2>1, <2>2
<1>10. FusionOk(fuse)' /\ SocOk(told.soc, src, gate)'
  BY <1>6, <1>8 DEF FusionOk, SocOk
<1> QED BY <1>1, <1>3, <1>5, <1>7, <1>9, <1>10 DEF SourcesInv

LEMMA SourcesKept ==
    ASSUME SourcesInv, [NsNext]_nsVars
    PROVE  SourcesInv'
<1>1. CASE CollectCycle
  BY <1>1, CycleKeeps
<1>2. CASE HelperRestarts
  BY <1>2, RestartKeeps
<1>3. CASE GatewayMeasures
  BY <1>3, MeasuringKeeps
<1>4. CASE TickGoesBy
  BY <1>4, SourcesTickKeeps
<1>5. CASE UNCHANGED nsVars
  BY <1>5 DEF nsVars, SourcesInv, ReadOk, StateOk, FusionOk, SocOk
<1> QED BY <1>1, <1>2, <1>3, <1>4, <1>5 DEF NsNext

LEMMA SourcesTyped == SourcesInv => NsTypeOK
<1> SUFFICES ASSUME SourcesInv PROVE NsTypeOK
  OBVIOUS
<1>1. \A s \in Sources_ :
         /\ Len(conn[s].parts) < PartsOf[s]
         /\ src[s].wait \in 0 .. (IF NsInterval > NsBackoffMax THEN NsInterval ELSE NsBackoffMax)
         /\ src[s].fails \in 0 .. FailCut
         /\ src[s].good.age \in 0 .. NsCap
         /\ src[s].progress => conn[s].parts # <<>>
  BY DEF SourcesInv, ReadOk, StateOk, GoodOk, LongestWait
<1>2. turn \in 0 .. NsCount - 1
  BY DEF SourcesInv
<1>3. fuse.active \in {"none", "primary", "backup"}
  BY DEF SourcesInv, FusionOk
<1>4. told.soc.from \subseteq 0 .. NsCount
  BY DEF SourcesInv, SocOk
<1> QED BY <1>1, <1>2, <1>3, <1>4 DEF NsTypeOK

LEMMA ReadsAreOnePass == SourcesInv => OnePass
<1> SUFFICES ASSUME SourcesInv, NEW s \in Sources_, src[s].good.has
             PROVE  Cardinality({src[s].good.parts[i] : i \in DOMAIN src[s].good.parts}) = 1
  BY DEF OnePass
<1> DEFINE parts == src[s].good.parts
           T == {parts[i] : i \in DOMAIN parts}
<1>1. parts \in Seq({0, 1}) /\ parts # <<>> /\ \E e \in {0, 1} : Uniform(parts, e)
  BY DEF SourcesInv, StateOk, GoodOk
<1>2. PICK e \in {0, 1} : Uniform(parts, e)
  BY <1>1
<1>3. 1 \in DOMAIN parts
  <2> HIDE DEF parts
  <2> QED BY <1>1
<1>4. T = {e}
  <2> HIDE DEF parts
  <2> QED BY <1>2, <1>3 DEF Uniform
<1>5. Cardinality(T) = 1
  <2> HIDE DEF T
  <2> QED BY <1>4, FS_Singleton, Zenon
<1> QED BY <1>5

LEMMA SocsAreDated == SourcesInv => SocDated
<1> SUFFICES ASSUME SourcesInv, NEW i \in told.soc.from
             PROVE  \E k \in EquallyGood(src, i) : told.soc.age >= (IF k = 0 THEN gate.age ELSE src[k].good.age)
  BY DEF SocDated
<1> QED BY DEF SourcesInv, SocOk

\* For any connectors, parts, answers, failures, backoffs and restarts of the helper:
\* what a source is known for was read in one pass over its parts, and a combined
\* state of charge is never dated newer than a source it was averaged from, or than
\* an observer of the same battery with equal priority and confidence, whatever the
\* priorities (external.rs select_soc and weighted_soc_sources, energy.rs
\* unique_weighted_soc_sources).
THEOREM SourcesKeep == NsInit /\ [][NsNext]_nsVars => [](NsTypeOK /\ OnePass /\ SocDated)
<1>1. NsInit => SourcesInv
  BY SourcesStart
<1>2. SourcesInv /\ [NsNext]_nsVars => SourcesInv'
  BY SourcesKept
<1>3. SourcesInv => NsTypeOK /\ OnePass /\ SocDated
  BY SourcesTyped, ReadsAreOnePass, SocsAreDated
<1> QED BY <1>1, <1>2, <1>3, PTL

(***************************************************************************)
(* The charger's I/O keeps its types.                                      *)
(***************************************************************************)
Threads == {"current", "abandoned"}
Devices == [closed : SUBSET (1 .. rig.size), on : BOOLEAN, amps : Nat, phase : rig.supported]
Enabled_ == BOOLEAN \cup {Nothing}
Adapters == [enabled : Enabled_, amps : Nat \cup {Nothing}, selected : rig.supported, resume : Nat]
WorkerPasses == [at : {"idle", "write", "read", "store"}, target : BOOLEAN, wanted : SUBSET IoSelections,
                 member : 1 .. rig.size, got : Devices \cup {Nothing}]
WorkerOk(p) == p \in WorkerPasses /\ (p.at = "store" => p.got \in Devices)
Lines == {"unknown", "online", "degraded", "offline"}
ViewOk(v) == v \in [confirmed : BOOLEAN, relay : BOOLEAN, phase : rig.supported, age : {v.age}]
StateRead(st) == st.phase \in rig.supported /\ st.enabled \in Enabled_ /\ st.amps \in Nat \cup {Nothing}

LineOk(line) == line \in [retry : {line.retry}, errors : {line.errors}, state : Lines]
ReadbackOk(r) == r \in [state : {r.state}, age : {r.age}] /\ (r.state # Nothing => StateRead(r.state))

RigTyped ==
    /\ rig.size \in 1 .. 3 /\ 1 \in rig.supported /\ rig.supported \subseteq IoSelections

IoTyped ==
    /\ rig \in Rigs /\ RigTyped
    /\ ioDevice \in Devices /\ adapter \in Adapters /\ ioPending \in Enabled_
    /\ DOMAIN crew = Threads /\ \A w \in Threads : WorkerOk(crew[w])
    /\ LineOk(shellyLine) /\ ViewOk(ioView) /\ ReadbackOk(readback)

LEMMA IoNumbers ==
    /\ GroupSize \in 1 .. 3 /\ IoSelections \subseteq 1 .. 3 /\ 1 \in IoSelections
    /\ Nothing \notin BOOLEAN /\ DefaultSetting \in Nat /\ \A half \in HalfAmps : half \in Nat \ {0}
<1>1. /\ GroupSize \in 1 .. 3 /\ Nothing \notin BOOLEAN /\ DefaultSetting \in Nat
      /\ \A half \in HalfAmps : half \in Nat \ {0}
  BY IoAssumption DEF IoAssumption
<1>2. IoSelections \subseteq 1 .. 3 /\ 1 \in IoSelections
  BY <1>1 DEF IoSelections
<1> QED BY <1>1, <1>2

LEMMA GreatestSelection ==
    ASSUME NEW S \in SUBSET (1 .. 3), S # {}
    PROVE  Max(S) \in S
<1>1. \E x \in S : \A y \in S : x >= y
  <2>1. CASE 3 \in S
    BY <2>1
  <2>2. CASE 3 \notin S /\ 2 \in S
    BY <2>2
  <2>3. CASE 3 \notin S /\ 2 \notin S
    <3>1. \A x \in S : x = 1
      BY <2>3
    <3>2. PICK x \in S : TRUE
      OBVIOUS
    <3> QED BY <3>1, <3>2
  <2> QED BY <2>1, <2>2, <2>3
<1> QED BY <1>1 DEF Max

LEMMA RigsAreTyped == ASSUME rig \in Rigs PROVE RigTyped
<1>1. CASE rig \in GroupRigs
  <2>1. PICK members \in SUBSET IoSelections, requested \in SUBSET IoSelections :
          /\ ValidMembers(members) /\ SupportedBy(requested, members)
          /\ rig.size = Max(members) /\ rig.supported = requested
    BY <1>1 DEF GroupRigs
  <2>2. members \in SUBSET (1 .. 3) /\ members # {}
    BY <2>1, IoNumbers DEF ValidMembers
  <2>3. rig.size \in 1 .. 3
    BY <2>1, <2>2, GreatestSelection
  <2> QED BY <2>1, <2>3 DEF RigTyped, SupportedBy
<1>2. CASE rig \in TemplateRigs
  <2>1. PICK phases \in {1, GroupSize} : rig.size = 1 /\ rig.supported = 1 .. phases
    BY <1>2 DEF TemplateRigs
  <2> QED BY <2>1, IoNumbers DEF RigTyped, IoSelections
<1>3. CASE rig \in NativeRigs \cup ModbusRigs
  <2>1. rig.size = 1 /\ rig.supported = {1}
    BY <1>3 DEF NativeRigs, ModbusRigs
  <2> QED BY <2>1, IoNumbers DEF RigTyped
<1> QED BY <1>1, <1>2, <1>3 DEF Rigs

LEMMA RestingTyped ==
    ASSUME RigTyped
    PROVE  /\ WorkerOk(Resting) /\ WorkerOk([Resting EXCEPT !.at = "read"])
           /\ \A d \in Devices : WorkerOk([Resting EXCEPT !.at = "store", !.got = d])
<1>1. Resting \in WorkerPasses /\ Resting.at = "idle"
  BY DEF Resting, WorkerPasses, RigTyped
<1>2. [Resting EXCEPT !.at = "read"] \in WorkerPasses /\ [Resting EXCEPT !.at = "read"].at = "read"
  BY <1>1 DEF WorkerPasses
<1>3. ASSUME NEW d \in Devices
      PROVE  [Resting EXCEPT !.at = "store", !.got = d] \in WorkerPasses
             /\ [Resting EXCEPT !.at = "store", !.got = d].got = d
  BY <1>1 DEF WorkerPasses
<1> QED BY <1>1, <1>2, <1>3 DEF WorkerOk

\* What the operations make of the device and of what its backend remembers.
LEMMA EnabledTyped ==
    ASSUME RigTyped, ioDevice \in Devices, adapter \in Adapters, NEW on \in BOOLEAN
    PROVE  DeviceEnabled(on) \in Devices /\ AdapterEnabled(on) \in Adapters
<1> DEFINE target == EnabledTarget(on)
<1>1. target \in Nat
  BY IoNumbers DEF EnabledTarget, Adapters
<1>2. DeviceEnabled(on) \in {[ioDevice EXCEPT !.amps = target, !.on = on], [ioDevice EXCEPT !.on = on]}
  BY DEF DeviceEnabled
<1>3. AdapterEnabled(on) \in {[adapter EXCEPT !.enabled = on, !.amps = target, !.resume = IF on THEN target ELSE adapter.resume],
                              [adapter EXCEPT !.enabled = on]}
  BY DEF AdapterEnabled
<1> HIDE DEF target
<1>4. [ioDevice EXCEPT !.amps = target, !.on = on] \in Devices /\ [ioDevice EXCEPT !.on = on] \in Devices
  BY <1>1 DEF Devices
<1>5. on \in Enabled_
  BY DEF Enabled_
<1>6. /\ [adapter EXCEPT !.enabled = on, !.amps = target, !.resume = IF on THEN target ELSE adapter.resume] \in Adapters
      /\ [adapter EXCEPT !.enabled = on] \in Adapters
  BY <1>1, <1>5 DEF Adapters
<1> QED BY <1>2, <1>3, <1>4, <1>6

LEMMA CurrentTyped ==
    ASSUME RigTyped, ioDevice \in Devices, adapter \in Adapters, NEW half \in HalfAmps
    PROVE  DeviceCurrent(half) \in Devices /\ AdapterCurrent(half) \in Adapters
<1> DEFINE amps == Setting(half)
           on == IF rig.kind = "modbus_current" THEN amps > 0 ELSE ioDevice.on
           resume == IF rig.kind = "modbus_current" /\ amps > 0 THEN amps ELSE adapter.resume
<1>1. amps \in Nat
  BY IoNumbers DEF Setting, Rounded
<1>2. on \in BOOLEAN /\ resume \in Nat
  <2> HIDE DEF amps
  <2>1. ioDevice.on \in BOOLEAN /\ adapter.resume \in Nat
    BY DEF Devices, Adapters
  <2>2. on \in BOOLEAN
    <3>1. (amps > 0) \in BOOLEAN
      BY <1>1
    <3> QED BY <2>1, <3>1, Zenon
  <2>3. resume \in Nat
    BY <1>1, <2>1
  <2> QED BY <2>2, <2>3
<1>3. DeviceCurrent(half) = [ioDevice EXCEPT !.amps = amps, !.on = on]
  BY DEF DeviceCurrent, Devices
<1>4. AdapterCurrent(half) = [adapter EXCEPT !.amps = amps, !.resume = resume]
  BY DEF AdapterCurrent, Adapters
<1> HIDE DEF amps, on, resume
<1>5. [ioDevice EXCEPT !.amps = amps, !.on = on] \in Devices
  BY <1>1, <1>2 DEF Devices
<1>6. [adapter EXCEPT !.amps = amps, !.resume = resume] \in Adapters
  BY <1>1, <1>2 DEF Adapters
<1> QED BY <1>3, <1>4, <1>5, <1>6

LEMMA MemberTyped ==
    ASSUME ioDevice \in Devices, NEW member \in 1 .. rig.size, NEW relays
    PROVE  MemberWritten(member, relays) \in Devices
<1> DEFINE closed == IF member \in relays THEN ioDevice.closed \cup {member} ELSE ioDevice.closed \ {member}
<1>1. closed \in SUBSET (1 .. rig.size)
  BY DEF Devices
<1>2. MemberWritten(member, relays) = [ioDevice EXCEPT !.closed = closed]
  BY DEF MemberWritten, Devices
<1> HIDE DEF closed
<1> QED BY <1>1, <1>2 DEF Devices

LEMMA SelectionTyped ==
    ASSUME RigTyped, adapter \in Adapters, NEW closed
    PROVE  SelectionClosed(closed) \in rig.supported
<1> DEFINE matching == {k \in rig.supported : LabelsOf(k) = closed}
<1>1. CASE matching = {}
  BY <1>1 DEF SelectionClosed, Adapters
<1>2. CASE matching # {}
  <2>1. matching \in SUBSET (1 .. 3) /\ matching \subseteq rig.supported
    BY IoNumbers DEF RigTyped
  <2>2. SelectionClosed(closed) = Max(matching)
    BY <1>2 DEF SelectionClosed
  <2> HIDE DEF matching
  <2> QED BY <1>2, <2>1, <2>2, GreatestSelection
<1> QED BY <1>1, <1>2

LEMMA StateTyped ==
    ASSUME RigTyped, adapter \in Adapters, NEW got \in Devices, NEW garbled \in BOOLEAN
    PROVE  StateRead(ChargerState(got, garbled))
<1> DEFINE amps == IF "amps" \notin rig.reports THEN adapter.amps
                   ELSE IF ~garbled THEN got.amps
                   ELSE IF rig.kind = "template" THEN Nothing ELSE adapter.amps
           enabled == IF "enabled" \in rig.reports
                      THEN IF garbled /\ rig.kind = "template" THEN Nothing ELSE got.on
                      ELSE IF adapter.enabled # Nothing \/ rig.kind # "modbus_current" \/ amps = Nothing
                      THEN adapter.enabled
                      ELSE amps > 0
           phase == IF "phase" \in rig.reports THEN got.phase ELSE adapter.selected
<1>1. amps \in Nat \cup {Nothing}
  BY DEF Devices, Adapters
<1>2. enabled \in Enabled_
  <2> HIDE DEF amps
  <2> QED BY <1>1 DEF Devices, Adapters, Enabled_
<1>3. phase \in rig.supported
  BY DEF Devices, Adapters
<1>4. ChargerState(got, garbled) = [enabled |-> enabled, amps |-> amps, phase |-> phase]
  BY DEF ChargerState
<1> HIDE DEF enabled, amps, phase
<1> QED BY <1>1, <1>2, <1>3, <1>4 DEF StateRead

LEMMA AdapterReadTyped ==
    ASSUME adapter \in Adapters, NEW st, StateRead(st)
    PROVE  AdapterRead(st) \in Adapters
<1> DEFINE resume == IF rig.kind = "modbus_current" /\ st.amps \notin {0, Nothing} THEN st.amps ELSE adapter.resume
<1>1. resume \in Nat
  BY DEF StateRead, Adapters
<1>2. AdapterRead(st) \in {[adapter EXCEPT !.selected = st.phase],
                           [adapter EXCEPT !.enabled = st.enabled, !.amps = st.amps, !.selected = st.phase, !.resume = resume]}
  BY DEF AdapterRead, Adapters
<1> HIDE DEF resume
<1>3. [adapter EXCEPT !.selected = st.phase] \in Adapters
  BY DEF StateRead, Adapters
<1>4. [adapter EXCEPT !.enabled = st.enabled, !.amps = st.amps, !.selected = st.phase, !.resume = resume] \in Adapters
  BY <1>1 DEF StateRead, Adapters
<1> QED BY <1>2, <1>3, <1>4

LEMMA LinesTyped ==
    ASSUME LineOk(shellyLine)
    PROVE  LineOk(RememberSuccess) /\ \A reason : LineOk(RememberFailure(reason))
<1>1. LineOk(RememberSuccess)
  BY DEF RememberSuccess, LineOk, Lines
<1>2. ASSUME NEW reason PROVE LineOk(RememberFailure(reason))
  <2> DEFINE errors == Min({shellyLine.errors + 1, DoublingCap + 1})
             delay == ShellyRetryDelay(reason, errors)
             st == IF delay >= SoftFail THEN "offline" ELSE "degraded"
             n == [shellyLine EXCEPT !.errors = errors, !.retry = delay, !.state = st]
  <2>1. RememberFailure(reason) = n
    BY DEF RememberFailure
  <2>2. st \in Lines
    BY DEF Lines
  <2> HIDE DEF st, errors, delay
  <2>3. n \in [retry : {n.retry}, errors : {n.errors}, state : Lines]
    BY <2>2 DEF LineOk
  <2> HIDE DEF n
  <2>4. LineOk(n)
    BY <2>3 DEF LineOk
  <2> QED BY <2>1, <2>4
<1> QED BY <1>1, <1>2

LEMMA ViewTyped ==
    ASSUME ViewOk(ioView)
    PROVE  /\ ViewOk(Unconfirmed)
           /\ \A age : ViewOk([ioView EXCEPT !.age = age]) /\ ViewOk([Unconfirmed EXCEPT !.age = age])
           /\ \A on \in BOOLEAN : ViewOk([Unconfirmed EXCEPT !.relay = on, !.age = 0])
           /\ \A on \in BOOLEAN, phase \in rig.supported :
                 ViewOk([confirmed |-> TRUE, relay |-> on, phase |-> phase, age |-> 0])
<1>1. ViewOk(Unconfirmed)
  BY DEF Unconfirmed, ViewOk
<1>2. ASSUME NEW v, ViewOk(v), NEW age PROVE ViewOk([v EXCEPT !.age = age])
  BY <1>2 DEF ViewOk
<1>3. ASSUME NEW v, ViewOk(v), NEW on \in BOOLEAN PROVE ViewOk([v EXCEPT !.relay = on, !.age = 0])
  BY <1>3 DEF ViewOk
<1>4. ASSUME NEW on \in BOOLEAN, NEW phase \in rig.supported
      PROVE  ViewOk([confirmed |-> TRUE, relay |-> on, phase |-> phase, age |-> 0])
  BY DEF ViewOk
<1> QED BY <1>1, <1>2, <1>3, <1>4

\* A step changes no device of the configuration.
LEMMA IoStep ==
    ASSUME IoTyped, rig' = rig, ioDevice' \in Devices, adapter' \in Adapters, ioPending' \in Enabled_,
           DOMAIN crew' = Threads, \A w \in Threads : WorkerOk(crew'[w]),
           LineOk(shellyLine'), ViewOk(ioView'), ReadbackOk(readback')
    PROVE  IoTyped'
<1>1. Devices' = Devices /\ Adapters' = Adapters /\ WorkerPasses' = WorkerPasses
  BY DEF Devices, Adapters, WorkerPasses
<1>2. \A w \in Threads : WorkerOk(crew[w])'
  BY <1>1 DEF WorkerOk
<1>3. LineOk(shellyLine)' /\ ViewOk(ioView)' /\ ReadbackOk(readback)'
  BY DEF LineOk, ViewOk, ReadbackOk, StateRead
<1>4. rig' \in Rigs /\ RigTyped'
  BY DEF IoTyped, RigTyped
<1>5. Threads' = Threads /\ Enabled_' = Enabled_ /\ Rigs' = Rigs
  BY DEF Threads, Enabled_, Rigs, GroupRigs, TemplateRigs, NativeRigs, ModbusRigs
<1> QED BY <1>1, <1>2, <1>3, <1>4, <1>5 DEF IoTyped

LEMMA IoStarts == IoInit => IoTyped
<1> SUFFICES ASSUME IoInit PROVE IoTyped
  OBVIOUS
<1>1. rig \in Rigs /\ RigTyped
  BY RigsAreTyped DEF IoInit
<1>2. ioDevice \in Devices /\ adapter \in Adapters /\ ioPending \in Enabled_
  BY <1>1 DEF IoInit, Devices, Adapters, Enabled_, RigTyped
<1>3. DOMAIN crew = Threads /\ \A w \in Threads : WorkerOk(crew[w])
  BY <1>1, RestingTyped DEF IoInit, Threads
<1>4. LineOk(shellyLine)
  BY DEF IoInit, LineOk, Lines
<1>5. ViewOk(ioView)
  BY <1>1 DEF IoInit, ViewOk, RigTyped
<1>6. ReadbackOk(readback)
  BY DEF IoInit, ReadbackOk
<1> QED BY <1>1, <1>2, <1>3, <1>4, <1>5, <1>6 DEF IoTyped

\* One worker's place in its pass is another; the other worker is left alone.
LEMMA CrewTyped ==
    ASSUME IoTyped, NEW w \in DOMAIN crew, NEW p, WorkerOk(p), crew' = [crew EXCEPT ![w] = p]
    PROVE  DOMAIN crew' = Threads /\ \A v \in Threads : WorkerOk(crew'[v])
BY DEF IoTyped

LEMMA CurrentCrewTyped ==
    ASSUME IoTyped, NEW p, WorkerOk(p), crew' = [crew EXCEPT !.current = p]
    PROVE  DOMAIN crew' = Threads /\ \A v \in Threads : WorkerOk(crew'[v])
BY DEF IoTyped, Threads

LEMMA TakeTyped == ASSUME IoTyped, TakeCommand PROVE IoTyped'
<1> DEFINE relays == IF ioPending THEN LabelsOf(adapter.selected) ELSE {}
           p == [Resting EXCEPT !.at = "write", !.target = ioPending, !.wanted = relays]
<1>1. ioPending \in BOOLEAN
  BY DEF IoTyped, Enabled_, TakeCommand
<1>2. relays \in SUBSET IoSelections
  <2>1. adapter.selected \in 1 .. GroupSize /\ GroupSize \in 1 .. 3
    BY IoNumbers DEF IoTyped, Adapters, RigTyped, IoSelections
  <2> QED BY <2>1 DEF LabelsOf, IoSelections
<1>3. crew' = [crew EXCEPT !.current = p]
  BY DEF TakeCommand
<1> HIDE DEF relays
<1>4. WorkerOk(p)
  <2>1. Resting \in WorkerPasses
    BY RestingTyped DEF IoTyped, WorkerOk
  <2> QED BY <1>1, <1>2, <2>1 DEF WorkerOk, WorkerPasses
<1> HIDE DEF p
<1>5. DOMAIN crew' = Threads /\ \A w \in Threads : WorkerOk(crew'[w])
  BY <1>3, <1>4, CurrentCrewTyped
<1>6. ViewOk(ioView')
  BY ViewTyped DEF IoTyped, TakeCommand
<1>7. /\ rig' = rig /\ ioDevice' = ioDevice /\ adapter' = adapter /\ ioPending' = ioPending
      /\ shellyLine' = shellyLine /\ readback' = readback
  BY DEF TakeCommand
<1> QED BY <1>5, <1>6, <1>7, IoStep DEF IoTyped

LEMMA SkipTyped == ASSUME IoTyped, SkipCommand PROVE IoTyped'
<1>1. DOMAIN crew' = Threads /\ \A w \in Threads : WorkerOk(crew'[w])
  <2>1. CASE crew' = crew
    BY <2>1 DEF IoTyped
  <2>2. CASE crew' = [crew EXCEPT !.current = [Resting EXCEPT !.at = "read"]]
    <3>1. WorkerOk([Resting EXCEPT !.at = "read"])
      BY RestingTyped DEF IoTyped
    <3> QED BY <2>2, <3>1, CurrentCrewTyped
  <2> QED BY <2>1, <2>2 DEF SkipCommand
<1>2. ViewOk(ioView')
  BY ViewTyped DEF IoTyped, SkipCommand
<1>3. /\ rig' = rig /\ ioDevice' = ioDevice /\ adapter' = adapter /\ ioPending' = ioPending
      /\ shellyLine' = shellyLine /\ readback' = readback
  BY DEF SkipCommand
<1> QED BY <1>1, <1>2, <1>3, IoStep DEF IoTyped

LEMMA MemberStepTyped == ASSUME IoTyped, NEW w \in DOMAIN crew, WriteMember(w) PROVE IoTyped'
<1> DEFINE p == [crew[w] EXCEPT !.member = crew[w].member + 1]
<1>1. w \in Threads /\ WorkerOk(crew[w]) /\ rig.size \in 1 .. 3
  BY DEF IoTyped, RigTyped
<1>2. crew[w].member \in 1 .. rig.size /\ crew[w].at = "write" /\ crew[w].member < rig.size
  BY <1>1 DEF WorkerOk, WorkerPasses, WriteMember
<1>3. WorkerOk(p)
  <2>1. crew[w].member + 1 \in 1 .. rig.size
    BY <1>1, <1>2
  <2>2. p \in WorkerPasses /\ p.at = "write"
    BY <1>1, <1>2, <2>1 DEF WorkerOk, WorkerPasses
  <2> QED BY <2>2 DEF WorkerOk
<1>4. crew' = [crew EXCEPT ![w] = p]
  BY DEF WriteMember
<1> HIDE DEF p
<1>5. DOMAIN crew' = Threads /\ \A v \in Threads : WorkerOk(crew'[v])
  BY <1>3, <1>4, CrewTyped
<1>6. ioDevice' \in Devices
  BY <1>2, MemberTyped DEF IoTyped, WriteMember
<1>7. /\ rig' = rig /\ adapter' = adapter /\ ioPending' = ioPending
      /\ shellyLine' = shellyLine /\ readback' = readback /\ ioView' = ioView
  BY DEF WriteMember
<1> QED BY <1>5, <1>6, <1>7, IoStep DEF IoTyped

LEMMA WriteFacts ==
    ASSUME IoTyped, NEW w \in DOMAIN crew
    PROVE  crew[w].target \in BOOLEAN /\ crew[w].member \in 1 .. rig.size /\ WorkerOk(crew[w])
BY DEF IoTyped, WorkerOk, WorkerPasses

LEMMA FinishTyped == ASSUME IoTyped, NEW w \in DOMAIN crew, FinishCommand(w) PROVE IoTyped'
<1> DEFINE on == crew[w].target
           p == IF shellyLine'.retry > 0 THEN Resting ELSE [Resting EXCEPT !.at = "read"]
<1>1. on \in BOOLEAN /\ crew[w].member \in 1 .. rig.size
  BY WriteFacts
<1>2. WorkerOk(p)
  BY RestingTyped DEF IoTyped
<1>3. crew' = [crew EXCEPT ![w] = p]
  BY DEF FinishCommand
<1>4. ioView' = [Unconfirmed EXCEPT !.relay = on, !.age = 0]
  BY DEF FinishCommand
<1>5. ioPending' = IF ioPending = on THEN Nothing ELSE ioPending
  BY DEF FinishCommand, IoClearPending
<1>6. rig' = rig /\ readback' = readback
  BY DEF FinishCommand
<1>7. \/ UsesCharger /\ ioDevice' = DeviceEnabled(on) /\ adapter' = AdapterEnabled(on) /\ shellyLine' = shellyLine
      \/ /\ ~UsesCharger /\ ioDevice' = MemberWritten(crew[w].member, crew[w].wanted)
         /\ shellyLine' = RememberSuccess /\ adapter' = adapter
  BY DEF FinishCommand
<1> HIDE DEF on, p
<1>8. DOMAIN crew' = Threads /\ \A v \in Threads : WorkerOk(crew'[v])
  BY <1>2, <1>3, CrewTyped
<1>9. ViewOk(ioView')
  BY <1>1, <1>4, ViewTyped DEF IoTyped
<1>10. ioPending' \in Enabled_
  BY <1>5 DEF IoTyped, Enabled_
<1>11. ioDevice' \in Devices /\ adapter' \in Adapters /\ LineOk(shellyLine')
  BY <1>1, <1>7, EnabledTyped, MemberTyped, LinesTyped DEF IoTyped
<1> QED BY <1>6, <1>8, <1>9, <1>10, <1>11, IoStep DEF IoTyped

LEMMA FailTyped ==
    ASSUME IoTyped, NEW w \in DOMAIN crew, NEW reason, NEW reached \in BOOLEAN, CommandFails(w, reason, reached)
    PROVE  IoTyped'
<1> DEFINE on == crew[w].target
<1>1. on \in BOOLEAN /\ crew[w].member \in 1 .. rig.size
  BY WriteFacts
<1>2. ioDevice' \in {ioDevice, DeviceEnabled(on), MemberWritten(crew[w].member, crew[w].wanted)}
  BY DEF CommandFails
<1>3. PICK p \in {Resting, [Resting EXCEPT !.at = "read"]} : crew' = [crew EXCEPT ![w] = p]
  BY DEF CommandFails
<1>4. ioView' \in {Unconfirmed, ioView} /\ shellyLine' \in {shellyLine, RememberFailure(reason)}
  BY DEF CommandFails
<1>5. rig' = rig /\ readback' = readback /\ adapter' = adapter /\ ioPending' = ioPending
  BY DEF CommandFails
<1> HIDE DEF on
<1>6. WorkerOk(p)
  BY RestingTyped DEF IoTyped
<1>7. DOMAIN crew' = Threads /\ \A v \in Threads : WorkerOk(crew'[v])
  BY <1>3, <1>6, CrewTyped
<1>8. ioDevice' \in Devices
  BY <1>1, <1>2, EnabledTyped, MemberTyped DEF IoTyped
<1>9. ViewOk(ioView') /\ LineOk(shellyLine')
  BY <1>4, ViewTyped, LinesTyped DEF IoTyped
<1> QED BY <1>5, <1>7, <1>8, <1>9, IoStep DEF IoTyped

LEMMA SampleTyped == ASSUME IoTyped, NEW w \in DOMAIN crew, Sample(w) PROVE IoTyped'
<1>1. WorkerOk([Resting EXCEPT !.at = "store", !.got = ioDevice])
  BY RestingTyped DEF IoTyped
<1>2. DOMAIN crew' = Threads /\ \A v \in Threads : WorkerOk(crew'[v])
  BY <1>1, CrewTyped DEF Sample
<1>3. /\ rig' = rig /\ ioDevice' = ioDevice /\ adapter' = adapter /\ ioPending' = ioPending
      /\ shellyLine' = shellyLine /\ readback' = readback /\ ioView' = ioView
  BY DEF Sample
<1> QED BY <1>2, <1>3, IoStep DEF IoTyped

LEMMA GroupStoreTyped == ASSUME IoTyped, NEW w \in DOMAIN crew, StoreGroup(w) PROVE IoTyped'
<1> DEFINE closed == crew[w].got.closed
<1>1. SelectionClosed(closed) \in rig.supported
  BY SelectionTyped DEF IoTyped
<1>2. ioView' = [confirmed |-> TRUE, relay |-> closed # {}, phase |-> SelectionClosed(closed), age |-> 0]
  BY DEF StoreGroup
<1>3. /\ rig' = rig /\ ioDevice' = ioDevice /\ adapter' = adapter /\ ioPending' = ioPending
      /\ shellyLine' = RememberSuccess /\ readback' = readback /\ crew' = [crew EXCEPT ![w] = Resting]
  BY DEF StoreGroup
<1> HIDE DEF closed
<1>4. ViewOk(ioView')
  BY <1>1, <1>2, ViewTyped DEF IoTyped
<1>5. DOMAIN crew' = Threads /\ \A v \in Threads : WorkerOk(crew'[v])
  BY <1>3, RestingTyped, CrewTyped DEF IoTyped
<1> QED BY <1>3, <1>4, <1>5, LinesTyped, IoStep DEF IoTyped

LEMMA ChargerStoreTyped ==
    ASSUME IoTyped, NEW w \in DOMAIN crew, NEW garbled \in BOOLEAN, StoreCharger(w, garbled)
    PROVE  IoTyped'
<1> DEFINE st == ChargerState(crew[w].got, garbled)
           relay == IF st.enabled = Nothing THEN ioView.relay ELSE st.enabled
<1>1. crew[w].got \in Devices
  BY WriteFacts DEF StoreCharger, WorkerOk
<1>2. StateRead(st)
  BY <1>1, StateTyped DEF IoTyped
<1>3. /\ rig' = rig /\ ioDevice' = ioDevice /\ adapter' = AdapterRead(st) /\ ioPending' = ioPending
      /\ shellyLine' = RememberSuccess /\ readback' = [state |-> st, age |-> 0]
      /\ crew' = [crew EXCEPT ![w] = Resting]
      /\ ioView' = [confirmed |-> TRUE, age |-> 0, phase |-> st.phase, relay |-> relay]
  BY DEF StoreCharger
<1> HIDE DEF st
<1>4. relay \in BOOLEAN /\ st.phase \in rig.supported
  BY <1>2 DEF StateRead, Enabled_, IoTyped, ViewOk
<1> HIDE DEF relay
<1>5. ViewOk(ioView')
  BY <1>3, <1>4, ViewTyped DEF IoTyped
<1>6. adapter' \in Adapters /\ ReadbackOk(readback')
  BY <1>2, <1>3, AdapterReadTyped DEF IoTyped, ReadbackOk
<1>7. DOMAIN crew' = Threads /\ \A v \in Threads : WorkerOk(crew'[v])
  BY <1>3, RestingTyped, CrewTyped DEF IoTyped
<1> QED BY <1>3, <1>5, <1>6, <1>7, LinesTyped, IoStep DEF IoTyped

LEMMA CachedTyped ==
    ASSUME IoTyped, NEW w \in DOMAIN crew, NEW transport \in BOOLEAN, ServeCached(w, transport)
    PROVE  IoTyped'
<1> DEFINE st == readback.state
           relay == IF st.enabled = Nothing THEN ioView.relay ELSE st.enabled
<1>1. /\ rig' = rig /\ ioDevice' = ioDevice /\ adapter' = adapter /\ ioPending' = ioPending
      /\ readback' = readback /\ crew' = [crew EXCEPT ![w] = Resting]
  BY DEF ServeCached
<1>2. \/ /\ st # Nothing /\ shellyLine' = RememberSuccess
         /\ ioView' = [confirmed |-> TRUE, age |-> 0, phase |-> st.phase, relay |-> relay]
      \/ shellyLine' = RememberFailure("error") /\ ioView' = Unconfirmed
  BY DEF ServeCached
<1>3. st # Nothing => StateRead(st)
  BY DEF IoTyped, ReadbackOk
<1> HIDE DEF st
<1>4. ASSUME st # Nothing PROVE relay \in BOOLEAN /\ st.phase \in rig.supported
  BY <1>3, <1>4 DEF StateRead, Enabled_, IoTyped, ViewOk
<1> HIDE DEF relay
<1>5. ViewOk(ioView') /\ LineOk(shellyLine')
  BY <1>2, <1>4, ViewTyped, LinesTyped DEF IoTyped
<1>6. DOMAIN crew' = Threads /\ \A v \in Threads : WorkerOk(crew'[v])
  BY <1>1, RestingTyped, CrewTyped DEF IoTyped
<1> QED BY <1>1, <1>5, <1>6, IoStep DEF IoTyped

LEMMA ReadFailTyped == ASSUME IoTyped, NEW w \in DOMAIN crew, NEW reason, ReadFails(w, reason) PROVE IoTyped'
<1>1. /\ rig' = rig /\ ioDevice' = ioDevice /\ adapter' = adapter /\ ioPending' = ioPending
      /\ readback' = readback /\ crew' = [crew EXCEPT ![w] = Resting]
      /\ shellyLine' = RememberFailure(reason) /\ ioView' = Unconfirmed
  BY DEF ReadFails
<1>2. DOMAIN crew' = Threads /\ \A v \in Threads : WorkerOk(crew'[v])
  BY <1>1, RestingTyped, CrewTyped DEF IoTyped
<1>3. ViewOk(ioView') /\ LineOk(shellyLine')
  BY <1>1, ViewTyped, LinesTyped DEF IoTyped
<1> QED BY <1>1, <1>2, <1>3, IoStep DEF IoTyped

LEMMA ReplaceTyped == ASSUME IoTyped, ReplaceWorker PROVE IoTyped'
<1>1. /\ rig' = rig /\ ioDevice' = ioDevice /\ adapter' = adapter /\ ioPending' = ioPending
      /\ readback' = readback /\ shellyLine' = shellyLine /\ ioView' = ioView
  BY DEF ReplaceWorker
<1>2. WorkerOk(Resting) /\ WorkerOk(crew.current)
  BY RestingTyped DEF IoTyped, Threads
<1>3. DOMAIN crew' = Threads /\ \A v \in Threads : WorkerOk(crew'[v])
  BY <1>2 DEF ReplaceWorker, Threads
<1> QED BY <1>1, <1>3, IoStep DEF IoTyped

\* The main thread queues a command, sets the charger and selects phases.
LEMMA MainTyped ==
    ASSUME IoTyped,
           \/ \E on \in BOOLEAN : QueueRelayCommand(on) \/ SetEnabledNow(on)
                 \/ \E transport, reached \in BOOLEAN : SetEnabledFails(on, transport, reached)
           \/ \E half \in HalfAmps : SetCurrentNow(half)
                 \/ \E transport, reached \in BOOLEAN : SetCurrentFails(half, transport, reached)
    PROVE  IoTyped'
<1>1. rig' = rig /\ crew' = crew /\ shellyLine' = shellyLine /\ readback' = readback /\ ioView' = ioView
  BY DEF QueueRelayCommand, SetEnabledNow, SetEnabledFails, SetCurrentNow, SetCurrentFails
<1>2. ioPending' \in Enabled_
  BY DEF QueueRelayCommand, SetEnabledNow, SetEnabledFails, SetCurrentNow, SetCurrentFails, Enabled_, IoTyped
<1>3. ioDevice' \in {ioDevice} \cup {DeviceEnabled(on) : on \in BOOLEAN} \cup {DeviceCurrent(half) : half \in HalfAmps}
  BY DEF QueueRelayCommand, SetEnabledNow, SetEnabledFails, SetCurrentNow, SetCurrentFails
<1>4. adapter' \in {adapter} \cup {AdapterEnabled(on) : on \in BOOLEAN} \cup {AdapterCurrent(half) : half \in HalfAmps}
  BY DEF QueueRelayCommand, SetEnabledNow, SetEnabledFails, SetCurrentNow, SetCurrentFails
<1>5. ioDevice' \in Devices /\ adapter' \in Adapters
  BY <1>3, <1>4, EnabledTyped, CurrentTyped DEF IoTyped
<1> QED BY <1>1, <1>2, <1>5, IoStep DEF IoTyped

LEMMA SelectTyped == ASSUME IoTyped, NEW selection, SelectPhases(selection) PROVE IoTyped'
<1>1. /\ rig' = rig /\ crew' = crew /\ shellyLine' = shellyLine /\ readback' = readback
      /\ ioView' = ioView /\ ioPending' = ioPending
  BY DEF SelectPhases
<1>2. selection \in rig.supported
  BY DEF SelectPhases
<1>3. adapter' \in {adapter, [adapter EXCEPT !.selected = selection]}
      /\ ioDevice' \in {ioDevice, [ioDevice EXCEPT !.phase = selection]}
  BY DEF SelectPhases
<1>4. adapter' \in Adapters /\ ioDevice' \in Devices
  BY <1>2, <1>3 DEF IoTyped, Adapters, Devices
<1> QED BY <1>1, <1>4, IoStep DEF IoTyped

LEMMA IoTickTyped == ASSUME IoTyped, IoTick PROVE IoTyped'
<1>1. /\ rig' = rig /\ crew' = crew /\ ioDevice' = ioDevice /\ adapter' = adapter /\ ioPending' = ioPending
  BY DEF IoTick
<1>2. PICK n : shellyLine' = [shellyLine EXCEPT !.retry = n]
  BY DEF IoTick
<1>3. PICK since : readback' = [readback EXCEPT !.age = since]
  BY DEF IoTick
<1>4. PICK age : ioView' = [ioView EXCEPT !.age = age]
  BY DEF IoTick
<1>5. LineOk(shellyLine')
  BY <1>2 DEF LineOk, IoTyped
<1>6. ViewOk(ioView')
  BY <1>4, ViewTyped DEF IoTyped
<1>7. ReadbackOk(readback')
  BY <1>3 DEF IoTyped, ReadbackOk
<1> QED BY <1>1, <1>5, <1>6, <1>7, IoStep DEF IoTyped

LEMMA IoKept == ASSUME IoTyped, [IoNext]_ioVars PROVE IoTyped'
<1>1. CASE IoNext
  <2>1. CASE TakeCommand \/ SkipCommand \/ ReplaceWorker \/ IoTick
    BY <2>1, TakeTyped, SkipTyped, ReplaceTyped, IoTickTyped
  <2>2. CASE \E w \in DOMAIN crew : WorkerStep(w)
    BY <2>2, MemberStepTyped, FinishTyped, SampleTyped, GroupStoreTyped, ReadFailTyped, FailTyped,
       ChargerStoreTyped, CachedTyped DEF WorkerStep
  <2>3. CASE \/ \E on \in BOOLEAN : QueueRelayCommand(on) \/ SetEnabledNow(on)
                   \/ \E transport, reached \in BOOLEAN : SetEnabledFails(on, transport, reached)
             \/ \E half \in HalfAmps : SetCurrentNow(half)
                   \/ \E transport, reached \in BOOLEAN : SetCurrentFails(half, transport, reached)
    BY <2>3, MainTyped
  <2>4. CASE \E selection \in IoSelections : SelectPhases(selection)
    BY <2>4, SelectTyped
  <2> QED BY <1>1, <2>1, <2>2, <2>3, <2>4 DEF IoNext
<1>2. CASE UNCHANGED ioVars
  <2>1. /\ rig' = rig /\ crew' = crew /\ ioDevice' = ioDevice /\ adapter' = adapter /\ ioPending' = ioPending
        /\ shellyLine' = shellyLine /\ readback' = readback /\ ioView' = ioView
    BY <1>2 DEF ioVars
  <2> QED BY <2>1, IoStep DEF IoTyped
<1> QED BY <1>1, <1>2

LEMMA IoTypes == IoTyped => IoTypeOK
<1> SUFFICES ASSUME IoTyped PROVE IoTypeOK
  OBVIOUS
<1>1. rig \in Rigs
  BY DEF IoTyped
<1>2. ioDevice.closed \subseteq 1..rig.size /\ ioDevice.on \in BOOLEAN /\ ioDevice.amps \in Nat
  BY DEF IoTyped, Devices
<1>3. /\ adapter.enabled \in BOOLEAN \cup {Nothing} /\ adapter.amps \in Nat \cup {Nothing}
      /\ adapter.selected \in rig.supported /\ adapter.resume \in Nat
  BY DEF IoTyped, Adapters, Enabled_
<1>4. ioPending \in BOOLEAN \cup {Nothing}
  BY DEF IoTyped, Enabled_
<1>5. \A w \in DOMAIN crew : crew[w].at \in {"idle", "write", "read", "store"}
  BY DEF IoTyped, WorkerOk, WorkerPasses
<1>6. shellyLine.state \in {"unknown", "online", "degraded", "offline"}
  BY DEF IoTyped, LineOk, Lines
<1>7. ioView.confirmed \in BOOLEAN /\ ioView.relay \in BOOLEAN /\ ioView.phase \in rig.supported
  BY DEF IoTyped, ViewOk
<1> QED BY <1>1, <1>2, <1>3, <1>4, <1>5, <1>6, <1>7 DEF IoTypeOK

\* For every backend, number of relays, failing request and replaced worker: the
\* device, the adapter's memory, the workers' passes, the line and the readings stay
\* in their ranges (backend/, shelly_io_worker.py).
THEOREM IoIsTyped == IoSpec => []IoTypeOK
<1>1. [](IoTyped) => []IoTypeOK
  BY IoTypes, PTL
<1> QED BY <1>1, IoStarts, IoKept, PTL DEF IoSpec

(***************************************************************************)
(* The programs side by side. One of them moves at a time and the others   *)
(* stand still, so each keeps its own invariant, whichever one moves.      *)
(***************************************************************************)
AdaptersKept == NaTyped /\ NrTyped /\ HelperInv /\ SourcesInv /\ IoTyped

\* Every program starts in its first state, also where it is not the one that moves.
LEMMA BundleStarts == BundleInit => part \in Parts /\ AdaptersKept
<1> SUFFICES ASSUME BundleInit PROVE part \in Parts /\ AdaptersKept
  OBVIOUS
<1>1. part \in Parts /\ NaInit /\ NrInit /\ HpInit /\ NsInit /\ IoInit
  BY DEF BundleInit
<1> QED BY <1>1, AdapterStartsTyped, ReaderStartsTyped, HelperStarts, SourcesStart, IoStarts DEF AdaptersKept

\* A step of the bundle is a step of one program and a stutter of the others.
LEMMA OneMoves ==
    ASSUME [BundleNext]_bundleVars
    PROVE  /\ part' = part
           /\ [NaNext]_naVars /\ [NrNext]_nrVars /\ [HpNext]_hpVars /\ [NsNext]_nsVars /\ [IoNext]_ioVars
<1>1. CASE part = "adapter" /\ NaNext /\ Others("adapter")
  BY <1>1 DEF Others
<1>2. CASE part = "reader" /\ NrNext /\ Others("reader")
  BY <1>2 DEF Others
<1>3. CASE part = "helper" /\ HpNext /\ Others("helper")
  BY <1>3 DEF Others
<1>4. CASE part = "sources" /\ NsNext /\ Others("sources")
  BY <1>4 DEF Others
<1>5. CASE part = "io" /\ IoNext /\ Others("io")
  BY <1>5 DEF Others
<1>6. CASE UNCHANGED bundleVars
  BY <1>6 DEF bundleVars
<1> QED BY <1>1, <1>2, <1>3, <1>4, <1>5, <1>6 DEF BundleNext

\* So no program loses its invariant.
LEMMA BundleKeeps ==
    ASSUME part \in Parts, AdaptersKept, [BundleNext]_bundleVars
    PROVE  part' \in Parts /\ AdaptersKept'
<1>1. /\ part' = part
      /\ [NaNext]_naVars /\ [NrNext]_nrVars /\ [HpNext]_hpVars /\ [NsNext]_nsVars /\ [IoNext]_ioVars
  BY OneMoves
<1>2. NaTyped'
  BY <1>1, AdapterTyped DEF AdaptersKept
<1>3. NrTyped'
  BY <1>1, ReaderKeepsTypes DEF AdaptersKept
<1>4. HelperInv'
  BY <1>1, HelperKeeps DEF AdaptersKept
<1>5. SourcesInv'
  BY <1>1, SourcesKept DEF AdaptersKept
<1>6. IoTyped'
  BY <1>1, IoKept DEF AdaptersKept
<1> QED BY <1>1, <1>2, <1>3, <1>4, <1>5, <1>6 DEF AdaptersKept

\* The invariants say at least what the run checks of the program that moves.
LEMMA KeptIsChecked == part \in Parts /\ AdaptersKept => AdaptersInv
<1> SUFFICES ASSUME part \in Parts, AdaptersKept PROVE AdaptersInv
  OBVIOUS
<1>1. NaTypeOK /\ NrTypeOK /\ HpTypeOK /\ AliveIsRecent /\ NsTypeOK /\ OnePass /\ SocDated /\ IoTypeOK
  BY AdapterTypes, ReaderTypes, HelperTyped, SourcesTyped, ReadsAreOnePass, SocsAreDated, IoTypes
     DEF AdaptersKept
<1> QED BY <1>1 DEF AdaptersInv, Parts

(* The invariant of the programs around the service, for every value of the  *)
(* constants: the tables of the native adapter, of its reader, of the helper *)
(* and of the charger's worker stay in shape; a snapshot the helper calls    *)
(* alive (snapshot.rs, runtime.rs) carries no value older than its sources   *)
(* allow; what an energy source reports was read in one pass, and a combined *)
(* state of charge is dated by its oldest part, up to equally good observers *)
(* of one battery (external.rs).                                             *)
THEOREM AdaptersKeep == BundleInit /\ [][BundleNext]_bundleVars => []AdaptersInv
<1> DEFINE Kept == part \in Parts /\ AdaptersKept
<1>1. BundleInit => Kept
  BY BundleStarts
<1>2. Kept /\ [BundleNext]_bundleVars => Kept'
  BY BundleKeeps
<1>3. Kept => AdaptersInv
  BY KeptIsChecked
<1> QED BY <1>1, <1>2, <1>3, PTL
=============================================================================
