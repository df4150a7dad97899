--------------------------- MODULE Gateway_proofs ---------------------------
(***************************************************************************)
(* Theorems about the gateway, for every value of its components'          *)
(* constants: what a GX relay lane does with the commands it takes, what   *)
(* the gateway says about its own health, what the updater leaves on the   *)
(* device, when the native circuit breaker trips, what a generation of the *)
(* PV topology tells, what the capacity estimate writes, which bundle an   *)
(* observer starts, and what is said of a running update.                  *)
(***************************************************************************)
EXTENDS GxRelayLane, GatewayHealth, BootUpdater, NativeHealth, PvSources, CapacityEstimate,
        ForensicObserver, SoftwareUpdate, TLAPS, SequenceTheorems

(***************************************************************************)
(* One GX relay: what the lane owes the commands it took, for any number   *)
(* of requests, outstanding calls and crashes of the gateway.              *)
(***************************************************************************)
(* What is left on the wire when one call has been served. *)
LEMMA RemoveAtFacts ==
    ASSUME NEW S, NEW s \in Seq(S), NEW i \in 1 .. Len(s)
    PROVE  /\ RemoveAt(s, i) \in Seq(S)
           /\ Len(RemoveAt(s, i)) = Len(s) - 1
           /\ \A j \in 1 .. Len(s) - 1 :
                 RemoveAt(s, i)[j] = IF j < i THEN s[j] ELSE s[j + 1]
<1>. DEFINE a == SubSeq(s, 1, i - 1)
            b == SubSeq(s, i + 1, Len(s))
<1>1. a \in Seq(S) /\ Len(a) = i - 1 /\ \A j \in 1 .. i - 1 : a[j] = s[j]
  BY SubSeqProperties
<1>2. b \in Seq(S) /\ Len(b) = Len(s) - i /\ \A j \in 1 .. Len(s) - i : b[j] = s[i + j]
  BY SubSeqProperties
<1>3. RemoveAt(s, i) = a \o b
  BY DEF RemoveAt
<1>. HIDE DEF a, b
<1>4. a \o b \in Seq(S) /\ Len(a \o b) = Len(s) - 1
  <2>1. a \o b \in Seq(S) /\ Len(a \o b) = Len(a) + Len(b)
    BY <1>1, <1>2, ConcatProperties
  <2>. QED
    BY <2>1, <1>1, <1>2
<1>5. ASSUME NEW j \in 1 .. Len(s) - 1
      PROVE  (a \o b)[j] = IF j < i THEN s[j] ELSE s[j + 1]
  <2>0. j \in 1 .. Len(a) + Len(b)
    BY <1>1, <1>2
  <2>1. (a \o b)[j] = IF j <= Len(a) THEN a[j] ELSE b[j - Len(a)]
    BY <1>1, <1>2, <2>0, ConcatProperties
  <2>2. CASE j < i
    BY <2>1, <2>2, <1>1
  <2>3. CASE j >= i
    <3>1. (a \o b)[j] = b[j - (i - 1)]
      BY <2>1, <2>3, <1>1
    <3>2. j - (i - 1) \in 1 .. Len(s) - i
      BY <2>3
    <3>3. b[j - (i - 1)] = s[i + (j - (i - 1))]
      BY <1>2, <3>2
    <3>4. i + (j - (i - 1)) = j + 1
      OBVIOUS
    <3>. QED
      BY <3>1, <3>3, <3>4, <2>3
  <2>4. j < i \/ j >= i
    OBVIOUS
  <2>. QED
    BY <2>2, <2>3, <2>4
<1>. QED
  BY <1>3, <1>4, <1>5

(* What the types say, in the form the steps use. *)
LEMMA Types ==
    ASSUME TypeOK
    PROVE  /\ tick = <<>> \/ (Len(tick) = 1 /\ DOMAIN tick = {1} /\ tick[1] \in Command)
           /\ wire \in Seq(Call) /\ DOMAIN wire = 1 .. Len(wire) /\ Len(wire) \in Nat
           /\ \A i \in DOMAIN wire : wire[i] \in Call
           /\ \A c \in Held : c \in Command
           /\ issued \in Nat /\ MaxRequests \in Nat
           /\ confirmed.rev \in 0 .. MaxRequests /\ written.rev \in 0 .. MaxRequests
           /\ file # NoCommand => file \in Command
           /\ flight # NoFlight => flight \in Flight
<1>1. tick = <<>> \/ (Len(tick) = 1 /\ DOMAIN tick = {1} /\ tick[1] \in Command)
  <2>1. ASSUME NEW c \in Command, tick = <<c>>
        PROVE  Len(tick) = 1 /\ DOMAIN tick = {1} /\ tick[1] \in Command
    BY <2>1
  <2>. QED
    BY <2>1 DEF TypeOK
<1>2. wire \in Seq(Call) /\ DOMAIN wire = 1 .. Len(wire) /\ Len(wire) \in Nat
      /\ \A i \in DOMAIN wire : wire[i] \in Call
  BY DEF TypeOK
<1>3. \A c \in Held : c \in Command
  <2>1. flight # NoFlight => flight.cmd \in Command
    BY DEF TypeOK, Flight
  <2>2. \A i \in DOMAIN tick : tick[i] \in Command
    BY <1>1
  <2>. QED
    BY <2>1, <2>2 DEF Held, TypeOK
<1>4. issued \in Nat /\ MaxRequests \in Nat
      /\ confirmed.rev \in 0 .. MaxRequests /\ written.rev \in 0 .. MaxRequests
  BY RelayAssumption DEF TypeOK, Mark, NoMark
<1>. QED
  BY <1>1, <1>2, <1>3, <1>4 DEF TypeOK

(* The commands around, case by case. *)
LEMMA HeldCases ==
    /\ \A c : c \in Held <=> \/ c = file /\ file # NoCommand
                             \/ \E i \in DOMAIN tick : c = tick[i]
                             \/ flight # NoFlight /\ c = flight.cmd
    /\ \A c : c \in Held' <=> \/ c = file' /\ file' # NoCommand
                              \/ \E i \in DOMAIN tick' : c = tick'[i]
                              \/ flight' # NoFlight /\ c = flight'.cmd
  BY DEF Held

(***************************************************************************)
(* A completion retires the command it belongs to, or moves it on, or      *)
(* leaves the file alone; a command that gets past its write was written.  *)
(***************************************************************************)
Progressed(c) ==
    \/ file' = file
    \/ /\ file # NoCommand /\ file.rev = c.rev
       /\ \/ file' = NoCommand /\ c.val.phase = "verify"
          \/ /\ file' \in Command /\ file'.rev = c.rev /\ file'.at = file.at
             /\ file'.val.on = c.val.on
             /\ file'.val.phase = "retry" => file'.val.retries = 0
             /\ file'.val.phase \in {"verify", "retry"}
                   => c.val.phase \in {"verify", "output", "retry"}

LEMMA RewriteProgresses ==
    ASSUME TypeOK, NEW c \in Command, NEW p \in Progress, Rewrite(c, p),
           p.on = c.val.on, p.phase = "retry" => p.retries = 0,
           p.phase \in {"verify", "retry"} => c.val.phase \in {"verify", "output", "retry"}
    PROVE  /\ Progressed(c)
           /\ file' = file \/ (file' \in Command /\ file'.val = p)
<1>1. CASE IsCurrent(file, c)
  <2>1. file \in Command /\ file # NoCommand /\ file.rev = c.rev
    BY <1>1 DEF IsCurrent, TypeOK
  <2>2. file' = [rev |-> file.rev, val |-> p, rank |-> c.rank, at |-> file.at]
    BY <1>1, <2>1 DEF Rewrite, AfterReplaceIfCurrent, Command
  <2>3. file' \in Command
    BY <2>1, <2>2, RelayAssumption DEF Command
  <2>. QED
    BY <2>1, <2>2, <2>3 DEF Progressed
<1>2. CASE ~IsCurrent(file, c)
  BY <1>2 DEF Rewrite, AfterReplaceIfCurrent, Progressed
<1>. QED
  BY <1>1, <1>2

LEMMA RetireProgresses ==
    ASSUME TypeOK, NEW c \in Command, RetireCommand(c), c.val.phase = "verify"
    PROVE  Progressed(c) /\ file' \in {file, NoCommand}
  BY DEF RetireCommand, AfterRemoveIfCurrent, IsCurrent, Progressed

LEMMA SuccessProgresses ==
    ASSUME TypeOK, NEW c \in Command, NEW answer, OnSuccess(c, answer),
           c.val.phase = "retry" => c.val.retries = 0
    PROVE  Progressed(c)
<1>0. c.val \in Progress
  BY RelayAssumption DEF Command
<1>1. CASE c.val.phase = "verify"
  <2>1. VerifyOutcome(c, answer)
    BY <1>1 DEF OnSuccess
  <2>2. CASE answer = TargetState(c.val) \/ c.val.retries # 0
    BY <2>1, <2>2, <1>1, RetireProgresses DEF VerifyOutcome
  <2>3. CASE ~(answer = TargetState(c.val) \/ c.val.retries # 0)
    <3>. DEFINE p == [c.val EXCEPT !.phase = "retry", !.ready = FALSE]
    <3>1. p \in Progress /\ p.on = c.val.on /\ p.phase = "retry" /\ p.retries = 0
      BY <1>0, <2>3 DEF Progress, Phases
    <3>2. Rewrite(c, p)
      BY <2>1, <2>3 DEF VerifyOutcome
    <3>. QED
      BY <3>1, <3>2, <1>1, RewriteProgresses
  <2>. QED
    BY <2>2, <2>3
<1>2. CASE c.val.phase # "verify"
  <2>1. PICK p \in Progress : /\ Rewrite(c, p) /\ p.on = c.val.on /\ p.phase # "retry"
                              /\ p.phase = "verify" => c.val.phase \in {"output", "retry"}
    <3>. DEFINE p1 == [c.val EXCEPT !.phase = IF answer = "manual" THEN "output"
                                              ELSE "manual_write"]
                p2 == [c.val EXCEPT !.phase = "output"]
                p3 == [c.val EXCEPT !.phase = "verify", !.ready = FALSE]
                p4 == [c.val EXCEPT !.phase = "verify", !.ready = FALSE,
                                    !.retries = @ + 1]
    <3>1. CASE c.val.phase = "manual_read"
      <4>1. Rewrite(c, p1)
        BY <3>1 DEF OnSuccess
      <4>2. p1 \in Progress /\ p1.on = c.val.on /\ p1.phase \in {"output", "manual_write"}
        BY <1>0 DEF Progress, Phases
      <4>. QED
        BY <4>1, <4>2
    <3>2. CASE c.val.phase = "manual_write"
      <4>1. Rewrite(c, p2)
        BY <3>2 DEF OnSuccess
      <4>2. p2 \in Progress /\ p2.on = c.val.on /\ p2.phase = "output"
        BY <1>0 DEF Progress, Phases
      <4>. QED
        BY <4>1, <4>2
    <3>3. CASE c.val.phase = "output"
      <4>1. Rewrite(c, p3)
        BY <3>3 DEF OnSuccess
      <4>2. p3 \in Progress /\ p3.on = c.val.on /\ p3.phase = "verify"
        BY <1>0 DEF Progress, Phases
      <4>. QED
        BY <4>1, <4>2, <3>3
    <3>4. CASE c.val.phase = "retry"
      <4>1. Rewrite(c, p4)
        BY <3>4 DEF OnSuccess
      <4>2. c.val.retries + 1 = 1
        BY <3>4
      <4>3. \A v \in Progress, n \in 0 .. 1 :
               LET q == [v EXCEPT !.phase = "verify", !.ready = FALSE, !.retries = n]
               IN  q \in Progress /\ q.on = v.on /\ q.phase = "verify"
        BY DEF Progress, Phases
      <4>4. p4 \in Progress /\ p4.on = c.val.on /\ p4.phase = "verify"
        <5>1. PICK n \in 0 .. 1 : n = c.val.retries + 1
          BY <4>2
        <5>2. p4 = [c.val EXCEPT !.phase = "verify", !.ready = FALSE, !.retries = n]
          BY <5>1, Zenon
        <5>. HIDE DEF p4
        <5>. QED
          BY <1>0, <4>3, <5>2
      <4>. QED
        BY <4>1, <4>4, <3>4
    <3>. QED
      BY <1>0, <1>2, <3>1, <3>2, <3>3, <3>4 DEF Progress, Phases
  <2>. QED
    BY <2>1, RewriteProgresses
<1>. QED
  BY <1>1, <1>2

LEMMA ErrorProgresses ==
    ASSUME TypeOK, NEW c \in Command, OnError(c)
    PROVE  /\ Progressed(c)
           /\ file' \in {file, NoCommand} \/ file'.val.phase \notin {"verify", "retry"}
<1>0. c.val \in Progress
  BY RelayAssumption DEF Command
<1>1. CASE c.val.phase \in {"manual_read", "manual_write"} /\ ManualFallback(c)
  <2>. DEFINE p == IF c.val.target + 1 \in Targets
                   THEN [c.val EXCEPT !.phase = "manual_read", !.target = @ + 1]
                   ELSE [c.val EXCEPT !.ready = FALSE]
  <2>1. p \in Progress /\ p.on = c.val.on /\ p.phase \in {"manual_read", "manual_write"}
    BY <1>0, <1>1 DEF Progress, Phases
  <2>2. Rewrite(c, p)
    BY <1>1 DEF ManualFallback
  <2>3. Progressed(c) /\ (file' = file \/ (file' \in Command /\ file'.val = p))
    BY <2>1, <2>2, RewriteProgresses
  <2>. QED
    BY <2>1, <2>3
<1>2. CASE UNCHANGED file
  BY <1>2 DEF Progressed
<1>3. CASE c.val.phase = "verify" /\ RetireCommand(c)
  BY <1>3, RetireProgresses
<1>. QED
  BY <1>1, <1>2, <1>3 DEF OnError

-----------------------------------------------------------------------------
(* Each command afterwards goes back to one before that is of the same     *)
(* generation and equally far: what every step does that sends nothing,    *)
(* receives nothing and accepts nothing.                                   *)
SameOrder(d, c) == /\ d.rev = c.rev /\ d.val.on = c.val.on
               /\ d.val.phase = c.val.phase /\ d.val.retries = c.val.retries

LEMMA QuietKeeps ==
    ASSUME RelayInv, TypeOK',
           UNCHANGED <<wire, relay, manual, issued, written, confirmed>>,
           replies' \subseteq replies,
           \A d \in Held' : \E c \in Held : SameOrder(d, c),
           file' # NoCommand => /\ file # NoCommand /\ file'.rev = file.rev
                                /\ file'.val.on = file.val.on,
           \A i \in DOMAIN tick' : file' # NoCommand /\ tick'[i].rev = file'.rev
                                       => tick'[i].at = file'.at,
           flight' # NoFlight => flight' = flight /\ tick' = <<>>
    PROVE  RelayInv'
<1>. USE DEF SameOrder
<1>1. InFlight'
  BY DEF RelayInv, InFlight
<1>2. InOrder'
  BY DEF RelayInv, InOrder
<1>3. Agree'
  BY DEF RelayInv, Agree
<1>4. VerifiedWasWritten' /\ OneRetry'
  BY DEF RelayInv, VerifiedWasWritten, OneRetry
<1>5. ConfirmedIsLatest' /\ ConfirmedHolds'
  BY DEF RelayInv, ConfirmedIsLatest, ConfirmedHolds
<1>. QED
  BY <1>1, <1>2, <1>3, <1>4, <1>5 DEF RelayInv

(* A completion, in time or by timeout.                                    *)
LEMMA CompletionKeeps ==
    ASSUME RelayInv, TypeOK', flight # NoFlight, flight' = NoFlight,
           UNCHANGED <<tick, wire, relay, manual, issued, written>>,
           replies' \subseteq replies,
           Progressed(flight.cmd),
           file' \in {file, NoCommand} \/ file'.val.phase \notin {"verify", "retry"}
               \/ written.rev >= flight.cmd.rev,
           \/ confirmed' = confirmed
           \/ /\ confirmed' = [rev |-> flight.cmd.rev, on |-> flight.cmd.val.on]
              /\ relay = TargetState(flight.cmd.val)
              /\ \A i \in DOMAIN wire : Destination(wire[i].call) # "system"
    PROVE  RelayInv'
<1>. DEFINE c == flight.cmd
<1>0. /\ tick' = <<>> /\ c \in Held /\ (file # NoCommand => file \in Held)
      /\ \A d : d \in Held' <=> file' # NoCommand /\ d = file'
  <2>1. tick' = <<>>
    BY DEF RelayInv, InFlight
  <2>. QED
    BY <2>1 DEF Held
<1>1. file' # NoCommand => \/ file' = file
                           \/ /\ file # NoCommand /\ file.rev = c.rev
                              /\ file'.rev = c.rev /\ file'.val.on = c.val.on
                              /\ file'.val.phase = "retry" => file'.val.retries = 0
                              /\ file'.val.phase \in {"verify", "retry"}
                                    => written.rev >= c.rev
  <2>1. \A d \in Held : d.val.phase \in {"verify", "retry"} => written.rev >= d.rev
    BY DEF RelayInv, VerifiedWasWritten
  <2>. QED
    BY <1>0, <2>1 DEF Progressed
<1>2. InFlight'
  BY DEF InFlight
<1>3. InOrder'
  <2>1. confirmed'.rev <= issued'
    BY <1>0 DEF RelayInv, InOrder
  <2>. QED
    BY <1>0, <1>1, <2>1 DEF RelayInv, InOrder
<1>4. Agree'
  BY <1>0 DEF Agree
<1>5. VerifiedWasWritten' /\ OneRetry'
  BY <1>0, <1>1 DEF RelayInv, VerifiedWasWritten, OneRetry
<1>6. ConfirmedIsLatest'
  <2>1. CASE confirmed' = confirmed
    BY <1>0, <1>1, <2>1 DEF RelayInv, ConfirmedIsLatest
  <2>2. CASE /\ confirmed' = [rev |-> c.rev, on |-> c.val.on]
             /\ \A i \in DOMAIN wire : Destination(wire[i].call) # "system"
    <3>1. \A i \in DOMAIN wire' : wire'[i].call # "write_relay"
      BY <2>2 DEF Destination
    <3>2. file' # NoCommand => file'.rev >= c.rev
                               /\ (file'.rev = c.rev => file'.val.on = c.val.on)
      <4>1. CASE file' # NoCommand /\ file' = file
        BY <1>0, <4>1, Types DEF RelayInv, InOrder, Agree
      <4>2. CASE file' # NoCommand /\ file' # file
        <5>1. c.rev \in Nat
          BY <1>0, Types, RelayAssumption DEF RelayInv, Command
        <5>. QED
          BY <1>1, <4>2, <5>1
      <4>. QED
        BY <4>1, <4>2
    <3>. QED
      BY <1>0, <2>2, <3>1, <3>2 DEF ConfirmedIsLatest
  <2>. QED
    BY <2>1, <2>2
<1>7. ConfirmedHolds'
  BY DEF RelayInv, ConfirmedHolds, TargetState
<1>. QED
  BY <1>2, <1>3, <1>4, <1>5, <1>6, <1>7 DEF RelayInv

-----------------------------------------------------------------------------
(* A call is appended to the wire, and becomes the last one.               *)
LEMMA DispatchKeeps ==
    ASSUME RelayInv, TypeOK', Dispatch
    PROVE  RelayInv'
<1>0. TypeOK /\ tick # <<>> /\ Len(tick) = 1 /\ DOMAIN tick = {1} /\ tick[1] \in Command
      /\ flight = NoFlight
  BY Types DEF RelayInv, InFlight, Dispatch
<1>. DEFINE sent == tick[1]
            n == Len(wire)
<1>1. PICK id \in Ids \ Outstanding :
          flight' = [id |-> id, cmd |-> sent] /\ wire' = Append(wire, CallTo(id, sent))
  BY DEF Dispatch
<1>2. /\ wire \in Seq(Call) /\ n \in Nat /\ DOMAIN wire = 1 .. n
      /\ DOMAIN wire' = 1 .. n + 1 /\ Len(wire') = n + 1
      /\ wire'[n + 1] = CallTo(id, sent)
      /\ \A i \in 1 .. n : wire'[i] = wire[i]
      /\ \A i \in 1 .. n : wire[i].id # id
      /\ \A r \in replies : r.id # id
  <2>1. wire \in Seq(Call) /\ n \in Nat /\ DOMAIN wire = 1 .. n
    BY <1>0, Types
  <2>2. \A i \in DOMAIN wire : wire[i].id # id
    BY <1>1 DEF Outstanding
  <2>3. \A r \in replies : r.id # id
    BY <1>1 DEF Outstanding
  <2>4. CallTo(id, sent) \in Call
    BY <1>0, <1>1, RelayAssumption
       DEF CallTo, CallOf, Call, Calls, Command, Progress
  <2>5. /\ Len(wire') = n + 1 /\ DOMAIN wire' = 1 .. n + 1
        /\ wire'[n + 1] = CallTo(id, sent)
        /\ \A i \in 1 .. n : wire'[i] = wire[i]
    BY <1>1, <2>1, <2>4, AppendProperties
  <2>. QED
    BY <2>1, <2>2, <2>3, <2>5
<1>3. /\ tick' = <<>> /\ UNCHANGED <<file, replies, relay, issued, written, confirmed>>
      /\ sent \in Held
      /\ \A d : d \in Held' => d \in Held
      /\ CallTo(id, sent).id = id /\ CallTo(id, sent).rev = sent.rev /\ CallTo(id, sent).on = sent.val.on
      /\ flight'.id = id /\ flight'.cmd = sent
  <2>1. tick' = <<>> /\ UNCHANGED <<file, replies, relay, issued, written, confirmed>>
    BY DEF Dispatch
  <2>2. sent \in Held
    BY <1>0 DEF Held
  <2>. QED
    BY <1>1, <2>1, <2>2 DEF Held, CallTo
<1>. HIDE DEF sent, n
<1>4. InFlight'
  <2>1. \A i \in DOMAIN wire' : wire'[i].id = id => i = n + 1
    BY <1>2, <1>3
  <2>. QED
    BY <1>2, <1>3, <2>1 DEF InFlight
<1>5. InOrder'
  <2>1. \A i \in 1 .. n : wire[i].rev <= sent.rev
    BY <1>2, <1>3 DEF RelayInv, InOrder
  <2>2. sent.rev <= issued /\ written.rev <= sent.rev /\ (file # NoCommand => sent.rev <= file.rev)
    BY <1>3 DEF RelayInv, InOrder
  <2>3. sent.rev \in Int
    BY <1>0, <1>3, Types, RelayAssumption DEF Command
  <2>4. \A i, j \in DOMAIN wire' : i < j => wire'[i].rev <= wire'[j].rev
    BY <1>2, <1>3, <2>1 DEF RelayInv, InOrder
  <2>5. \A d \in Held' : \A i \in DOMAIN wire' : wire'[i].rev <= d.rev
    <3>1. \A d \in Held' : d = sent \/ (file # NoCommand /\ d = file)
      BY <1>0, <1>3 DEF Held
    <3>. QED
      BY <1>2, <1>3, <2>1, <2>2, <2>3, <3>1 DEF RelayInv, InOrder
  <2>6. \A i \in DOMAIN wire' : /\ wire'[i].rev <= issued
                                /\ wire'[i].call = "write_relay" => written.rev <= wire'[i].rev
    BY <1>2, <1>3, <2>2 DEF RelayInv, InOrder
  <2>. QED
    BY <1>3, <2>4, <2>5, <2>6 DEF RelayInv, InOrder
<1>6. Agree'
  BY <1>3 DEF RelayInv, Agree
<1>7. VerifiedWasWritten' /\ OneRetry'
  BY <1>3 DEF RelayInv, VerifiedWasWritten, OneRetry
<1>8. ConfirmedIsLatest'
  <2>1. confirmed # NoMark => sent.rev >= confirmed.rev
                              /\ (sent.rev = confirmed.rev => sent.val.on = confirmed.on)
    <3>1. sent \in Held /\ ConfirmedIsLatest
      BY <1>3 DEF RelayInv
    <3>2. \A d \in Held : confirmed # NoMark =>
              d.rev >= confirmed.rev /\ (d.rev = confirmed.rev => d.val.on = confirmed.on)
      BY <3>1 DEF ConfirmedIsLatest
    <3>. QED
      BY <3>1, <3>2
  <2>. QED
    BY <1>2, <1>3, <2>1 DEF RelayInv, ConfirmedIsLatest
<1>9. ConfirmedHolds'
  BY <1>3 DEF RelayInv, ConfirmedHolds
<1>. QED
  BY <1>4, <1>5, <1>6, <1>7, <1>8, <1>9 DEF RelayInv

(* A new command is of a later generation than everything under way.       *)
LEMMA EnqueueProperties ==
    ASSUME TypeOK, NEW on \in BOOLEAN, issued < MaxRequests
    PROVE  LET next == AfterEnqueue(file, SetCommand(issued + 1, on))
           IN  /\ next \in Command
               /\ (file # NoCommand /\ next = file)
                      \/ /\ next.rev = issued + 1
                         /\ next.val.phase \in {"manual_read", "output"}
<1>. DEFINE new == SetCommand(issued + 1, on)
<1>1. new \in Command /\ new.rev = issued + 1 /\ new.val.phase \in {"manual_read", "output"}
  <2>1. issued + 1 \in Revisions
    BY RelayAssumption DEF TypeOK
  <2>2. 0 \in Targets
    BY RelayAssumption
  <2>3. new.val \in Progress
    BY <2>2 DEF SetCommand, Progress, Phases
  <2>. QED
    BY <2>1, <2>3, RelayAssumption DEF SetCommand, Command
<1>2. file \in Command \cup {NoCommand}
  BY DEF TypeOK
<1>. HIDE DEF new
<1>. SUFFICES LET next == AfterEnqueue(file, new)
              IN  /\ next \in Command
                  /\ (file # NoCommand /\ next = file)
                         \/ /\ next.rev = new.rev
                            /\ next.val = new.val
  BY <1>1 DEF new
<1>3. file # NoCommand => /\ Coalesced(file, new) \in Command
                          /\ Coalesced(file, new).rev = new.rev
                          /\ Coalesced(file, new).val = new.val
  BY <1>1, <1>2 DEF Coalesced, Command
<1>. QED
  BY <1>1, <1>2, <1>3 DEF AfterEnqueue

LEMMA SetEnabledKeeps ==
    ASSUME RelayInv, NEW on \in BOOLEAN, SetEnabled(on)
    PROVE  RelayInv'
<1>0. /\ TypeOK /\ issued < MaxRequests /\ issued' = issued + 1 /\ issued \in Nat
      /\ file' = AfterEnqueue(file, SetCommand(issued + 1, on))
      /\ UNCHANGED <<tick, flight, wire, replies, relay, manual, written, crashes, confirmed>>
  BY Types DEF RelayInv, SetEnabled, bus
<1>1. /\ file' \in Command
      /\ \/ file # NoCommand /\ file' = file
         \/ /\ file'.rev = issued + 1
            /\ file'.val.phase \in {"manual_read", "output"}
  BY <1>0, EnqueueProperties
<1>2. TypeOK'
  BY <1>0, <1>1, RelayAssumption DEF TypeOK
<1>3. \A d \in Held' : d = file' \/ d \in Held
  BY <1>0 DEF Held
<1>a. \A d \in Held : d.rev <= issued /\ d.rev \in Nat
  BY <1>0, Types, RelayAssumption DEF RelayInv, InOrder, Command
<1>b. \A i \in DOMAIN wire : wire[i].rev <= issued /\ wire[i].rev \in Nat
  BY <1>0, Types, RelayAssumption DEF RelayInv, InOrder, Call
<1>c. written.rev \in Nat /\ written.rev <= issued
      /\ confirmed.rev \in Nat /\ confirmed.rev <= issued
  BY <1>0, Types DEF RelayInv, InOrder
<1>4. CASE file # NoCommand /\ file' = file
  <2>1. \A d : d \in Held' <=> d \in Held
    BY <1>0, <1>4, HeldCases
  <2>2. InOrder'
    BY <1>0, <1>4, <1>a, <1>b, <1>c, <2>1 DEF RelayInv, InOrder
  <2>3. InFlight' /\ Agree'
    BY <1>0, <1>4, <2>1 DEF RelayInv, InFlight, Agree
  <2>4. VerifiedWasWritten' /\ OneRetry'
    BY <1>0, <1>4, <2>1 DEF RelayInv, VerifiedWasWritten, OneRetry
  <2>5. ConfirmedIsLatest' /\ ConfirmedHolds'
    BY <1>0, <1>4, <2>1 DEF RelayInv, ConfirmedIsLatest, ConfirmedHolds
  <2>. QED
    BY <1>2, <2>2, <2>3, <2>4, <2>5 DEF RelayInv
<1>5. CASE /\ file'.rev = issued + 1
           /\ file'.val.phase \in {"manual_read", "output"}
  <2>4. \A d \in Held' : d = file' \/ (d \in Held /\ d.rev < file'.rev)
    BY <1>0, <1>3, <1>5, <1>a
  <2>5. \A i \in DOMAIN tick' : tick'[i] \in Held
    BY <1>0 DEF Held
  <2>6. InFlight'
    BY <1>0 DEF RelayInv, InFlight
  <2>7. InOrder'
    BY <1>0, <1>5, <1>a, <1>b, <1>c, <2>4 DEF RelayInv, InOrder
  <2>8. Agree'
    BY <1>0, <1>a, <2>4, <2>5, <1>5 DEF Agree
  <2>9. VerifiedWasWritten' /\ OneRetry'
    BY <1>0, <1>5, <2>4 DEF RelayInv, VerifiedWasWritten, OneRetry
  <2>10. ConfirmedIsLatest' /\ ConfirmedHolds'
    BY <1>0, <1>5, <1>c, <2>4 DEF RelayInv, ConfirmedIsLatest, ConfirmedHolds
  <2>. QED
    BY <1>2, <2>6, <2>7, <2>8, <2>9, <2>10 DEF RelayInv
<1>. QED
  BY <1>1, <1>4, <1>5

-----------------------------------------------------------------------------
(* A service answers one call.  Only the write of the relay moves it; what *)
(* a read-back answers is where the relay is.                              *)
LEMMA ServeKeeps ==
    ASSUME RelayInv, TypeOK', NEW i \in DOMAIN wire, NEW answer \in Answers,
           Oldest(i), Reply(i, answer),
           UNCHANGED <<file, tick, flight, issued, confirmed>>,
           \/ /\ wire[i].call = "write_relay"
              /\ relay' \in {relay, TargetState(wire[i])}
              /\ written' = [rev |-> wire[i].rev, on |-> wire[i].on]
           \/ /\ relay' = relay /\ written' = written
              /\ wire[i].call = "write_relay" => answer = "error"
              /\ wire[i].call = "read_relay" => answer \in {relay, "other", "error"}
    PROVE  RelayInv'
<1>. DEFINE n == Len(wire)
            new == [id |-> wire[i].id, answer |-> answer]
<1>0. /\ wire \in Seq(Call) /\ n \in Nat /\ DOMAIN wire = 1 .. n /\ i \in 1 .. n
      /\ \A j \in 1 .. n : wire[j] \in Call
  BY Types DEF RelayInv
<1>1. /\ DOMAIN wire' = 1 .. n - 1 /\ Len(wire') = n - 1
      /\ \A j \in 1 .. n - 1 : wire'[j] = IF j < i THEN wire[j] ELSE wire[j + 1]
      /\ replies' = replies \cup {new}
  <2>1. wire' = RemoveAt(wire, i) /\ replies' = replies \cup {new}
    BY DEF Reply
  <2>2. /\ RemoveAt(wire, i) \in Seq(Call) /\ Len(RemoveAt(wire, i)) = n - 1
        /\ \A j \in 1 .. n - 1 :
              RemoveAt(wire, i)[j] = IF j < i THEN wire[j] ELSE wire[j + 1]
    BY <1>0, RemoveAtFacts
  <2>3. DOMAIN RemoveAt(wire, i) = 1 .. n - 1
    BY <2>2
  <2>. QED
    BY <2>1, <2>2, <2>3
<1>. HIDE DEF n, new
<1>2. \A j \in DOMAIN wire' : \E k \in DOMAIN wire :
          /\ wire'[j] = wire[k] /\ k # i /\ k = (IF j < i THEN j ELSE j + 1)
  BY <1>0, <1>1
<1>3. \A d : d \in Held' <=> d \in Held
  BY HeldCases
<1>4. /\ \A j, k \in 1 .. n : j < k => wire[j].rev <= wire[k].rev
      /\ \A j \in 1 .. n : /\ wire[j].rev \in Nat /\ wire[j].rev <= issued
                           /\ wire[j].call = "write_relay" => written.rev <= wire[j].rev
      /\ issued \in Nat /\ written.rev \in Nat /\ written.rev <= issued
      /\ \A d \in Held : d.rev \in Nat /\ written.rev <= d.rev
  <2>1. TypeOK /\ InOrder
    BY DEF RelayInv
  <2>2. Revisions \subseteq Nat
    BY RelayAssumption
  <2>3. \A j \in 1 .. n : wire[j].rev \in Nat
    BY <1>0, <2>2 DEF Call
  <2>4. issued \in Nat /\ written.rev \in Nat /\ \A d \in Held : d.rev \in Nat
    <3>1. issued \in Nat /\ MaxRequests \in Nat /\ written.rev \in 0 .. MaxRequests
          /\ \A d \in Held : d \in Command
      BY <2>1, Types
    <3>2. \A d \in Command : d.rev \in Nat
      BY <2>2 DEF Command
    <3>. QED
      BY <3>1, <3>2
  <2>5. /\ \A j, k \in DOMAIN wire : j < k => wire[j].rev <= wire[k].rev
        /\ \A j \in DOMAIN wire : /\ wire[j].rev <= issued
                                  /\ wire[j].call = "write_relay" => written.rev <= wire[j].rev
        /\ written.rev <= issued
        /\ \A d \in Held : written.rev <= d.rev
    BY <2>1 DEF InOrder
  <2>. QED
    BY <1>0, <2>3, <2>4, <2>5
(* A write that is executed is not older than the one executed before,     *)
(* and not younger than any write still to come.                           *)
<1>5. /\ written'.rev \in Nat /\ written.rev <= written'.rev /\ written'.rev <= issued
      /\ \A d \in Held : written'.rev <= d.rev
      /\ \A j \in DOMAIN wire' : wire'[j].call = "write_relay"
                                     => written'.rev <= wire'[j].rev
  <2>1. CASE written' = written
    BY <1>0, <1>2, <1>4, <2>1
  <2>2. CASE /\ wire[i].call = "write_relay"
             /\ written' = [rev |-> wire[i].rev, on |-> wire[i].on]
    <3>1. \A d \in Held : wire[i].rev <= d.rev
      BY DEF RelayInv, InOrder
    <3>2. \A j \in DOMAIN wire' : wire'[j].call = "write_relay" => wire[i].rev <= wire'[j].rev
      <4>. TAKE j \in DOMAIN wire'
      <4>. HAVE wire'[j].call = "write_relay"
      <4>1. PICK k \in DOMAIN wire : /\ wire'[j] = wire[k] /\ k # i
                                     /\ k = (IF j < i THEN j ELSE j + 1)
        BY <1>2
      <4>2. ~(k \in 1 .. i - 1)
        BY <2>2, <4>1 DEF Oldest, Destination
      <4>3. k > i
        BY <1>0, <4>1, <4>2
      <4>. QED
        BY <1>0, <1>4, <4>1, <4>3
    <3>. QED
      BY <1>0, <1>4, <2>2, <3>1, <3>2
  <2>. QED
    BY <2>1, <2>2
<1>6. InOrder'
  <2>1. \A j, k \in DOMAIN wire' : j < k => wire'[j].rev <= wire'[k].rev
    <3>. TAKE j, k \in DOMAIN wire'
    <3>. HAVE j < k
    <3>. DEFINE p == IF j < i THEN j ELSE j + 1
                q == IF k < i THEN k ELSE k + 1
    <3>1. p \in 1 .. n /\ q \in 1 .. n /\ p < q
      BY <1>0, <1>1
    <3>2. wire'[j] = wire[p] /\ wire'[k] = wire[q]
      BY <1>1
    <3>. QED
      BY <1>4, <3>1, <3>2
  <2>2. \A j \in DOMAIN wire' : wire'[j].rev <= issued
    BY <1>0, <1>2, <1>4
  <2>3. \A d \in Held : /\ d.rev <= issued
                        /\ file # NoCommand => d.rev <= file.rev
                        /\ \A j \in DOMAIN wire' : wire'[j].rev <= d.rev
    BY <1>2 DEF RelayInv, InOrder
  <2>4. confirmed.rev <= issued
    BY DEF RelayInv, InOrder
  <2>. QED
    BY <1>3, <1>5, <2>1, <2>2, <2>3, <2>4 DEF InOrder
<1>7. InFlight'
  <2>. SUFFICES ASSUME flight # NoFlight
                PROVE  InFlight'
    BY DEF InFlight
  <2>1. /\ tick = <<>>
        /\ \A j \in DOMAIN wire : wire[j].id = flight.id =>
               j = n /\ wire[j] = CallTo(flight.id, flight.cmd)
    BY DEF RelayInv, InFlight, n
  <2>2. \A j \in DOMAIN wire' : wire'[j].id = flight.id =>
            j = n - 1 /\ i # n /\ wire'[j] = CallTo(flight.id, flight.cmd)
    BY <1>0, <1>1, <1>2, <2>1
  <2>3. flight.cmd \in Held /\ flight.cmd.rev \in Nat
    BY <1>4 DEF Held
  <2>4. ASSUME NEW r \in replies, r.id = flight.id
        PROVE  /\ \A j \in DOMAIN wire' : wire'[j].id # flight.id
               /\ flight.cmd.val.phase = "verify" =>
                      /\ r.answer \in {relay', "other", "error"}
                      /\ \A j \in DOMAIN wire' : Destination(wire'[j].call) # "system"
               /\ flight.cmd.val.phase \in {"output", "retry"} /\ r.answer # "error"
                      => written'.rev >= flight.cmd.rev
    <3>1. /\ \A j \in DOMAIN wire : wire[j].id # flight.id
          /\ flight.cmd.val.phase = "verify" =>
                 /\ r.answer \in {relay, "other", "error"}
                 /\ \A j \in DOMAIN wire : Destination(wire[j].call) # "system"
          /\ flight.cmd.val.phase \in {"output", "retry"} /\ r.answer # "error"
                 => written.rev >= flight.cmd.rev
      BY <2>4 DEF RelayInv, InFlight
    <3>2. flight.cmd.val.phase = "verify" => relay' = relay
      BY <3>1 DEF Destination
    <3>. QED
      BY <1>2, <1>4, <1>5, <2>3, <3>1, <3>2
  <2>5. ASSUME new.id = flight.id
        PROVE  /\ \A j \in DOMAIN wire' : wire'[j].id # flight.id
               /\ flight.cmd.val.phase = "verify" =>
                      /\ new.answer \in {relay', "other", "error"}
                      /\ \A j \in DOMAIN wire' : Destination(wire'[j].call) # "system"
               /\ flight.cmd.val.phase \in {"output", "retry"} /\ new.answer # "error"
                      => written'.rev >= flight.cmd.rev
    <3>1. i = n /\ wire[i] = CallTo(flight.id, flight.cmd) /\ new.answer = answer
      BY <2>1, <2>5 DEF new
    <3>2. wire[i].call = CallOf(flight.cmd) /\ wire[i].rev = flight.cmd.rev
      BY <3>1 DEF CallTo
    <3>3. \A j \in DOMAIN wire' : wire'[j].id # flight.id
      BY <2>2, <3>1
    <3>4. CASE flight.cmd.val.phase = "verify"
      <4>1. wire[i].call = "read_relay"
        BY <3>2, <3>4 DEF CallOf
      <4>2. \A j \in 1 .. n - 1 : Destination(wire[j].call) # "system"
        BY <3>1, <4>1 DEF Oldest, Destination
      <4>3. \A j \in DOMAIN wire' : Destination(wire'[j].call) # "system"
        BY <1>0, <1>1, <3>1, <4>2
      <4>. QED
        BY <3>1, <3>3, <3>4, <4>1, <4>3
    <3>5. CASE flight.cmd.val.phase \in {"output", "retry"}
      <4>1. wire[i].call = "write_relay"
        BY <3>2, <3>5 DEF CallOf
      <4>2. new.answer # "error" => written'.rev = flight.cmd.rev
        BY <3>1, <3>2, <4>1
      <4>. QED
        BY <2>3, <3>3, <3>5, <4>2
    <3>. QED
      BY <3>3, <3>4, <3>5
  <2>. QED
    BY <1>1, <2>1, <2>2, <2>4, <2>5 DEF InFlight
<1>8. Agree'
  BY <1>3 DEF RelayInv, Agree
<1>9. VerifiedWasWritten' /\ OneRetry'
  <2>1. \A d \in Held : d.val.phase \in {"verify", "retry"} => written'.rev >= d.rev
    BY <1>4, <1>5 DEF RelayInv, VerifiedWasWritten
  <2>. QED
    BY <1>3, <2>1 DEF RelayInv, VerifiedWasWritten, OneRetry
<1>10. ConfirmedIsLatest'
  BY <1>2, <1>3 DEF RelayInv, ConfirmedIsLatest
<1>11. ConfirmedHolds'
  <2>1. CASE relay' = relay /\ written' = written
    BY <2>1 DEF RelayInv, ConfirmedHolds
  <2>2. CASE /\ wire[i].call = "write_relay"
             /\ relay' \in {relay, TargetState(wire[i])}
             /\ written' = [rev |-> wire[i].rev, on |-> wire[i].on]
    <3>. SUFFICES ASSUME confirmed # NoMark, written'.rev <= confirmed.rev
                  PROVE  relay' = TargetState(confirmed)
      BY DEF ConfirmedHolds
    <3>1. wire[i].rev >= confirmed.rev
          /\ (wire[i].rev = confirmed.rev => wire[i].on = confirmed.on)
      BY <2>2 DEF RelayInv, ConfirmedIsLatest
    <3>2. confirmed.rev \in Nat /\ wire[i].rev \in Nat
      BY <1>0, <1>4, Types DEF RelayInv
    <3>3. wire[i].rev = confirmed.rev /\ wire[i].on = confirmed.on
      BY <2>2, <3>1, <3>2
    <3>4. relay = TargetState(confirmed)
      BY <1>0, <1>4, <2>2, <3>2, <3>3 DEF RelayInv, ConfirmedHolds
    <3>. QED
      BY <2>2, <3>3, <3>4 DEF TargetState
  <2>. QED
    BY <2>1, <2>2
<1>. QED
  BY <1>6, <1>7, <1>8, <1>9, <1>10, <1>11 DEF RelayInv

-----------------------------------------------------------------------------
LEMMA InitInv == Init => RelayInv
<1>. SUFFICES ASSUME Init PROVE RelayInv
  OBVIOUS
<1>1. TypeOK
  BY RelayAssumption DEF Init, TypeOK, NoMark
<1>2. Held = {}
  BY DEF Init, Held
<1>3. InFlight /\ InOrder /\ Agree
  BY <1>2 DEF Init, InFlight, InOrder, Agree, NoMark
<1>4. VerifiedWasWritten /\ OneRetry /\ ConfirmedIsLatest /\ ConfirmedHolds
  BY <1>2 DEF Init, VerifiedWasWritten, OneRetry, ConfirmedIsLatest, ConfirmedHolds
<1>. QED
  BY <1>1, <1>3, <1>4 DEF RelayInv

(* Type correctness on its own: what a step appends, answers or rewrites   *)
(* is of its type.                                                         *)
LEMMA NextTypes ==
    ASSUME RelayInv, [Next]_vars
    PROVE  TypeOK'
<1>. USE RelayAssumption
<1>0. TypeOK /\ OneRetry
  BY DEF RelayInv
<1>t. /\ tick = <<>> \/ (Len(tick) = 1 /\ DOMAIN tick = {1} /\ tick[1] \in Command)
      /\ wire \in Seq(Call) /\ DOMAIN wire = 1 .. Len(wire)
      /\ \A i \in DOMAIN wire : wire[i] \in Call
      /\ file # NoCommand => file \in Command
      /\ flight # NoFlight => flight \in Flight /\ flight.cmd \in Command
                              /\ flight.cmd.val \in Progress
                              /\ flight.cmd.rev \in Revisions
  BY <1>0, Types DEF Flight, Command
<1>1. ASSUME NEW on \in BOOLEAN, SetEnabled(on) PROVE TypeOK'
  BY <1>1, SetEnabledKeeps DEF RelayInv
<1>2. CASE DeadlinePasses
  <2>1. Aged(file) \in Command /\ (tick # <<>> => Aged(tick[1]) \in Command)
    BY <1>2, <1>t DEF DeadlinePasses, Aged, Command
  <2>. QED
    BY <1>0, <1>2, <2>1 DEF DeadlinePasses, TypeOK, InTick, bus
<1>3. CASE NotBeforePasses
  <2>1. Due(file) \in Command
    BY <1>3, <1>t DEF NotBeforePasses, Due, Command, Progress
  <2>. QED
    BY <1>0, <1>3, <2>1 DEF NotBeforePasses, TypeOK, bus
<1>4. CASE BeginTick
  BY <1>0, <1>t, <1>4 DEF BeginTick, TypeOK, bus
<1>5. CASE DropExpired
  BY <1>0, <1>5 DEF DropExpired, TypeOK, bus, AfterRemoveIfCurrent
<1>6. CASE EndTick
  BY <1>0, <1>6 DEF EndTick, TypeOK, bus
<1>7. CASE Dispatch
  <2>1. PICK id \in Ids :
            flight' = [id |-> id, cmd |-> tick[1]] /\ wire' = Append(wire, CallTo(id, tick[1]))
    BY <1>7 DEF Dispatch
  <2>2. tick[1] \in Command
    BY <1>7, <1>t DEF Dispatch
  <2>3. CallTo(id, tick[1]) \in Call
    BY <2>2 DEF CallTo, CallOf, Call, Calls, Command, Progress
  <2>4. wire' \in Seq(Call)
    BY <1>t, <2>1, <2>3, AppendProperties
  <2>5. flight' \in Flight
    BY <2>1, <2>2 DEF Flight
  <2>. QED
    BY <1>0, <1>7, <2>4, <2>5 DEF Dispatch, TypeOK
<1>8. ASSUME NEW i \in DOMAIN wire, Serve(i) PROVE TypeOK'
  <2>0. wire[i] \in Call /\ i \in 1 .. Len(wire)
    BY <1>t
  <2>1. ASSUME NEW answer \in Answers, Reply(i, answer)
        PROVE  wire' \in Seq(Call) /\ replies' \subseteq [id : Ids, answer : Answers]
    <3>1. wire' \in Seq(Call)
      BY <1>t, <2>0, <2>1, RemoveAtFacts DEF Reply
    <3>. QED
      BY <1>0, <2>0, <2>1, <3>1 DEF Reply, TypeOK, Call
  <2>2. CASE ServeRead(i)
    <3>1. PICK answer \in Answers : Reply(i, answer)
      BY <1>0, <2>2 DEF ServeRead, Answers, TypeOK
    <3>. QED
      BY <1>0, <2>2, <3>1, <2>1 DEF ServeRead, TypeOK
  <2>3. CASE ServeFunction(i)
    <3>1. Reply(i, "ok") /\ "ok" \in Answers
      BY <2>3 DEF ServeFunction, Answers
    <3>2. manual' \in [Targets -> BOOLEAN]
      BY <1>0, <2>3 DEF ServeFunction, TypeOK
    <3>. QED
      BY <1>0, <2>3, <3>1, <3>2, <2>1 DEF ServeFunction, TypeOK
  <2>4. CASE ServeRelay(i)
    <3>1. Reply(i, "ok") /\ "ok" \in Answers
      BY <2>4 DEF ServeRelay, Answers
    <3>2. written' \in Mark /\ relay' \in {Energized, Idle}
      BY <1>0, <2>0, <2>4 DEF ServeRelay, TypeOK, Call, Mark, TargetState
    <3>. QED
      BY <1>0, <2>4, <3>1, <3>2, <2>1 DEF ServeRelay, TypeOK
  <2>5. CASE Refuse(i)
    <3>1. Reply(i, "error") /\ "error" \in Answers
      BY <2>5 DEF Refuse, Answers
    <3>. QED
      BY <1>0, <2>5, <3>1, <2>1 DEF Refuse, TypeOK
  <2>. QED
    BY <1>8, <2>2, <2>3, <2>4, <2>5 DEF Serve
<1>9. ASSUME NEW c \in Command, Progressed(c) PROVE file' \in Command \cup {NoCommand}
  BY <1>0, <1>9 DEF Progressed, TypeOK
<1>10. ASSUME NEW r \in replies, Succeed(r) \/ Fail(r) \/ CallbackFails(r)
       PROVE  TypeOK'
  <2>0. /\ flight # NoFlight /\ flight' = NoFlight /\ replies' \subseteq replies
        /\ UNCHANGED <<tick, wire, relay, manual, issued, crashes, written>>
    BY <1>10 DEF Succeed, Fail, CallbackFails, Take
  <2>1. flight.cmd \in Held
    BY <2>0 DEF Held
  <2>2. Progressed(flight.cmd)
    <3>1. CASE Succeed(r)
      BY <1>0, <1>t, <2>0, <2>1, <3>1, SuccessProgresses DEF Succeed, OneRetry
    <3>2. CASE Fail(r) \/ CallbackFails(r)
      <4>1. OnError(flight.cmd) \/ UNCHANGED file
        BY <3>2 DEF Fail, CallbackFails, ErrorCallback
      <4>. QED
        BY <1>0, <1>t, <2>0, <4>1, ErrorProgresses DEF Progressed
    <3>. QED
      BY <1>10, <3>1, <3>2
  <2>3. confirmed' \in Mark \cup {NoMark}
    <3>1. confirmed' = confirmed
          \/ confirmed' = [rev |-> flight.cmd.rev, on |-> flight.cmd.val.on]
      BY <1>10 DEF Succeed, Fail, CallbackFails
    <3>. QED
      BY <1>0, <1>t, <2>0, <3>1 DEF TypeOK, Mark, Progress
  <2>4. file' \in Command \cup {NoCommand}
    BY <1>9, <1>t, <2>0, <2>2
  <2>. QED
    BY <1>0, <2>0, <2>3, <2>4 DEF TypeOK
<1>11. ASSUME NEW r \in replies, IgnoreLate(r) PROVE TypeOK'
  BY <1>0, <1>11 DEF IgnoreLate, TypeOK
<1>12. CASE Timeout
  <2>1. flight # NoFlight /\ (OnError(flight.cmd) \/ UNCHANGED file)
    BY <1>12 DEF Timeout, ErrorCallback
  <2>2. Progressed(flight.cmd)
    BY <1>0, <1>t, <2>1, ErrorProgresses DEF Progressed
  <2>3. file' \in Command \cup {NoCommand}
    BY <1>9, <1>t, <2>1, <2>2
  <2>. QED
    BY <1>0, <1>12, <2>3 DEF Timeout, TypeOK, bus
<1>13. CASE Crash
  BY <1>0, <1>13 DEF Crash, TypeOK, bus
<1>14. CASE UNCHANGED vars
  BY <1>0, <1>14 DEF vars, TypeOK
<1>. QED
  BY <1>1, <1>2, <1>3, <1>4, <1>5, <1>6, <1>7, <1>8, <1>10, <1>11, <1>12, <1>13, <1>14
     DEF Next

LEMMA AnswerKeeps ==
    ASSUME RelayInv, TypeOK', NEW r \in replies, Succeed(r) \/ Fail(r) \/ CallbackFails(r)
    PROVE  RelayInv'
<1>. DEFINE c == flight.cmd
<1>0. /\ flight # NoFlight /\ r.id = flight.id /\ flight' = NoFlight
      /\ replies' \subseteq replies
      /\ UNCHANGED <<tick, wire, relay, manual, issued, crashes, written>>
  BY DEF Succeed, Fail, CallbackFails, Take
<1>1. TypeOK /\ c \in Command /\ c \in Held /\ relay \in {Energized, Idle}
  <2>1. TypeOK /\ c \in Held
    BY <1>0 DEF RelayInv, Held
  <2>. QED
    BY <2>1, Types DEF TypeOK
<1>2. /\ c.val.phase = "verify" =>
             /\ r.answer \in {relay, "other", "error"}
             /\ \A i \in DOMAIN wire : Destination(wire[i].call) # "system"
      /\ c.val.phase \in {"output", "retry"} /\ r.answer # "error" => written.rev >= c.rev
  BY <1>0 DEF RelayInv, InFlight
<1>3. Progressed(c) /\ (file' \in {file, NoCommand}
          \/ file'.val.phase \notin {"verify", "retry"} \/ written.rev >= c.rev)
  <2>1. CASE Succeed(r)
    <3>1. OnSuccess(c, r.answer) /\ r.answer # "error"
      BY <2>1 DEF Succeed
    <3>2. Progressed(c)
      BY <1>1, <3>1, SuccessProgresses DEF RelayInv, OneRetry
    <3>3. c.val.phase = "verify" => written.rev >= c.rev
      BY <1>1 DEF RelayInv, VerifiedWasWritten
    <3>. QED
      BY <1>2, <3>1, <3>2, <3>3 DEF Progressed
  <2>2. CASE Fail(r) \/ CallbackFails(r)
    <3>1. OnError(c) \/ UNCHANGED file
      BY <2>2 DEF Fail, CallbackFails, ErrorCallback
    <3>. QED
      BY <1>1, <3>1, ErrorProgresses DEF Progressed
  <2>. QED
    BY <2>1, <2>2
<1>4. \/ confirmed' = confirmed
      \/ /\ confirmed' = [rev |-> c.rev, on |-> c.val.on]
         /\ relay = TargetState(c.val)
         /\ \A i \in DOMAIN wire : Destination(wire[i].call) # "system"
  <2>1. \/ confirmed' = confirmed
        \/ confirmed' = [rev |-> c.rev, on |-> c.val.on] /\ Confirms(c, r.answer)
    BY DEF Succeed, Fail, CallbackFails
  <2>2. Confirms(c, r.answer) => r.answer = relay /\ relay = TargetState(c.val)
    BY <1>1, <1>2 DEF Confirms, TargetState, Energized, Idle
  <2>. QED
    BY <1>2, <2>1, <2>2 DEF Confirms
<1>. QED
  BY <1>0, <1>3, <1>4, CompletionKeeps

LEMMA NextInv ==
    ASSUME RelayInv, [Next]_vars
    PROVE  RelayInv'
<1>0. TypeOK /\ TypeOK'
  BY NextTypes DEF RelayInv
<1>1. ASSUME NEW on \in BOOLEAN, SetEnabled(on) PROVE RelayInv'
  BY <1>1, SetEnabledKeeps
<1>2. CASE DeadlinePasses
  <2>1. /\ file' = [file EXCEPT !.at = Late]
        /\ \/ tick = <<>> /\ tick' = <<>>
           \/ /\ Len(tick) = 1 /\ DOMAIN tick = {1} /\ tick' = <<Aged(tick[1])>>
              /\ tick[1] \in Command
        /\ file # NoCommand /\ file \in Command
        /\ UNCHANGED <<flight, wire, replies, relay, manual, issued, written, confirmed>>
    BY <1>0, <1>2, Types DEF DeadlinePasses, InTick, Aged, bus
  <2>2. \A c \in Command : Aged(c) = [c EXCEPT !.at = Late]
    BY NoCommandAssumption DEF Aged
  <2>3. /\ file' \in Command /\ SameOrder(file', file) /\ file'.at = Late
        /\ \A c \in Command : SameOrder(Aged(c), c) /\ Aged(c).at = Late
    BY <2>1, <2>2, RelayAssumption DEF SameOrder, Command
  <2>4. \A i \in DOMAIN tick' : /\ tick'[i].at = Late
                                /\ tick[1] \in Held /\ SameOrder(tick'[i], tick[1])
    BY <2>1, <2>3 DEF Held
  <2>5. \A d \in Held' : \E c \in Held : SameOrder(d, c)
    <3>1. file \in Held /\ (flight # NoFlight => flight.cmd \in Held)
      BY <2>1 DEF Held
    <3>2. \A d \in Held' : d = file' \/ (\E i \in DOMAIN tick' : d = tick'[i])
                               \/ (flight # NoFlight /\ d = flight.cmd)
      BY <2>1 DEF Held
    <3>. QED
      BY <2>3, <2>4, <3>1, <3>2 DEF SameOrder
  <2>6. flight' # NoFlight => flight' = flight /\ tick' = <<>>
    BY <2>1 DEF RelayInv, InFlight
  <2>. QED
    BY <1>0, <2>1, <2>3, <2>4, <2>5, <2>6, QuietKeeps DEF SameOrder
<1>3. CASE NotBeforePasses
  <2>1. /\ file # NoCommand /\ file \in Command /\ file.val \in Progress
        /\ file' = [file EXCEPT !.val.ready = TRUE]
        /\ UNCHANGED <<tick, flight, wire, replies, relay, manual, issued, written, confirmed>>
    BY <1>0, <1>3, Types, RelayAssumption DEF NotBeforePasses, Due, bus, Command
  <2>2. SameOrder(file', file) /\ file'.at = file.at
    BY <2>1 DEF SameOrder, Command, Progress
  <2>3. \A d \in Held' : \E c \in Held : SameOrder(d, c)
    BY <2>1, <2>2 DEF Held, SameOrder
  <2>4. \A i \in DOMAIN tick' : tick'[i].rev = file'.rev => tick'[i].at = file'.at
    BY <2>1, <2>2 DEF RelayInv, Agree, SameOrder
  <2>5. flight' # NoFlight => flight' = flight /\ tick' = <<>>
    BY <2>1 DEF RelayInv, InFlight
  <2>. QED
    BY <1>0, <2>1, <2>2, <2>3, <2>4, <2>5, QuietKeeps DEF SameOrder
<1>4. CASE BeginTick
  <2>1. /\ tick' = <<file>> /\ file # NoCommand /\ flight' = NoFlight
        /\ UNCHANGED <<file, wire, replies, relay, manual, issued, written, confirmed>>
    BY <1>4 DEF BeginTick, bus
  <2>2. \A d \in Held' : d \in Held
    BY <2>1 DEF Held
  <2>3. \A i \in DOMAIN tick' : tick'[i].at = file'.at
    BY <2>1
  <2>. QED
    BY <1>0, <2>1, <2>2, <2>3, QuietKeeps DEF SameOrder
<1>5. CASE DropExpired
  <2>1. /\ tick' = <<>> /\ file' \in {file, NoCommand}
        /\ UNCHANGED <<flight, wire, replies, relay, manual, issued, written, confirmed>>
    BY <1>5 DEF DropExpired, AfterRemoveIfCurrent, bus
  <2>2. \A d \in Held' : d \in Held
    BY <2>1 DEF Held
  <2>. QED
    BY <1>0, <2>1, <2>2, QuietKeeps DEF SameOrder
<1>6. CASE EndTick
  <2>1. /\ tick' = <<>>
        /\ UNCHANGED <<file, flight, wire, replies, relay, manual, issued, written, confirmed>>
    BY <1>6 DEF EndTick, bus
  <2>2. \A d \in Held' : d \in Held
    BY <2>1 DEF Held
  <2>. QED
    BY <1>0, <2>1, <2>2, QuietKeeps DEF SameOrder
<1>7. CASE Dispatch
  BY <1>0, <1>7, DispatchKeeps
<1>8. ASSUME NEW i \in DOMAIN wire, Serve(i) PROVE RelayInv'
  <2>0. relay \in {Energized, Idle}
    BY <1>0 DEF TypeOK
  <2>1. CASE ServeRead(i)
    <3>1. PICK answer \in Answers :
              /\ Reply(i, answer) /\ wire[i].call \in {"read_relay", "read_function"}
              /\ wire[i].call = "read_relay" => answer \in {relay, "other"}
      BY <2>0, <2>1 DEF ServeRead, Answers
    <3>. QED
      BY <1>0, <2>1, <3>1, ServeKeeps DEF ServeRead
  <2>2. CASE ServeFunction(i)
    BY <1>0, <2>2, ServeKeeps DEF ServeFunction, Answers
  <2>3. CASE ServeRelay(i)
    BY <1>0, <2>3, ServeKeeps DEF ServeRelay, Answers
  <2>4. CASE Refuse(i)
    BY <1>0, <2>4, ServeKeeps DEF Refuse, Answers
  <2>. QED
    BY <1>8, <2>1, <2>2, <2>3, <2>4 DEF Serve
<1>9. ASSUME NEW r \in replies, Succeed(r) \/ Fail(r) \/ CallbackFails(r) PROVE RelayInv'
  BY <1>0, <1>9, AnswerKeeps
<1>10. ASSUME NEW r \in replies, IgnoreLate(r) PROVE RelayInv'
  <2>1. /\ replies' \subseteq replies /\ tick' = <<>>
        /\ UNCHANGED <<file, tick, flight, wire, relay, manual, issued, written, confirmed>>
    BY <1>10 DEF IgnoreLate
  <2>2. \A d \in Held' : d \in Held
    BY <2>1 DEF Held
  <2>. QED
    BY <1>0, <2>1, <2>2, QuietKeeps DEF SameOrder
<1>11. CASE Timeout
  <2>1. /\ flight # NoFlight /\ flight' = NoFlight
        /\ UNCHANGED <<tick, wire, replies, relay, manual, issued, written, confirmed>>
        /\ OnError(flight.cmd) \/ UNCHANGED file
    BY <1>11 DEF Timeout, ErrorCallback, bus
  <2>2. flight.cmd \in Command
    BY <1>0, <2>1, Types DEF Flight
  <2>3. Progressed(flight.cmd) /\ (file' \in {file, NoCommand}
            \/ file'.val.phase \notin {"verify", "retry"})
    BY <1>0, <2>1, <2>2, ErrorProgresses DEF Progressed
  <2>. QED
    BY <1>0, <2>1, <2>3, CompletionKeeps
<1>12. CASE Crash
  <2>1. /\ tick' = <<>> /\ flight' = NoFlight
        /\ UNCHANGED <<file, wire, replies, relay, manual, issued, written, confirmed>>
    BY <1>12 DEF Crash, bus
  <2>2. \A d \in Held' : d \in Held
    BY <2>1 DEF Held
  <2>. QED
    BY <1>0, <2>1, <2>2, QuietKeeps DEF SameOrder
<1>13. CASE UNCHANGED vars
  <2>1. /\ UNCHANGED <<file, tick, flight, wire, replies, relay, manual, issued, written, confirmed>>
    BY <1>13 DEF vars
  <2>2. \A d \in Held' : d \in Held
    BY <2>1 DEF Held
  <2>3. \A i \in DOMAIN tick' : file' # NoCommand /\ tick'[i].rev = file'.rev
                                   => tick'[i].at = file'.at
    BY <2>1 DEF RelayInv, Agree
  <2>4. flight' # NoFlight => flight' = flight /\ tick' = <<>>
    BY <2>1 DEF RelayInv, InFlight
  <2>. QED
    BY <1>0, <2>1, <2>2, <2>3, <2>4, QuietKeeps DEF SameOrder
<1>. QED
  BY <1>1, <1>2, <1>3, <1>4, <1>5, <1>6, <1>7, <1>8, <1>9, <1>10, <1>11, <1>12, <1>13
     DEF Next

(***************************************************************************)
(* The invariant holds however many commands are issued, calls outstanding *)
(* and gateways restarted (gx_relay write handlers, asynchronous broker).  *)
(***************************************************************************)
THEOREM RelayInvariant == Spec => []RelayInv
  BY InitInv, NextInv, PTL DEF Spec

(* Type correctness of the relay's lane. *)
THEOREM RelayTypes == Spec => []TypeOK
<1>1. RelayInv => TypeOK
  BY DEF RelayInv
<1>. QED
  BY <1>1, RelayInvariant, PTL

(***************************************************************************)
(* A command whose read-back was confirmed took effect, and stays so until *)
(* a newer command's write is executed: no delayed write, late answer or   *)
(* failed callback of _verify_relay_outcome undoes it.                     *)
(***************************************************************************)
THEOREM ConfirmedTakesEffect == Spec => []ConfirmedHolds
<1>1. RelayInv => ConfirmedHolds
  BY DEF RelayInv
<1>. QED
  BY <1>1, RelayInvariant, PTL

(***************************************************************************)
(* A command's file is only ever given up after its write was executed,    *)
(* for a newer command, or past its deadline (_finalize_loaded_command,    *)
(* _drop_expired_command and enqueue).                                     *)
(***************************************************************************)
THEOREM RetiredWhenServed == Spec => RetiredOnlyWhenServed
<1>. DEFINE Retired == file # NoCommand /\ ~Pending(file)'
            Served  == \/ file' # NoCommand /\ file'.rev > file.rev
                       \/ written.rev = file.rev
                       \/ Expired(file)
<1>1. ASSUME RelayInv, [Next]_vars, Retired PROVE Served
  <2>0. /\ TypeOK /\ file \in Command /\ file \in Held /\ file.rev \in Nat
        /\ file' # file
        /\ file' # NoCommand => file'.rev # file.rev
    <3>1. TypeOK /\ file \in Held /\ file \in Command
      BY <1>1 DEF RelayInv, Held, TypeOK
    <3>2. file.rev \in Nat
      BY <3>1, RelayAssumption DEF Command
    <3>. QED
      BY <1>1, <3>1, <3>2 DEF Pending
  <2>1. ASSUME NEW c \in Held, Progressed(c), c.val.phase = "verify" => written.rev >= c.rev
        PROVE  Served
    <3>1. file.rev = c.rev /\ file' = NoCommand /\ c.val.phase = "verify"
      BY <2>0, <2>1, NoCommandAssumption DEF Progressed
    <3>2. written.rev >= file.rev /\ written.rev <= file.rev
      BY <1>1, <2>0, <2>1, <3>1 DEF RelayInv, InOrder
    <3>3. written.rev \in Int
      BY <2>0, Types
    <3>. QED
      BY <2>0, <3>2, <3>3
  <2>2. \A c \in Held : c.val.phase = "verify" => written.rev >= c.rev
    BY <1>1 DEF RelayInv, VerifiedWasWritten
  <2>3. CASE \E on \in BOOLEAN : SetEnabled(on)
    <3>1. PICK on \in BOOLEAN : SetEnabled(on)
      BY <2>3
    <3>2. file' \in Command /\ file'.rev = issued + 1
      BY <2>0, <3>1, EnqueueProperties DEF SetEnabled
    <3>3. file.rev <= issued /\ issued \in Nat
      BY <1>1, <2>0, Types DEF RelayInv, InOrder
    <3>4. file' # NoCommand
      BY <3>2, NoCommandAssumption
    <3>5. file'.rev > file.rev
      BY <2>0, <3>2, <3>3
    <3>. QED
      BY <3>4, <3>5
  <2>4. CASE DeadlinePasses \/ NotBeforePasses
    <3>1. \/ file' = [file EXCEPT !.at = Late]
          \/ file' = [file EXCEPT !.val.ready = TRUE]
      <4>1. CASE DeadlinePasses
        BY <4>1 DEF DeadlinePasses, Aged
      <4>2. CASE NotBeforePasses
        BY <4>2 DEF NotBeforePasses, Due
      <4>. QED
        BY <2>4, <4>1, <4>2
    <3>2. file'.rev = file.rev /\ file' \in Command
      <4>1. file.val \in Progress
        BY <2>0, RelayAssumption DEF Command
      <4>2. CASE file' = [file EXCEPT !.at = Late]
        BY <2>0, <4>2, RelayAssumption DEF Command
      <4>3. CASE file' = [file EXCEPT !.val.ready = TRUE]
        BY <2>0, <4>1, <4>3, RelayAssumption DEF Command, Progress
      <4>. QED
        BY <3>1, <4>2, <4>3
    <3>. QED
      BY <2>0, <3>2, NoCommandAssumption
  <2>5. CASE DropExpired
    <3>1. /\ tick[1] \in Held /\ file.rev = tick[1].rev /\ Expired(tick[1])
          /\ DOMAIN tick = {1}
      BY <2>0, <2>5, Types DEF DropExpired, AfterRemoveIfCurrent, IsCurrent, Held
    <3>2. tick[1].at = file.at /\ tick[1].val.on = file.val.on
      BY <1>1, <2>0, <3>1 DEF RelayInv, Agree
    <3>. QED
      BY <3>1, <3>2 DEF Expired
  <2>6. ASSUME NEW r \in replies, Succeed(r) \/ Fail(r) \/ CallbackFails(r) PROVE Served
    <3>1. flight # NoFlight /\ flight.cmd \in Held /\ flight.cmd \in Command
      BY <2>0, <2>6, Types DEF Succeed, Fail, CallbackFails, Take, Held
    <3>2. \/ OnSuccess(flight.cmd, r.answer) \/ OnError(flight.cmd) \/ UNCHANGED file
      BY <2>6 DEF Succeed, Fail, CallbackFails, ErrorCallback
    <3>3. Progressed(flight.cmd)
      BY <1>1, <2>0, <3>1, <3>2, SuccessProgresses, ErrorProgresses
         DEF RelayInv, OneRetry, Progressed
    <3>. QED
      BY <2>1, <2>2, <3>1, <3>3
  <2>7. CASE Timeout
    <3>1. flight # NoFlight /\ flight.cmd \in Held /\ flight.cmd \in Command
      BY <2>0, <2>7, Types DEF Timeout, Held
    <3>2. Progressed(flight.cmd)
      BY <2>0, <2>7, <3>1, ErrorProgresses DEF Timeout, ErrorCallback, Progressed
    <3>. QED
      BY <2>1, <2>2, <3>1, <3>2
  <2>8. CASE UNCHANGED file
    BY <2>0, <2>8
  <2>. QED
    BY <1>1, <2>3, <2>4, <2>5, <2>6, <2>7, <2>8
       DEF Next, Serve, ServeRead, ServeFunction, ServeRelay, Refuse, BeginTick, EndTick,
           Dispatch, IgnoreLate, Crash, vars
<1>2. ASSUME RelayInv, [Next]_vars PROVE [Retired => Served]_vars
  BY <1>1, <1>2
<1>. QED
  BY <1>2, RelayInvariant, PTL DEF Spec, RetiredOnlyWhenServed

(***************************************************************************)
(* The gateway's health: latches, and what is published of them.           *)
(***************************************************************************)
HealthLevels == {"ok", "degraded", "protective"}
HealthLatches == [state : HealthLevels, target : HealthLevels \cup {"none"}, age : Nat]
ResourceStates == {"ok", "busy", "constrained"}
ResourceLatches == [state : ResourceStates, target : ResourceStates \cup {"none"}, age : Nat]

LEMMA HealthConstants ==
    HealthHold \in Nat \ {0} /\ ResourceHold \in Nat
BY HealthAssumption DEF HealthAssumption

LEMMA LeastFacts ==
    ASSUME NEW a \in Nat, NEW b \in Nat
    PROVE  /\ Least(a, b) \in Nat /\ Least(a, b) <= a /\ Least(a, b) <= b
           /\ Least(a, b) = a \/ Least(a, b) = b
BY DEF Least

\* The latch follows a worse state at once and a better one after its hold.
LEMMA ObserveHealthFacts ==
    ASSUME NEW latch \in HealthLatches, NEW desired \in HealthLevels
    PROVE  /\ ObserveHealth(latch, desired) \in HealthLatches
           /\ \/ ObserveHealth(latch, desired) = Settled(desired)
              \/ /\ ObserveHealth(latch, desired).target = desired
                 /\ ObserveHealth(latch, desired).state = latch.state
                 /\ ObserveHealth(latch, desired).age = StableFor(latch, desired)
                 /\ desired # latch.state
           /\ HealthRank[ObserveHealth(latch, desired).state] < HealthRank[latch.state]
                => /\ ObserveHealth(latch, desired).state = desired
                   /\ latch.target = desired /\ latch.age >= HealthHold
           /\ ObserveHealth(latch, desired).state = "protective" /\ desired # "protective"
                => ObserveHealth(latch, desired).target # "none"
<1>1. HealthHold \in Nat \ {0}
  BY HealthConstants
<1>2. \A s \in HealthLevels : HealthRank[s] \in 0 .. 2
  BY DEF HealthRank, HealthLevels
<1>3. latch.state \in HealthLevels /\ latch.age \in Nat /\ desired # "none"
  BY DEF HealthLatches, HealthLevels
<1>4. Settled(desired) \in HealthLatches /\ Settled(desired).state = desired
  BY DEF Settled, HealthLatches
<1>5. StableFor(latch, desired) \in Nat
  BY <1>3 DEF StableFor
<1> DEFINE held == [latch EXCEPT !.target = desired, !.age = StableFor(latch, desired)]
<1>6. /\ held \in HealthLatches /\ held.target = desired /\ held.state = latch.state
      /\ held.age = StableFor(latch, desired)
  BY <1>5 DEF HealthLatches
<1>7. ObserveHealth(latch, desired) =
        IF HealthRank[desired] >= HealthRank[latch.state] THEN Settled(desired)
        ELSE IF StableFor(latch, desired) >= HealthHold THEN Settled(desired) ELSE held
  BY DEF ObserveHealth
<1> HIDE DEF held
<1>8. CASE HealthRank[desired] >= HealthRank[latch.state]
  <2>1. ObserveHealth(latch, desired) = Settled(desired)
    BY <1>7, <1>8
  <2> QED BY <1>2, <1>3, <1>4, <1>8, <2>1
<1>9. CASE HealthRank[desired] < HealthRank[latch.state] /\ StableFor(latch, desired) >= HealthHold
  <2>1. ObserveHealth(latch, desired) = Settled(desired)
    BY <1>2, <1>3, <1>7, <1>9
  <2>2. latch.target = desired /\ latch.age >= HealthHold
    BY <1>1, <1>3, <1>9 DEF StableFor
  <2> QED BY <1>4, <2>1, <2>2
<1>10. CASE HealthRank[desired] < HealthRank[latch.state] /\ ~(StableFor(latch, desired) >= HealthHold)
  <2>1. ObserveHealth(latch, desired) = held
    BY <1>2, <1>3, <1>7, <1>10
  <2>2. desired # latch.state
    BY <1>2, <1>3, <1>10
  <2> QED BY <1>2, <1>3, <1>6, <2>1, <2>2
<1> QED BY <1>2, <1>3, <1>8, <1>9, <1>10

\* What a control snapshot wants, and why it says it is protective.
LEMMA DesiredFacts ==
    ASSUME NEW breaker \in HealthLevels, NEW violated, NEW queue, NEW back, NEW protective \in BOOLEAN
    PROVE  /\ Performance(violated, queue, back, protective) \in HealthLevels
           /\ Higher(breaker, Performance(violated, queue, back, protective)) \in HealthLevels
           /\ breaker = "protective" \/ back = "protective" \/ protective
                <=> Higher(breaker, Performance(violated, queue, back, protective)) = "protective"
<1> DEFINE p == Performance(violated, queue, back, protective)
<1>1. p \in HealthLevels /\ (p = "protective" <=> back = "protective" \/ protective)
  BY DEF Performance, HealthLevels
<1> HIDE DEF p
<1>2. Higher(breaker, p) \in HealthLevels
  BY <1>1 DEF Higher
<1>3. breaker = "protective" \/ p = "protective" <=> Higher(breaker, p) = "protective"
  BY <1>1 DEF Higher, HealthRank, HealthLevels
<1> QED BY <1>1, <1>2, <1>3 DEF p

LEMMA CircuitFacts == ASSUME NEW left PROVE CircuitState(left) \in HealthLevels
BY DEF CircuitState, HealthLevels

\* The resource latch is constrained by a measured cause, or was so before.
LEMMA ResourceFacts ==
    ASSUME NEW latch \in ResourceLatches, NEW r
    PROVE  /\ ObserveResource(latch, r) \in ResourceLatches
           /\ ObserveResource(latch, r).state = "constrained"
                => latch.state = "constrained" \/ Causes(r) # {}
<1> DEFINE to == CandidateState(latch.state, r)
           held == [latch EXCEPT !.target = to, !.age = Recovery(latch, to)]
<1>1. latch.state \in ResourceStates /\ latch.age \in Nat
  BY DEF ResourceLatches
<1>2. to \in ResourceStates
  BY <1>1 DEF CandidateState, ResourceState, ResourceStates
<1>3. to = "constrained" => latch.state = "constrained" \/ Causes(r) # {}
  BY DEF CandidateState, ResourceState, Causes
<1> HIDE DEF to
<1>4. Recovery(latch, to) \in Nat
  BY <1>1 DEF Recovery
<1>5. held \in ResourceLatches /\ held.state = latch.state
  BY <1>2, <1>4 DEF ResourceLatches
<1>6. Settled(to) \in ResourceLatches /\ Settled(to).state = to
  BY <1>2 DEF Settled, ResourceLatches
<1>7. ObserveResource(latch, r) \in {Settled(to), held}
  BY DEF ObserveResource, to
<1> HIDE DEF held
<1> QED BY <1>3, <1>5, <1>6, <1>7

(***************************************************************************)
(* The invariant: what was published, the latches and the histories agree. *)
(***************************************************************************)
HealthShape ==
    /\ resourceLatch \in ResourceLatches /\ health \in HealthLatches
    /\ calm \in Nat
    /\ snap \in [age : Nat, desired : HealthLevels, pressure : {snap.pressure}, cause : {snap.cause}]

HealthInv == HealthShape /\ HealthFollows /\ ProtectiveCauseHolds

LEMMA SnapshotKeeps ==
    ASSUME HealthInv, NEW left, NEW r, NEW violated, NEW queue, NEW demand,
           Snapshot(left, r, violated, queue, demand)
    PROVE  /\ HealthInv'
           /\ HealthRank[health'.state] < HealthRank[health.state]
                => health.target = health'.state /\ health.age >= HealthHold /\ calm >= HealthHold
<1> DEFINE breaker == CircuitState(left)
           res == ObserveResource(resourceLatch, r)
           causes == CaptureEvidence(resourceLatch.state, res.state, r)
           back == Backpressure(breaker, violated, queue)
           protective == ResourceProtective(res.state, causes)
           desired == Higher(breaker, Performance(violated, queue, back, protective))
           latched == ObserveHealth(health, desired)
           cause == ProtectiveCause(latched.state, breaker, back, protective)
           pressure == RuntimePressure(res.state, back)
<1>1. /\ resourceLatch' = [res EXCEPT !.age = IF res.target = "none" THEN 0 ELSE Least(@ + 1, ResourceHold)]
      /\ healthEvidence' = causes
      /\ healthEpisode' = IF res.state # "constrained" THEN {}
            ELSE (IF resourceLatch.state = "constrained" THEN healthEpisode ELSE {}) \cup Causes(r)
      /\ health' = [latched EXCEPT !.age = IF latched.target = "none" THEN 0 ELSE Least(@ + 1, HealthHold)]
      /\ calm' = IF desired = latched.state THEN 0 ELSE Least(calm + 1, HealthHold + 1)
      /\ snap' = [age |-> 0, desired |-> desired, pressure |-> pressure, cause |-> cause]
  BY DEF Snapshot
<1>2. /\ resourceLatch \in ResourceLatches /\ health \in HealthLatches /\ calm \in Nat
      /\ HealthHold \in Nat \ {0} /\ ResourceHold \in Nat
  BY HealthConstants DEF HealthInv, HealthShape
<1>3. breaker \in HealthLevels
  BY CircuitFacts
<1>4. /\ res \in ResourceLatches
      /\ res.state = "constrained" => resourceLatch.state = "constrained" \/ Causes(r) # {}
  BY <1>2, ResourceFacts
<1>5. protective \in BOOLEAN /\ (protective <=> res.state = "constrained" /\ causes \cap Critical # {})
  BY DEF ResourceProtective
<1>6. \/ causes = Causes(r) /\ res.state = "constrained"
         /\ (resourceLatch.state # "constrained" \/ Causes(r) \cap Critical # {})
      \/ causes = healthEvidence
         /\ ~(res.state = "constrained" /\ Causes(r) # {} /\ resourceLatch.state # "constrained")
  BY DEF CaptureEvidence
<1> HIDE DEF breaker, res, causes, back, protective
<1>7. /\ desired \in HealthLevels
      /\ breaker = "protective" \/ back = "protective" \/ protective <=> desired = "protective"
  BY <1>3, <1>5, DesiredFacts
<1> HIDE DEF desired
<1>8. /\ latched \in HealthLatches
      /\ \/ latched = Settled(desired)
         \/ latched.target = desired /\ latched.state = health.state /\ latched.age = StableFor(health, desired)
            /\ desired # health.state
      /\ HealthRank[latched.state] < HealthRank[health.state]
           => latched.state = desired /\ health.target = desired /\ health.age >= HealthHold
      /\ latched.state = "protective" /\ desired # "protective" => latched.target # "none"
  BY <1>2, <1>7, ObserveHealthFacts
<1>9. /\ cause = "none" <=> latched.state # "protective"
      /\ cause = "resource" => protective
      /\ cause = "recovery-hold"
           => latched.state = "protective" /\ ~protective /\ breaker # "protective" /\ back # "protective"
  BY <1>5 DEF ProtectiveCause
<1> HIDE DEF latched, cause, pressure
<1>10. /\ resourceLatch' \in ResourceLatches /\ resourceLatch'.state = res.state
       /\ health' \in HealthLatches /\ health'.state = latched.state /\ health'.target = latched.target
       /\ latched.target # "none" => health'.age = Least(latched.age + 1, HealthHold)
  <2> DEFINE a == IF res.target = "none" THEN 0 ELSE Least(res.age + 1, ResourceHold)
             b == IF latched.target = "none" THEN 0 ELSE Least(latched.age + 1, HealthHold)
  <2>1. resourceLatch' = [res EXCEPT !.age = a] /\ health' = [latched EXCEPT !.age = b]
    BY <1>1
  <2>2. res.age + 1 \in Nat /\ latched.age + 1 \in Nat
    BY <1>4, <1>8 DEF ResourceLatches, HealthLatches
  <2>3. a \in Nat /\ b \in Nat
    BY <1>2, <2>2, LeastFacts
  <2>4. latched.target # "none" => b = Least(latched.age + 1, HealthHold)
    OBVIOUS
  <2> HIDE DEF a, b
  <2>5. resourceLatch' \in ResourceLatches /\ resourceLatch'.state = res.state
    BY <1>4, <2>1, <2>3 DEF ResourceLatches
  <2>6. /\ health' \in HealthLatches /\ health'.state = latched.state /\ health'.target = latched.target
        /\ health'.age = b
    BY <1>8, <2>1, <2>3 DEF HealthLatches
  <2> QED BY <2>4, <2>5, <2>6
<1>11. calm' \in Nat /\ (desired # latched.state => calm' = Least(calm + 1, HealthHold + 1))
  <2>1. calm + 1 \in Nat /\ HealthHold + 1 \in Nat
    BY <1>2
  <2> QED BY <1>1, <2>1, LeastFacts
<1>12. HealthShape'
  <2>1. snap' \in [age : Nat, desired : HealthLevels, pressure : {snap'.pressure}, cause : {snap'.cause}]
    BY <1>1, <1>7
  <2> QED BY <1>10, <1>11, <2>1 DEF HealthShape
<1>13. healthEvidence' \cap Critical # {} /\ res.state = "constrained" => healthEpisode' \cap Critical # {}
  <2> SUFFICES ASSUME healthEvidence' \cap Critical # {}, res.state = "constrained"
               PROVE  healthEpisode' \cap Critical # {}
    OBVIOUS
  <2>1. CASE causes = Causes(r)
    BY <1>1, <2>1
  <2>2. CASE causes = healthEvidence /\ ~(Causes(r) # {} /\ resourceLatch.state # "constrained")
    <3>1. resourceLatch.state = "constrained"
      BY <1>4, <2>2
    <3>2. healthEpisode \cap Critical # {}
      BY <1>1, <2>2, <3>1 DEF HealthInv, HealthFollows
    <3> QED BY <1>1, <3>1, <3>2
  <2> QED BY <1>6, <2>1, <2>2
<1>14. health'.target # "none" => health'.age <= calm'
  <2> SUFFICES ASSUME latched.target # "none"
               PROVE  Least(latched.age + 1, HealthHold) <= calm'
    BY <1>10
  <2>1. latched.target = desired /\ desired # latched.state /\ latched.age = StableFor(health, desired)
    BY <1>8 DEF Settled
  <2>2. health.age \in Nat /\ calm \in Nat /\ desired # "none"
    BY <1>2, <1>7 DEF HealthLatches, HealthLevels
  <2>3. StableFor(health, desired) \in Nat /\ StableFor(health, desired) <= calm
    BY <2>2 DEF StableFor, HealthInv, HealthFollows
  <2> HIDE DEF HealthInv
  <2>4. calm' = Least(calm + 1, HealthHold + 1)
    BY <1>11, <2>1
  <2> QED BY <1>2, <2>1, <2>2, <2>3, <2>4 DEF Least
<1>15. snap'.cause = cause /\ snap'.desired = desired
  BY <1>1
<1>16. HealthFollows'
  BY <1>10, <1>13, <1>14 DEF HealthFollows
<1>17. ProtectiveCauseHolds'
  <2>1. cause = "resource" => res.state = "constrained" /\ healthEpisode' \cap Critical # {}
    BY <1>1, <1>5, <1>9, <1>13
  <2>2. cause = "recovery-hold" => desired # "protective" /\ latched.target # "none"
    BY <1>7, <1>8, <1>9
  <2> QED BY <1>9, <1>10, <1>15, <2>1, <2>2 DEF ProtectiveCauseHolds
<1>18. HealthRank[health'.state] < HealthRank[health.state]
         => health.target = health'.state /\ health.age >= HealthHold /\ calm >= HealthHold
  <2> SUFFICES ASSUME HealthRank[latched.state] < HealthRank[health.state]
               PROVE  health.target = latched.state /\ health.age >= HealthHold /\ calm >= HealthHold
    BY <1>10
  <2>1. health.target = latched.state /\ health.age >= HealthHold /\ health.target # "none"
    BY <1>7, <1>8 DEF HealthLevels
  <2>2. health.age <= calm /\ health.age \in Nat
    BY <1>2, <2>1 DEF HealthInv, HealthFollows, HealthLatches
  <2> QED BY <1>2, <2>1, <2>2
<1> QED BY <1>12, <1>16, <1>17, <1>18 DEF HealthInv

\* A tick without a snapshot changes nothing of it but its age.
LEMMA HealthStep ==
    ASSUME HealthInv, [HealthNext]_healthVars
    PROVE  /\ HealthInv'
           /\ HealthRank[health'.state] < HealthRank[health.state]
                => health.target = health'.state /\ health.age >= HealthHold /\ calm >= HealthHold
<1>1. health.state \in HealthLevels
  BY DEF HealthInv, HealthShape, HealthLatches
<1>2. ~(HealthRank[health.state] < HealthRank[health.state])
  <2>1. HealthRank[health.state] \in Int
    BY <1>1 DEF HealthRank, HealthLevels
  <2> QED BY <2>1
<1>3. CASE UNCHANGED healthVars
  BY <1>2, <1>3 DEF healthVars, HealthInv, HealthShape, HealthFollows, ProtectiveCauseHolds
<1>4. CASE snap' = [snap EXCEPT !.age = @ + 1]
            /\ UNCHANGED <<resourceLatch, healthEvidence, healthEpisode, health, calm, budget, pace>>
  <2>1. snap \in [age : Nat, desired : HealthLevels, pressure : {snap.pressure}, cause : {snap.cause}]
    BY DEF HealthInv, HealthShape
  <2>2. /\ snap' \in [age : Nat, desired : HealthLevels, pressure : {snap.pressure}, cause : {snap.cause}]
        /\ snap'.desired = snap.desired /\ snap'.cause = snap.cause /\ snap'.pressure = snap.pressure
    BY <1>4, <2>1
  <2>3. HealthShape'
    BY <1>4, <2>2 DEF HealthInv, HealthShape
  <2>4. HealthFollows' /\ ProtectiveCauseHolds'
    BY <1>4, <2>2 DEF HealthInv, HealthFollows, ProtectiveCauseHolds
  <2> QED BY <1>2, <1>4, <2>3, <2>4 DEF HealthInv
<1>5. ASSUME NEW left, NEW r, NEW violated, NEW queue, NEW demand, Snapshot(left, r, violated, queue, demand)
      PROVE  /\ HealthInv'
             /\ HealthRank[health'.state] < HealthRank[health.state]
                  => health.target = health'.state /\ health.age >= HealthHold /\ calm >= HealthHold
  BY <1>5, SnapshotKeeps
<1> QED BY <1>3, <1>4, <1>5 DEF HealthNext, HealthTick

LEMMA HealthStarts == HealthInit => HealthInv
<1> SUFFICES ASSUME HealthInit PROVE HealthInv
  OBVIOUS
<1>1. /\ resourceLatch = Settled("ok") /\ health = Settled("ok") /\ calm = 0 /\ healthEvidence = {}
      /\ snap = [age |-> SnapshotTicks, desired |-> "ok", pressure |-> "ok", cause |-> "none"]
  BY DEF HealthInit
<1>2. SnapshotTicks \in Nat
  BY HealthAssumption DEF HealthAssumption
<1>3. HealthShape
  BY <1>1, <1>2 DEF HealthShape, HealthLatches, ResourceLatches, Settled, HealthLevels, ResourceStates
<1>4. HealthFollows /\ ProtectiveCauseHolds
  BY <1>1 DEF HealthFollows, ProtectiveCauseHolds, Settled
<1> QED BY <1>3, <1>4 DEF HealthInv

\* The cause published with a protective state is true, for any metrics,
\* windows and holds (health/state.py:47).
THEOREM CausesAreTrue == HealthSpec => []ProtectiveCauseHolds
<1>1. HealthInv /\ [HealthNext]_healthVars => HealthInv'
  BY HealthStep
<1>2. HealthInv => ProtectiveCauseHolds
  BY DEF HealthInv
<1> QED BY <1>1, <1>2, HealthStarts, PTL DEF HealthSpec

\* The published state falls only to a state wanted for the whole hold
\* (health/state.py:88).
THEOREM RecoveryIsCalm == HealthSpec => RecoveryNeedsCalm
<1>1. HealthInv /\ [HealthNext]_healthVars => HealthInv'
  BY HealthStep
<1>2. HealthInv /\ [HealthNext]_healthVars
        => [HealthRank[health'.state] < HealthRank[health.state] =>
              health.target = health'.state /\ health.age >= HealthHold /\ calm >= HealthHold]_healthVars
  BY HealthStep
<1> QED BY <1>1, <1>2, HealthStarts, PTL DEF HealthSpec, RecoveryNeedsCalm

(***************************************************************************)
(* The updater: whatever it is killed at, the releases its links name are  *)
(* whole, as long as no updater lost its lock.                             *)
(***************************************************************************)
Early == {"new", "lock", "own", "inspect", "steal", "retake", "fetch", "stage", "promote", "move"}
Unnamed == {"new", "lock", "own", "inspect", "steal", "retake", "fetch"}
Unlocking == {"new", "ended", "killed", "lock", "inspect", "steal", "retake"}
AtWork(x) == x.pc \notin Unlocking
Releasing(x) == x.kind = "manifest" /\ ~x.dry

Intact(tree) == tree # NoTree /\ Unmixed(tree)
NameOk(r, name) == name \in Bundles \X {0, 1, 1 + r}

\* The shape of a run's record.
ShapeOf(x) == [pc : {x.pc}, kind : {x.kind}, dry : {x.dry}, bundle : {x.bundle}, name : {x.name},
               tree : {x.tree}]

\* What a run may rely on, and what is left for it to create.
RunOk(r, x, rel) ==
    /\ x \in ShapeOf(x)
    /\ x.pc \in Early => \A b \in Bundles : rel[<<b, 1 + r>>] = NoTree
    /\ x.pc \in Unnamed => x.name = NoName
    /\ x.pc \in Early \ {"new"} => x.bundle \in Bundles
    /\ x.pc \in {"stage", "promote"} /\ Releasing(x) => NameOk(r, x.name)
    /\ x.pc = "promote" /\ Releasing(x) => Intact(x.tree)
    /\ x.pc \in {"move", "remember", "unlink", "link"} => NameOk(r, x.name)
    /\ x.pc = "move" => Intact(x.tree)

\* What the run that holds the lock finds at the name it chose.
OwnOk(x, rel) ==
    /\ x.pc \in {"stage", "promote"} /\ Releasing(x) => rel[x.name] = NoTree
    /\ x.pc = "move" => rel[x.name] = NoTree
    /\ x.pc \in {"remember", "unlink", "link"} => Intact(rel[x.name])

LinkOk(link, rel) == link = NoName \/ (link \in Names /\ Intact(rel[link]))

BootShape ==
    /\ DOMAIN run = Runs /\ DOMAIN releases = Names
    /\ lockDir \in [made : BOOLEAN, pid : Runs \cup {0}, by : Runs \cup {0}]
    /\ lockDir.made => lockDir.by \in Runs
    /\ stolen \in BOOLEAN

Alone == \A r \in Runs : AtWork(run[r]) => lockDir.made /\ lockDir.by = r

BootInv ==
    /\ BootShape
    /\ \A r \in Runs : RunOk(r, run[r], releases)
    /\ ~stolen => /\ Alone
                  /\ \A r \in Runs : OwnOk(run[r], releases)
                  /\ LinkOk(current, releases) /\ LinkOk(previous, releases)

LEMMA BootConstants ==
    /\ MaxRuns \in Nat \ {0} /\ 0 \notin Bundles /\ NoName \notin Names
    /\ \A r \in Runs : r \in Nat /\ r >= 1 /\ 0 \notin Runs
    /\ \A r \in Runs : \A name : NameOk(r, name) => name \in Names
<1>1. MaxRuns \in Nat \ {0} /\ 0 \notin Bundles
  BY BootAssumption DEF BootAssumption
<1>2. \A r \in Runs : r \in Nat /\ r >= 1 /\ 0 \notin Runs
  BY <1>1 DEF Runs
<1>3. NoName \notin Names
  BY <1>1 DEF NoName, Names, NoBundle
<1>4. ASSUME NEW r \in Runs, NEW name, NameOk(r, name)
      PROVE  name \in Names
  <2>1. {0, 1, 1 + r} \subseteq 0 .. MaxRuns + 1
    BY <1>1 DEF Runs
  <2> QED BY <1>4, <2>1 DEF NameOk, Names
<1> QED BY <1>1, <1>2, <1>3, <1>4

\* A run goes on, and the releases and their links stay as they are.
LEMMA RunStays ==
    ASSUME BootInv, NEW r \in Runs, NEW x, run' = [run EXCEPT ![r] = x],
           UNCHANGED <<releases, current, previous>>, RunOk(r, x, releases),
           lockDir' \in [made : BOOLEAN, pid : Runs \cup {0}, by : Runs \cup {0}],
           lockDir'.made => lockDir'.by \in Runs,
           stolen' \in BOOLEAN, stolen => stolen',
           ~stolen' => OwnOk(x, releases) /\ Alone'
    PROVE  BootInv'
<1>1. DOMAIN run' = Runs /\ run'[r] = x /\ \A q \in Runs \ {r} : run'[q] = run[q]
  BY DEF BootInv, BootShape
<1>2. BootShape'
  BY <1>1 DEF BootInv, BootShape
<1>3. \A q \in Runs : RunOk(q, run'[q], releases')
  BY <1>1 DEF BootInv
<1>4. ASSUME ~stolen'
      PROVE  /\ Alone' /\ \A q \in Runs : OwnOk(run'[q], releases')
             /\ LinkOk(current', releases') /\ LinkOk(previous', releases')
  BY <1>1, <1>4 DEF BootInv
<1> QED BY <1>2, <1>3, <1>4 DEF BootInv

\* With its lock untouched a run may not become one that works.
LEMMA StaysAlone ==
    ASSUME BootInv, NEW r \in Runs, NEW x, run' = [run EXCEPT ![r] = x],
           UNCHANGED <<lockDir, stolen>>, AtWork(x) => AtWork(run[r])
    PROVE  ~stolen' => Alone'
<1>1. run'[r] = x /\ \A q \in Runs \ {r} : run'[q] = run[q]
  BY DEF BootInv, BootShape
<1> QED BY <1>1 DEF BootInv, Alone

\* A run that works goes on, and the releases, their links and the lock stay.
LEMMA RunGoes ==
    ASSUME BootInv, NEW r \in Runs, NEW x, run' = [run EXCEPT ![r] = x],
           UNCHANGED <<releases, current, previous, lockDir, stolen>>,
           AtWork(run[r]), RunOk(r, x, releases), ~stolen => OwnOk(x, releases)
    PROVE  BootInv'
<1>1. ~stolen' => Alone'
  BY StaysAlone
<1>2. /\ lockDir' \in [made : BOOLEAN, pid : Runs \cup {0}, by : Runs \cup {0}]
      /\ lockDir'.made => lockDir'.by \in Runs
      /\ stolen' = stolen /\ stolen' \in BOOLEAN
  BY DEF BootInv, BootShape
<1>3. UNCHANGED <<releases, current, previous>>
  OBVIOUS
<1>4. stolen => stolen'
  BY <1>2
<1>5. ~stolen' => OwnOk(x, releases) /\ Alone'
  BY <1>1, <1>2
<1> QED BY <1>2, <1>3, <1>4, <1>5, RunStays

LEMMA EndedFacts ==
    ASSUME NEW r \in Runs, NEW p \in {"ended", "killed"}
    PROVE  /\ RunOk(r, [NewRun EXCEPT !.pc = p], releases) /\ OwnOk([NewRun EXCEPT !.pc = p], releases)
           /\ ~AtWork([NewRun EXCEPT !.pc = p])
<1> DEFINE x == [NewRun EXCEPT !.pc = p]
<1>1. x \in ShapeOf(x) /\ x.pc = p
  BY DEF NewRun, ShapeOf
<1> HIDE DEF x
<1>2. RunOk(r, x, releases) /\ OwnOk(x, releases) /\ ~AtWork(x)
  BY <1>1 DEF RunOk, OwnOk, AtWork, Early, Unnamed, Unlocking
<1> QED BY <1>2 DEF x

LEMMA RunEnds ==
    ASSUME BootInv, NEW r \in Runs, NEW holds \in BOOLEAN, FinalizeRun(r, holds),
           UNCHANGED <<releases, current, previous>>, holds => AtWork(run[r])
    PROVE  BootInv'
<1> DEFINE x == [NewRun EXCEPT !.pc = "ended"]
<1>1. run' = [run EXCEPT ![r] = x]
  BY DEF FinalizeRun
<1>2. RunOk(r, x, releases) /\ OwnOk(x, releases) /\ ~AtWork(x)
  BY EndedFacts
<1> HIDE DEF x
<1>3. /\ lockDir' = IF holds THEN Unlocked ELSE lockDir
      /\ stolen' = (stolen \/ (holds /\ lockDir.by \notin {0, r}))
  BY DEF FinalizeRun
<1>4. /\ lockDir \in [made : BOOLEAN, pid : Runs \cup {0}, by : Runs \cup {0}]
      /\ lockDir.made => lockDir.by \in Runs
      /\ stolen \in BOOLEAN
  BY DEF BootInv, BootShape
<1>5. /\ lockDir' \in [made : BOOLEAN, pid : Runs \cup {0}, by : Runs \cup {0}]
      /\ lockDir'.made => lockDir'.by \in Runs
      /\ stolen' \in BOOLEAN /\ (stolen => stolen')
  BY <1>3, <1>4 DEF Unlocked
<1>6. ~stolen' => Alone'
  <2> SUFFICES ASSUME ~stolen', NEW q \in Runs, AtWork(run'[q])
               PROVE  lockDir'.made /\ lockDir'.by = q
    BY DEF Alone
  <2>1. q # r /\ run'[q] = run[q] /\ Alone
    BY <1>1, <1>2, <1>5 DEF BootInv, BootShape
  <2>2. lockDir.made /\ lockDir.by = q
    BY <2>1 DEF Alone
  <2>3. ~holds
    BY <2>1, <2>2 DEF Alone
  <2> QED BY <1>3, <2>2, <2>3
<1> QED BY <1>1, <1>2, <1>5, <1>6, RunStays

\* Before a run has its source it has no name, and any such step is as good as another.
LEMMA UnnamedGoes ==
    ASSUME BootInv, NEW r \in Runs, run[r].pc \in Unnamed \ {"new"}, NEW p \in Unnamed \ {"new"}
    PROVE  /\ RunOk(r, [run[r] EXCEPT !.pc = p], releases) /\ OwnOk([run[r] EXCEPT !.pc = p], releases)
           /\ [run[r] EXCEPT !.pc = p].pc = p
<1> DEFINE x == [run[r] EXCEPT !.pc = p]
<1>1. RunOk(r, run[r], releases)
  BY DEF BootInv
<1>2. x \in ShapeOf(x) /\ x.pc = p /\ x.name = run[r].name /\ x.bundle = run[r].bundle
  BY <1>1 DEF RunOk, ShapeOf
<1> HIDE DEF x
<1>3. p \in Unnamed /\ p \in Early \ {"new"} /\ p \notin {"stage", "promote", "move", "remember", "unlink", "link"}
  BY DEF Unnamed, Early
<1>4. run[r].pc \in Unnamed /\ run[r].pc \in Early \ {"new"}
  BY DEF Unnamed, Early
<1>5. RunOk(r, x, releases) /\ OwnOk(x, releases)
  BY <1>1, <1>2, <1>3, <1>4 DEF RunOk, OwnOk
<1> QED BY <1>2, <1>5 DEF x

\* The lock directory is made, written into, and taken over.
LEMMA LockKeeps ==
    ASSUME BootInv, NEW r \in Runs,
           StartUpdate(r) \/ MakeLock(r) \/ WritePid(r) \/ InspectLock(r)
             \/ RemoveStaleLock(r) \/ RetakeLock(r) \/ Kill(r)
    PROVE  BootInv'
<1> DEFINE Locks == [made : BOOLEAN, pid : Runs \cup {0}, by : Runs \cup {0}]
           X(p) == [run[r] EXCEPT !.pc = p]
<1>1. /\ DOMAIN run = Runs /\ lockDir \in Locks /\ (lockDir.made => lockDir.by \in Runs)
      /\ stolen \in BOOLEAN /\ (stolen => stolen)
  BY DEF BootInv, BootShape
<1>2. CASE StartUpdate(r)
  <2>1. PICK kind \in {"manifest", "direct"}, b \in Bundles, dry \in BOOLEAN :
          run' = [run EXCEPT ![r] = [NewRun EXCEPT !.pc = "lock", !.kind = kind, !.dry = dry, !.bundle = b]]
    BY <1>2 DEF StartUpdate
  <2> DEFINE x == [NewRun EXCEPT !.pc = "lock", !.kind = kind, !.dry = dry, !.bundle = b]
  <2>2. x \in ShapeOf(x) /\ x.pc = "lock" /\ x.name = NoName /\ x.bundle = b
    BY DEF NewRun, ShapeOf
  <2>3. run' = [run EXCEPT ![r] = x]
    BY <2>1
  <2> HIDE DEF x
  <2>4. \A c \in Bundles : releases[<<c, 1 + r>>] = NoTree
    BY <1>2 DEF StartUpdate, At, BootInv, RunOk, Early
  <2>5. RunOk(r, x, releases) /\ OwnOk(x, releases) /\ ~AtWork(x)
    BY <2>2, <2>4 DEF RunOk, OwnOk, AtWork, Unnamed, Unlocking
  <2>6. UNCHANGED <<lockDir, stolen>> /\ UNCHANGED <<releases, current, previous>>
    BY <1>2 DEF StartUpdate, disk
  <2>7. ~stolen' => Alone'
    BY <2>3, <2>5, <2>6, StaysAlone
  <2> QED BY <1>1, <2>3, <2>5, <2>6, <2>7, RunStays
<1>3. CASE Kill(r)
  <2> DEFINE x == [NewRun EXCEPT !.pc = "killed"]
  <2>1. run' = [run EXCEPT ![r] = x]
    BY <1>3 DEF Kill
  <2>2. RunOk(r, x, releases) /\ OwnOk(x, releases) /\ ~AtWork(x)
    BY EndedFacts
  <2> HIDE DEF x
  <2>3. UNCHANGED <<lockDir, stolen>> /\ UNCHANGED <<releases, current, previous>>
    BY <1>3 DEF Kill, disk
  <2>4. ~stolen' => Alone'
    BY <2>1, <2>2, <2>3, StaysAlone
  <2> QED BY <1>1, <2>1, <2>2, <2>3, <2>4, RunStays
<1>4. ASSUME NEW p \in Unnamed \ {"new"}, run[r].pc \in Unnamed \ {"new"}, GoTo(r, p),
             UNCHANGED <<releases, current, previous>>, lockDir' \in Locks,
             lockDir'.made => lockDir'.by \in Runs,
             stolen' \in BOOLEAN, stolen => stolen', ~stolen' => Alone'
      PROVE  BootInv'
  <2>1. run' = [run EXCEPT ![r] = X(p)]
    BY <1>4 DEF GoTo
  <2>2. RunOk(r, X(p), releases) /\ OwnOk(X(p), releases)
    BY <1>4, UnnamedGoes
  <2> HIDE DEF X
  <2> QED BY <1>4, <2>1, <2>2, RunStays
<1>5. ASSUME NEW p, GoTo(r, p)
      PROVE  run'[r].pc = p /\ \A q \in Runs \ {r} : run'[q] = run[q]
  <2>1. run' = [run EXCEPT ![r] = X(p)]
    BY <1>5 DEF GoTo
  <2>2. X(p).pc = p
    BY DEF BootInv, RunOk, ShapeOf
  <2> HIDE DEF X
  <2> QED BY <1>1, <2>1, <2>2
<1>6. ASSUME ~lockDir.made, ~stolen', stolen' = stolen
      PROVE  \A q \in Runs : ~AtWork(run[q])
  BY <1>6 DEF BootInv, Alone
<1>7. CASE (MakeLock(r) \/ RetakeLock(r)) /\ ~lockDir.made
  <2>1. /\ run[r].pc \in Unnamed \ {"new"} /\ GoTo(r, "own")
        /\ lockDir' = [made |-> TRUE, pid |-> 0, by |-> r]
        /\ stolen' = stolen /\ UNCHANGED <<releases, current, previous>> /\ "own" \in Unnamed \ {"new"}
    BY <1>7 DEF MakeLock, RetakeLock, At, Unnamed, disk
  <2>2. lockDir' \in Locks /\ lockDir'.made /\ lockDir'.by = r
    BY <2>1
  <2>3. ~stolen' => Alone'
    BY <1>5, <1>6, <1>7, <2>1, <2>2 DEF Alone
  <2> QED BY <1>1, <1>4, <2>1, <2>2, <2>3
<1>8. CASE MakeLock(r) /\ lockDir.made
  <2>1. /\ run[r].pc \in Unnamed \ {"new"} /\ GoTo(r, "inspect") /\ lockDir' = lockDir
        /\ stolen' = stolen /\ UNCHANGED <<releases, current, previous>> /\ "inspect" \in Unnamed \ {"new"}
    BY <1>8 DEF MakeLock, At, Unnamed, disk
  <2>2. ~stolen' => Alone'
    BY <1>5, <2>1 DEF Alone, BootInv, AtWork, Unlocking
  <2> QED BY <1>1, <1>4, <2>1, <2>2
<1>9. CASE WritePid(r)
  <2>1. /\ run[r].pc = "own" /\ run[r].pc \in Unnamed \ {"new"} /\ GoTo(r, "fetch")
        /\ lockDir' = IF lockDir.made THEN [lockDir EXCEPT !.pid = r] ELSE lockDir
        /\ stolen' = stolen /\ UNCHANGED <<releases, current, previous>> /\ "fetch" \in Unnamed \ {"new"}
    BY <1>9 DEF WritePid, At, Unnamed, disk
  <2>2. lockDir' \in Locks /\ lockDir'.made = lockDir.made /\ lockDir'.by = lockDir.by
    BY <1>1, <2>1
  <2>3. AtWork(run[r])
    BY <2>1 DEF AtWork, Unlocking
  <2>4. ~stolen' => Alone'
    BY <1>5, <2>1, <2>2, <2>3 DEF Alone, BootInv
  <2> QED BY <1>1, <1>4, <2>1, <2>2, <2>4
<1>10. CASE InspectLock(r) /\ GoTo(r, "steal")
  <2>1. /\ run[r].pc \in Unnamed \ {"new"} /\ "steal" \in Unnamed \ {"new"}
        /\ UNCHANGED <<releases, current, previous>>
    BY <1>10 DEF InspectLock, At, Unnamed, disk
  <2>2. run[r].pc = "inspect"
    BY <1>10 DEF InspectLock, At
  <2>3. CASE lockDir' = lockDir /\ stolen' = stolen
    <3>1. ~stolen' => Alone'
      BY <1>5, <1>10, <2>3 DEF Alone, BootInv, AtWork, Unlocking
    <3> QED BY <1>1, <1>4, <1>10, <2>1, <2>3, <3>1
  <2>4. CASE FinalizeRun(r, FALSE)
    BY <2>1, <2>4, RunEnds
  <2> QED BY <1>10, <2>3, <2>4 DEF InspectLock
<1>11. CASE FinalizeRun(r, FALSE) /\ (InspectLock(r) \/ RetakeLock(r))
  <2>1. UNCHANGED <<releases, current, previous>>
    BY <1>11 DEF InspectLock, RetakeLock, disk
  <2> QED BY <1>11, <2>1, RunEnds
<1>12. CASE RemoveStaleLock(r)
  <2>1. /\ run[r].pc \in Unnamed \ {"new"} /\ GoTo(r, "retake") /\ lockDir' = Unlocked
        /\ stolen' = (stolen \/ (lockDir.made /\ Living(lockDir.by)))
        /\ UNCHANGED <<releases, current, previous>> /\ "retake" \in Unnamed \ {"new"}
    BY <1>12 DEF RemoveStaleLock, At, Unnamed, disk
  <2>2. lockDir' \in Locks /\ ~lockDir'.made
    BY <2>1 DEF Unlocked
  <2>3. ~stolen' => Alone'
    <3> SUFFICES ASSUME ~stolen', NEW q \in Runs, AtWork(run'[q])
                 PROVE  FALSE
      BY DEF Alone
    <3>1. q # r
      BY <1>5, <2>1 DEF AtWork, Unlocking
    <3>2. AtWork(run[q]) /\ lockDir.made /\ lockDir.by = q
      BY <1>5, <2>1, <3>1 DEF BootInv, Alone
    <3> QED BY <2>1, <3>2 DEF AtWork, Unlocking, Living
  <2>4. stolen' \in BOOLEAN /\ (stolen => stolen')
    BY <1>1, <2>1 DEF Living
  <2> QED BY <1>4, <2>1, <2>2, <2>3, <2>4
<1> QED BY <1>2, <1>3, <1>7, <1>8, <1>9, <1>10, <1>11, <1>12 DEF InspectLock, RetakeLock, MakeLock

\* A run that works ends, is refused, or goes on without touching the releases.
LEMMA WorkKeeps ==
    ASSUME BootInv, NEW r \in Runs,
           GiveUp(r) \/ SourceRefused(r) \/ AlreadyCurrent(r) \/ LayoutRefused(r) \/ PreviewDone(r)
             \/ VerifyDeployment(r) \/ WriteReceipt(r) \/ RecordInstallState(r)
             \/ RemoveItem(r) \/ CopyItem(r) \/ TargetCopied(r)
    PROVE  BootInv'
<1>1. CASE GiveUp(r) \/ SourceRefused(r) \/ AlreadyCurrent(r) \/ LayoutRefused(r) \/ PreviewDone(r)
            \/ (VerifyDeployment(r) /\ FinalizeRun(r, TRUE)) \/ WriteReceipt(r)
  <2>1. /\ FinalizeRun(r, TRUE) /\ UNCHANGED <<releases, current, previous>>
        /\ run[r].pc \in {"fetch", "stage", "promote", "receipt", "verify"}
    BY <1>1 DEF GiveUp, SourceRefused, AlreadyCurrent, LayoutRefused, PreviewDone, VerifyDeployment,
                WriteReceipt, At, disk
  <2>2. AtWork(run[r])
    BY <2>1 DEF AtWork, Unlocking
  <2> QED BY <2>1, <2>2, RunEnds
<1>2. CASE RemoveItem(r) \/ CopyItem(r)
  <2>1. UNCHANGED <<run, lockDir, releases, current, previous, stolen>>
    BY <1>2 DEF RemoveItem, CopyItem
  <2> QED BY <2>1 DEF BootInv, BootShape, RunOk, OwnOk, LinkOk, Alone
<1>3. CASE (VerifyDeployment(r) /\ GoTo(r, "record")) \/ RecordInstallState(r) \/ TargetCopied(r)
  <2>1. PICK p \in {"record", "receipt", "verify"} :
          /\ GoTo(r, p) /\ UNCHANGED <<releases, current, previous, lockDir, stolen>>
          /\ run[r].pc \in {"verify", "record", "promote"}
    <3>1. CASE VerifyDeployment(r) /\ GoTo(r, "record")
      <4>1. CASE UNCHANGED <<lockDir, stolen>>
        BY <3>1, <4>1 DEF VerifyDeployment, At, disk
      <4>2. CASE FinalizeRun(r, TRUE)
        <5>1. run' = [run EXCEPT ![r] = [NewRun EXCEPT !.pc = "ended"]]
          BY <4>2 DEF FinalizeRun
        <5>2. run'[r].pc = "ended"
          BY <5>1 DEF BootInv, BootShape, NewRun
        <5>3. run'[r].pc = "record"
          BY <3>1 DEF GoTo, BootInv, BootShape, RunOk, ShapeOf
        <5> QED BY <5>2, <5>3
      <4> QED BY <3>1, <4>1, <4>2 DEF VerifyDeployment
    <3>2. CASE RecordInstallState(r)
      BY <3>2 DEF RecordInstallState, At
    <3>3. CASE TargetCopied(r)
      BY <3>3 DEF TargetCopied, At
    <3> QED BY <1>3, <3>1, <3>2, <3>3
  <2>2. AtWork(run[r])
    BY <2>1 DEF AtWork, Unlocking
  <2> DEFINE x == [run[r] EXCEPT !.pc = p]
  <2>3. x \in ShapeOf(x) /\ x.pc = p
    BY DEF BootInv, RunOk, ShapeOf
  <2>4. run' = [run EXCEPT ![r] = x]
    BY <2>1 DEF GoTo
  <2> HIDE DEF x
  <2>5. RunOk(r, x, releases) /\ OwnOk(x, releases)
    BY <2>3 DEF RunOk, OwnOk, Early, Unnamed
  <2> QED BY <2>1, <2>2, <2>4, <2>5, RunGoes
<1> QED BY <1>1, <1>2, <1>3 DEF VerifyDeployment

\* The source is there: a release name that is free; the staged layout: items of one bundle.
LEMMA SourceKeeps ==
    ASSUME BootInv, NEW r \in Runs, SourceReady(r)
    PROVE  BootInv'
<1> DEFINE n == IF run[r].name = NoName /\ run[r].kind = "manifest" /\ ~run[r].dry
                THEN ReleaseName(r) ELSE NoName
           x == [run[r] EXCEPT !.pc = "stage", !.name = n]
<1>1. RunOk(r, run[r], releases) /\ run[r].pc = "fetch" /\ DOMAIN run = Runs
  BY DEF BootInv, BootShape, SourceReady, At
<1>2. run' = [run EXCEPT ![r] = x]
  <2>1. run' = [run EXCEPT ![r].pc = "stage",
                           ![r].name = IF @ = NoName /\ run[r].kind = "manifest" /\ ~run[r].dry
                                       THEN ReleaseName(r) ELSE NoName]
    BY DEF SourceReady
  <2> QED BY <1>1, <2>1
<1>3. run[r].bundle \in Bundles /\ \A b \in Bundles : releases[<<b, 1 + r>>] = NoTree
  BY <1>1 DEF RunOk, Early
<1>4. /\ x \in ShapeOf(x) /\ x.pc = "stage" /\ x.bundle = run[r].bundle /\ x.name = n
      /\ x.kind = run[r].kind /\ x.dry = run[r].dry
  BY <1>1 DEF RunOk, ShapeOf
<1>5. run[r].name = NoName
  BY <1>1 DEF RunOk, Unnamed
<1>6. NameOk(r, ReleaseName(r)) /\ releases[ReleaseName(r)] = NoTree
  <2> DEFINE b == run[r].bundle
  <2>1. CASE releases[<<b, 0>>] = NoTree
    BY <1>3, <2>1 DEF NameOk, ReleaseName
  <2>2. CASE releases[<<b, 0>>] # NoTree /\ releases[<<b, 1>>] = NoTree
    BY <1>3, <2>2 DEF NameOk, ReleaseName
  <2>3. CASE releases[<<b, 0>>] # NoTree /\ releases[<<b, 1>>] # NoTree
    <3>1. ReleaseName(r) = <<b, 1 + r>>
      BY <2>3 DEF ReleaseName
    <3> QED BY <1>3, <3>1 DEF NameOk
  <2> QED BY <2>1, <2>2, <2>3
<1>7. Releasing(x) => n = ReleaseName(r)
  BY <1>4, <1>5 DEF Releasing
<1> HIDE DEF n, x
<1>8. RunOk(r, x, releases) /\ OwnOk(x, releases)
  BY <1>3, <1>4, <1>6, <1>7 DEF RunOk, OwnOk, Unnamed
<1>9. AtWork(run[r]) /\ UNCHANGED <<releases, current, previous, lockDir, stolen>>
  BY <1>1 DEF AtWork, Unlocking, SourceReady, disk
<1> QED BY <1>2, <1>8, <1>9, RunGoes

LEMMA LayoutKeeps ==
    ASSUME BootInv, NEW r \in Runs, WriteManagedLayout(r)
    PROVE  BootInv'
<1>1. RunOk(r, run[r], releases) /\ run[r].pc = "stage" /\ DOMAIN run = Runs
  BY DEF BootInv, BootShape, WriteManagedLayout, At
<1>2. PICK config \in StagedConfigs, skipped \in {{}} \cup {{i} : i \in AllItems} :
        run' = [run EXCEPT
                  ![r].pc = "promote",
                  ![r].tree = [items  |-> [i \in AllItems |->
                                            IF i \in skipped THEN NoBundle ELSE run[r].bundle],
                               config |-> IF "deploy" \in skipped THEN PreservedConfig ELSE config]]
  BY DEF WriteManagedLayout
<1> DEFINE items == [i \in AllItems |-> IF i \in skipped THEN NoBundle ELSE run[r].bundle]
           tree == [items |-> items, config |-> IF "deploy" \in skipped THEN PreservedConfig ELSE config]
           x == [run[r] EXCEPT !.pc = "promote", !.tree = tree]
<1>3. run' = [run EXCEPT ![r] = x]
  BY <1>1, <1>2
<1>4. run[r].bundle \in Bundles /\ \A b \in Bundles : releases[<<b, 1 + r>>] = NoTree
  BY <1>1 DEF RunOk, Early
<1>5. /\ x \in ShapeOf(x) /\ x.pc = "promote" /\ x.bundle = run[r].bundle /\ x.name = run[r].name
      /\ x.kind = run[r].kind /\ x.dry = run[r].dry /\ x.tree = tree
  BY <1>1 DEF RunOk, ShapeOf
<1>6. run[r].bundle # NoBundle
  BY <1>4, BootConstants DEF NoBundle
<1>7. PICK i \in AllItems : i \notin skipped
  <2>1. PICK j \in Items : j # "deploy"
    BY BootAssumption DEF BootAssumption
  <2>2. j \in AllItems /\ "deploy" \in AllItems
    BY DEF AllItems
  <2> QED BY <2>1, <2>2
<1>8. items[i] # NoTree.items[i]
  BY <1>6, <1>7 DEF NoTree
<1>9. \A k \in AllItems : items[k] \in {run[r].bundle, NoBundle}
  OBVIOUS
<1> HIDE DEF items
<1>10. tree.items = items
  OBVIOUS
<1> HIDE DEF tree
<1>11. Intact(tree)
  BY <1>4, <1>8, <1>9, <1>10 DEF Intact, Unmixed
<1> HIDE DEF x
<1>12. RunOk(r, x, releases)
  BY <1>1, <1>4, <1>5, <1>11 DEF RunOk, Unnamed, Releasing
<1>13. ~stolen => OwnOk(x, releases)
  <2>1. ~stolen => OwnOk(run[r], releases)
    BY DEF BootInv
  <2> QED BY <1>1, <1>5, <2>1 DEF OwnOk, Releasing
<1>14. AtWork(run[r]) /\ UNCHANGED <<releases, current, previous, lockDir, stolen>>
  BY <1>1 DEF AtWork, Unlocking, WriteManagedLayout, disk
<1> QED BY <1>3, <1>12, <1>13, <1>14, RunGoes

\* What the run that works finds at its release name, and what the others expect of it.
LEMMA OthersWait ==
    ASSUME BootInv, NEW r \in Runs, AtWork(run[r]), ~stolen, NEW q \in Runs \ {r}, NEW rel
    PROVE  OwnOk(run[q], rel)
<1>1. ~AtWork(run[q])
  BY DEF BootInv, Alone
<1> QED BY <1>1 DEF OwnOk, AtWork, Unlocking

\* A run writes at its release name: nobody else counts on what is there.
LEMMA RunWrites ==
    ASSUME BootInv, NEW r \in Runs, NEW x, run' = [run EXCEPT ![r] = x], NEW n, NEW t,
           AtWork(run[r]), NameOk(r, n), n = run[r].name, releases' = [releases EXCEPT ![n] = t],
           UNCHANGED <<current, previous, lockDir, stolen>>,
           RunOk(r, x, releases'), ~stolen => releases[n] = NoTree /\ OwnOk(x, releases')
    PROVE  BootInv'
<1>1. DOMAIN run' = Runs /\ run'[r] = x /\ \A q \in Runs \ {r} : run'[q] = run[q]
  BY DEF BootInv, BootShape
<1>2. n \in Names
  BY BootConstants
<1>3. DOMAIN releases' = Names /\ \A m \in Names \ {n} : releases'[m] = releases[m]
  BY DEF BootInv, BootShape
<1>4. BootShape'
  BY <1>1, <1>3 DEF BootInv, BootShape
<1>5. ASSUME NEW q \in Runs
      PROVE  RunOk(q, run'[q], releases')
  <2>1. CASE q = r
    BY <1>1, <2>1
  <2>2. CASE q # r
    <3>1. RunOk(q, run[q], releases) /\ run'[q] = run[q]
      BY <1>1, <2>2 DEF BootInv
    <3>2. ASSUME NEW b \in Bundles
          PROVE  releases'[<<b, 1 + q>>] = releases[<<b, 1 + q>>]
      <4>1. q \in Nat /\ q >= 1 /\ r \in Nat
        BY BootConstants
      <4>2. <<b, 1 + q>> # n
        BY <2>2, <4>1 DEF NameOk
      <4>3. <<b, 1 + q>> \in Names
        BY BootConstants DEF NameOk
      <4> QED BY <1>3, <4>2, <4>3
    <3> QED BY <3>1, <3>2 DEF RunOk
  <2> QED BY <2>1, <2>2
<1>6. ASSUME ~stolen
      PROVE  /\ Alone' /\ \A q \in Runs : OwnOk(run'[q], releases')
             /\ LinkOk(current', releases') /\ LinkOk(previous', releases')
  <2>1. Alone'
    BY <1>1, <1>6 DEF BootInv, Alone
  <2>2. \A q \in Runs : OwnOk(run'[q], releases')
    BY <1>1, <1>6, OthersWait
  <2>3. releases[n] = NoTree
    BY <1>6
  <2>4. ASSUME NEW link, LinkOk(link, releases)
        PROVE  LinkOk(link, releases')
    <3>1. CASE link = NoName
      BY <3>1 DEF LinkOk
    <3>2. CASE link \in Names /\ Intact(releases[link])
      <4>1. link # n
        BY <2>3, <3>2 DEF Intact
      <4> QED BY <1>3, <3>2, <4>1 DEF LinkOk
    <3> QED BY <2>4, <3>1, <3>2 DEF LinkOk
  <2>5. LinkOk(current', releases') /\ LinkOk(previous', releases')
    BY <1>6, <2>4 DEF BootInv
  <2> QED BY <2>1, <2>2, <2>5
<1> QED BY <1>4, <1>5, <1>6 DEF BootInv

\* A run replaces the links; what a link names is whole.
LEMMA RunLinks ==
    ASSUME BootInv, NEW r \in Runs, NEW x, run' = [run EXCEPT ![r] = x], AtWork(run[r]),
           UNCHANGED <<releases, lockDir, stolen>>,
           RunOk(r, x, releases),
           ~stolen => OwnOk(x, releases) /\ LinkOk(current', releases) /\ LinkOk(previous', releases)
    PROVE  BootInv'
<1>1. DOMAIN run' = Runs /\ run'[r] = x /\ \A q \in Runs \ {r} : run'[q] = run[q]
  BY DEF BootInv, BootShape
<1>2. BootShape'
  BY <1>1 DEF BootInv, BootShape
<1>3. \A q \in Runs : RunOk(q, run'[q], releases')
  BY <1>1 DEF BootInv
<1>4. ASSUME ~stolen
      PROVE  /\ Alone' /\ \A q \in Runs : OwnOk(run'[q], releases')
             /\ LinkOk(current', releases') /\ LinkOk(previous', releases')
  BY <1>1, <1>4 DEF BootInv, Alone
<1> QED BY <1>2, <1>3, <1>4 DEF BootInv

LEMMA PromotionKeeps ==
    ASSUME BootInv, NEW r \in Runs,
           ClearRelease(r) \/ MoveRelease(r) \/ RememberPrevious(r) \/ UnlinkCurrent(r) \/ LinkCurrent(r)
    PROVE  BootInv'
<1> DEFINE X(p) == [run[r] EXCEPT !.pc = p]
           n == run[r].name
<1>1. /\ RunOk(r, run[r], releases) /\ DOMAIN run = Runs /\ DOMAIN releases = Names
      /\ ~stolen => OwnOk(run[r], releases) /\ LinkOk(current, releases) /\ LinkOk(previous, releases)
  BY DEF BootInv, BootShape
<1>2. ASSUME NEW p
      PROVE  /\ X(p) \in ShapeOf(X(p)) /\ X(p).pc = p /\ X(p).name = n /\ X(p).tree = run[r].tree
             /\ X(p).kind = run[r].kind /\ X(p).dry = run[r].dry
             /\ (GoTo(r, p) => run' = [run EXCEPT ![r] = X(p)])
  BY <1>1 DEF RunOk, ShapeOf, GoTo
<1> HIDE DEF X
<1>3. run[r].pc \in {"promote", "move", "remember", "unlink", "link"} => AtWork(run[r])
  BY DEF AtWork, Unlocking
<1>4. CASE ClearRelease(r)
  <2>1. /\ run[r].pc = "promote" /\ Releasing(run[r]) /\ GoTo(r, "move")
        /\ releases' = [releases EXCEPT ![n] = NoTree]
        /\ UNCHANGED <<current, previous, lockDir, stolen>>
    BY <1>4 DEF ClearRelease, At, Releasing
  <2>2. NameOk(r, n) /\ n \in Names /\ Intact(run[r].tree)
    BY <1>1, <2>1, BootConstants DEF RunOk
  <2>3. \A b \in Bundles : releases'[<<b, 1 + r>>] = NoTree
    <3>1. \A b \in Bundles : releases[<<b, 1 + r>>] = NoTree
      BY <1>1, <2>1 DEF RunOk, Early
    <3>2. \A b \in Bundles : <<b, 1 + r>> \in Names
      BY BootConstants DEF NameOk
    <3> QED BY <1>1, <2>1, <2>2, <3>1, <3>2
  <2>4. X("move").bundle \in Bundles
    BY <1>1, <2>1 DEF RunOk, Early, X, ShapeOf
  <2>5. RunOk(r, X("move"), releases')
    BY <1>2, <2>2, <2>3, <2>4 DEF RunOk, Unnamed
  <2>6. releases'[n] = NoTree
    BY <1>1, <2>1, <2>2
  <2>7. ~stolen => releases[n] = NoTree /\ OwnOk(X("move"), releases')
    BY <1>1, <1>2, <2>1, <2>6 DEF OwnOk
  <2> HIDE DEF n
  <2>8. n = run[r].name
    BY DEF n
  <2> QED BY <1>2, <1>3, <2>1, <2>2, <2>5, <2>7, <2>8, RunWrites
<1>5. CASE MoveRelease(r)
  <2>1. /\ run[r].pc = "move" /\ GoTo(r, "remember")
        /\ releases' = [releases EXCEPT ![n] = run[r].tree]
        /\ UNCHANGED <<current, previous, lockDir, stolen>>
    BY <1>5 DEF MoveRelease, At
  <2>2. NameOk(r, n) /\ n \in Names /\ Intact(run[r].tree)
    BY <1>1, <2>1, BootConstants DEF RunOk
  <2>3. releases'[n] = run[r].tree
    BY <1>1, <2>1, <2>2
  <2>4. RunOk(r, X("remember"), releases') /\ OwnOk(X("remember"), releases')
    BY <1>2, <2>2, <2>3 DEF RunOk, OwnOk, Early, Unnamed
  <2>5. ~stolen => releases[n] = NoTree
    BY <1>1, <2>1 DEF OwnOk
  <2> HIDE DEF n
  <2>6. n = run[r].name
    BY DEF n
  <2> QED BY <1>2, <1>3, <2>1, <2>2, <2>4, <2>5, <2>6, RunWrites
<1>6. CASE RememberPrevious(r)
  <2>1. /\ run[r].pc = "remember" /\ GoTo(r, "unlink")
        /\ previous' = IF current # NoName THEN current ELSE previous
        /\ current' = current /\ UNCHANGED <<releases, lockDir, stolen>>
    BY <1>6 DEF RememberPrevious, At
  <2>2. RunOk(r, X("unlink"), releases) /\ (~stolen => OwnOk(X("unlink"), releases))
    BY <1>1, <1>2, <2>1 DEF RunOk, OwnOk, Early, Unnamed
  <2>3. ~stolen => LinkOk(current', releases) /\ LinkOk(previous', releases)
    BY <1>1, <2>1
  <2> QED BY <1>2, <1>3, <2>1, <2>2, <2>3, RunLinks
<1>7. CASE UnlinkCurrent(r)
  <2>1. /\ run[r].pc = "unlink" /\ GoTo(r, "link") /\ current' = NoName
        /\ previous' = previous /\ UNCHANGED <<releases, lockDir, stolen>>
    BY <1>7 DEF UnlinkCurrent, At
  <2>2. RunOk(r, X("link"), releases) /\ (~stolen => OwnOk(X("link"), releases))
    BY <1>1, <1>2, <2>1 DEF RunOk, OwnOk, Early, Unnamed
  <2>3. ~stolen => LinkOk(current', releases) /\ LinkOk(previous', releases)
    BY <1>1, <2>1 DEF LinkOk
  <2> QED BY <1>2, <1>3, <2>1, <2>2, <2>3, RunLinks
<1>8. CASE LinkCurrent(r)
  <2>1. /\ run[r].pc = "link" /\ GoTo(r, "verify") /\ current' = n
        /\ previous' = previous /\ UNCHANGED <<releases, lockDir, stolen>>
    BY <1>8 DEF LinkCurrent, At
  <2>2. RunOk(r, X("verify"), releases) /\ OwnOk(X("verify"), releases)
    BY <1>2 DEF RunOk, OwnOk, Early, Unnamed
  <2>3. n \in Names
    BY <1>1, <2>1, BootConstants DEF RunOk
  <2>4. ~stolen => LinkOk(current', releases) /\ LinkOk(previous', releases)
    BY <1>1, <2>1, <2>3 DEF LinkOk, OwnOk
  <2> QED BY <1>2, <1>3, <2>1, <2>2, <2>4, RunLinks
<1> QED BY <1>4, <1>5, <1>6, <1>7, <1>8

\* What the updater finds on the device: nothing, a direct installation, or one release.
LEMMA BootStarts == BootInit => BootInv
<1> SUFFICES ASSUME BootInit PROVE BootInv
  OBVIOUS
<1>1. PICK b \in Bundles, k \in ConfigKeys :
        LET tree == [items  |-> [i \in AllItems |-> b],
                     config |-> [NoConfig EXCEPT ![k] = "local"]]
        IN \/ /\ target \in {NoTree, tree}
              /\ releases = [n \in Names |-> NoTree]
              /\ current = NoName /\ installed = NoBundle /\ receipt = target.items
           \/ /\ target = NoTree
              /\ releases = [[n \in Names |-> NoTree] EXCEPT ![<<b, 0>>] = tree]
              /\ current = <<b, 0>> /\ installed = b /\ receipt = tree.items
  BY DEF BootInit
<1> DEFINE items == [i \in AllItems |-> b]
           tree == [items  |-> items, config |-> [NoConfig EXCEPT ![k] = "local"]]
<1>2. Intact(tree)
  <2>1. b # NoBundle /\ "deploy" \in AllItems
    BY BootConstants DEF NoBundle, AllItems
  <2>2. items["deploy"] # NoTree.items["deploy"]
    BY <2>1 DEF NoTree
  <2>3. \A i \in AllItems : items[i] = b
    OBVIOUS
  <2> HIDE DEF items
  <2>4. tree.items = items
    OBVIOUS
  <2> HIDE DEF tree
  <2> QED BY <2>2, <2>3, <2>4 DEF Intact, Unmixed
<1>3. <<b, 0>> \in Names
  BY BootConstants, BootAssumption DEF Names, BootAssumption
<1> HIDE DEF items, tree
<1>4. \/ releases = [n \in Names |-> NoTree] /\ current = NoName
      \/ releases = [[n \in Names |-> NoTree] EXCEPT ![<<b, 0>>] = tree] /\ current = <<b, 0>>
  BY <1>1 DEF items, tree
<1>5. DOMAIN releases = Names /\ LinkOk(current, releases)
  BY <1>2, <1>3, <1>4 DEF LinkOk
<1>6. ASSUME NEW r \in Runs, NEW c \in Bundles
      PROVE  releases[<<c, 1 + r>>] = NoTree
  <2>1. <<c, 1 + r>> \in Names /\ <<c, 1 + r>> # <<b, 0>>
    <3>1. r \in Nat /\ NameOk(r, <<c, 1 + r>>)
      BY BootConstants DEF NameOk
    <3> QED BY <3>1, BootConstants
  <2> QED BY <1>3, <1>4, <2>1
<1>7. /\ run = [r \in Runs |-> NewRun] /\ lockDir = Unlocked /\ previous = NoName /\ stolen = FALSE
  BY DEF BootInit
<1>8. ASSUME NEW r \in Runs
      PROVE  RunOk(r, run[r], releases) /\ OwnOk(run[r], releases) /\ ~AtWork(run[r])
  <2>1. run[r] = NewRun
    BY <1>7
  <2>2. NewRun \in ShapeOf(NewRun) /\ NewRun.pc = "new" /\ NewRun.name = NoName
    BY DEF NewRun, ShapeOf
  <2> QED BY <1>6, <2>1, <2>2 DEF RunOk, OwnOk, AtWork, Early, Unnamed, Unlocking
<1>9. BootShape
  BY <1>5, <1>7 DEF BootShape, Unlocked
<1>10. LinkOk(previous, releases) /\ Alone
  BY <1>7, <1>8 DEF LinkOk, Alone
<1> QED BY <1>5, <1>8, <1>9, <1>10 DEF BootInv

\* At whatever step updaters are killed, current and previous name releases that are
\* there and hold items of one bundle, for any number of updaters, bundles and items, as
\* long as no updater removed the lock of one that was alive (bootstrap_updater.d).
THEOREM ReleasesStayIntact == BootSpec => []ReleasesIntact
<1>1. BootInv /\ [BootNext]_bootVars => BootInv'
  <2> SUFFICES ASSUME BootInv, [BootNext]_bootVars PROVE BootInv'
    OBVIOUS
  <2>1. CASE UNCHANGED bootVars
    BY <2>1 DEF bootVars, BootInv, BootShape, RunOk, OwnOk, LinkOk, Alone
  <2>2. ASSUME NEW r \in Runs, RunStep(r)
        PROVE  BootInv'
    BY <2>2, LockKeeps, WorkKeeps, SourceKeeps, LayoutKeeps, PromotionKeeps DEF RunStep
  <2> QED BY <2>1, <2>2 DEF BootNext
<1>2. BootInv => ReleasesIntact
  BY DEF BootInv, ReleasesIntact, LinkOk, Intact
<1> QED BY <1>1, <1>2, BootStarts, PTL DEF BootSpec

(***************************************************************************)
(* The native circuit breaker: it trips on timeouts that the window holds. *)
(***************************************************************************)
TripInv ==
    /\ timeouts_ = spent /\ timeouts_ = [i \in 0..OpWindow |-> timeouts_[i]]
    /\ circuit \in [protect : {circuit.protect}, degrade : {circuit.degrade}]
    /\ circuit.protect \in Nat
    /\ trigger \in [count : {trigger.count}, kind : {trigger.kind}, until : {trigger.until}]
    /\ circuit.protect > 0 => trigger.until = circuit.protect /\ trigger.count > ProtectAbove

\* What a step may do to the breaker.
TripStep ==
    /\ circuit'.protect > circuit.protect =>
         CountIn(spent') > ProtectAbove /\ trigger'.count > ProtectAbove
    /\ OperationalState' = "protective" => trigger'.until = circuit'.protect

LEMMA ProtectiveIsHeld ==
    ASSUME circuit.protect \in Nat
    PROVE  OperationalState = "protective" <=> circuit.protect > 0
BY DEF OperationalState

LEMMA FewerFacts ==
    ASSUME NEW n \in Nat
    PROVE  Fewer(n) \in Nat /\ Fewer(n) <= n /\ (Fewer(n) > 0 => n > 0)
BY DEF Fewer, Within

\* A timeout that is not counted leaves the window alone.
LEMMA OneRecord ==
    ASSUME NEW op \in [kind : NhOperations, result : {"ok", "error", "timeout"}], TripInv,
           timeouts_' = [timeouts_ EXCEPT ![0] = IF CountsAsTimeout(op)
                                                 THEN Within(@ + 1, 0, NhCap) ELSE @],
           spent' = IF op.result = "timeout" /\ op.kind # "optional_read"
                    THEN [spent EXCEPT ![0] = Within(@ + 1, 0, NhCap)] ELSE spent
    PROVE  /\ timeouts_' = spent'
           /\ timeouts_' = [i \in 0..OpWindow |-> timeouts_'[i]]
<1>1. CASE CountsAsTimeout(op)
  BY <1>1 DEF CountsAsTimeout, TripInv
<1>2. CASE ~CountsAsTimeout(op)
  BY <1>2 DEF CountsAsTimeout, TripInv
<1>q. QED BY <1>1, <1>2

\* A trip needs its count, and explains itself for as long as it lasts.
LEMMA TripFacts ==
    ASSUME NEW op, NEW n, TripInv, Tripped(op, n), n > ProtectAbove
    PROVE  /\ circuit' \in [protect : {circuit'.protect}, degrade : {circuit'.degrade}]
           /\ circuit'.protect = ProtectTicks
           /\ trigger' \in [count : {trigger'.count}, kind : {trigger'.kind}, until : {trigger'.until}]
           /\ trigger'.until = ProtectTicks
           /\ trigger'.count > ProtectAbove
<1>1. /\ circuit' \in [protect : {circuit'.protect}, degrade : {circuit'.degrade}]
      /\ circuit'.protect = ProtectTicks
  BY DEF Tripped, TripInv
<1>2. CASE circuit.protect = 0 \/ trigger = NoTrigger
  BY <1>1, <1>2 DEF Tripped
<1>3. CASE circuit.protect # 0 /\ trigger # NoTrigger
  <2>1. trigger' = [trigger EXCEPT !.until = ProtectTicks]
    BY <1>3 DEF Tripped
  <2>2. trigger.count > ProtectAbove
    BY <1>3 DEF TripInv
  <2>q. QED BY <1>1, <2>1, <2>2 DEF TripInv
<1>q. QED BY <1>2, <1>3

LEMMA RecordFacts ==
    ASSUME TripInv, RecordOperation
    PROVE  TripInv' /\ TripStep
<1>0. PICK op \in [kind : NhOperations, result : {"ok", "error", "timeout"}] :
        LET counts == CountsAsTimeout(op)
            marked == [timeouts_ EXCEPT ![0] = IF counts THEN Within(@ + 1, 0, NhCap) ELSE @]
            n == CountIn(marked)
        IN  /\ timeouts_' = marked
            /\ streak' = IF op.result = "ok" THEN 0
                         ELSE IF op.kind = "optional_read" THEN streak
                         ELSE Within(streak + 1, 0, 2)
            /\ IF counts /\ n > ProtectAbove THEN Tripped(op, n)
               ELSE /\ circuit' = IF counts /\ n >= DegradeAt
                                  THEN [circuit EXCEPT !.degrade = DegradeTicks] ELSE circuit
                    /\ UNCHANGED trigger
            /\ spent' = IF op.result = "timeout" /\ op.kind # "optional_read"
                        THEN [spent EXCEPT ![0] = Within(@ + 1, 0, NhCap)] ELSE spent
            /\ UNCHANGED <<resource, slo, overall, tickLength>>
  BY DEF RecordOperation
<1> DEFINE n == CountIn(timeouts_')
<1>1. timeouts_' = spent' /\ timeouts_' = [i \in 0..OpWindow |-> timeouts_'[i]]
  BY <1>0, OneRecord
<1>2. IF CountsAsTimeout(op) /\ n > ProtectAbove THEN Tripped(op, n)
      ELSE /\ circuit' = IF CountsAsTimeout(op) /\ n >= DegradeAt
                         THEN [circuit EXCEPT !.degrade = DegradeTicks] ELSE circuit
           /\ UNCHANGED trigger
  BY <1>0
<1>3. ProtectAbove \in Nat /\ ProtectTicks \in Nat
  BY NhAssumption DEF NhAssumption
<1>4. CASE CountsAsTimeout(op) /\ n > ProtectAbove
  <2>1. Tripped(op, n)
    BY <1>2, <1>4
  <2>2. /\ circuit' \in [protect : {circuit'.protect}, degrade : {circuit'.degrade}]
        /\ circuit'.protect = ProtectTicks
        /\ trigger' \in [count : {trigger'.count}, kind : {trigger'.kind}, until : {trigger'.until}]
        /\ trigger'.until = ProtectTicks /\ trigger'.count > ProtectAbove
    BY <2>1, <1>4, TripFacts
  <2>3. CountIn(spent') > ProtectAbove
    BY <1>1, <1>4
  <2>q. QED BY <1>1, <1>3, <2>2, <2>3 DEF TripInv, TripStep
<1>5. CASE ~(CountsAsTimeout(op) /\ n > ProtectAbove)
  <2>1. /\ circuit' \in [protect : {circuit'.protect}, degrade : {circuit'.degrade}]
        /\ circuit'.protect = circuit.protect /\ trigger' = trigger
    BY <1>2, <1>5 DEF TripInv
  <2>2. OperationalState' = "protective" => circuit'.protect > 0
    BY <2>1 DEF OperationalState, TripInv
  <2>q. QED BY <1>1, <2>1, <2>2 DEF TripInv, TripStep
<1>q. QED BY <1>4, <1>5

\* Time only runs the holds down, of the state and of its trigger alike.
LEMMA TickFacts ==
    ASSUME TripInv, NhTick
    PROVE  TripInv' /\ TripStep
<1>1. timeouts_' = Shifted(timeouts_) /\ spent' = Shifted(timeouts_)
  BY DEF NhTick, Pruned, TripInv
<1>2. timeouts_' = spent' /\ timeouts_' = [i \in 0..OpWindow |-> timeouts_'[i]]
  BY <1>1 DEF Shifted
<1>3. /\ circuit' \in [protect : {circuit'.protect}, degrade : {circuit'.degrade}]
      /\ circuit'.protect = Fewer(circuit.protect)
  BY DEF NhTick, TripInv
<1>4. /\ trigger' \in [count : {trigger'.count}, kind : {trigger'.kind}, until : {trigger'.until}]
      /\ trigger'.until = Fewer(trigger.until) /\ trigger'.count = trigger.count
  BY DEF NhTick, TripInv
<1>5. /\ circuit'.protect \in Nat /\ circuit'.protect <= circuit.protect
      /\ circuit'.protect > 0 => circuit.protect > 0
  BY <1>3, FewerFacts DEF TripInv
<1>6. circuit'.protect > 0 => trigger'.until = circuit'.protect /\ trigger'.count > ProtectAbove
  BY <1>3, <1>4, <1>5 DEF TripInv
<1>7. OperationalState' = "protective" => circuit'.protect > 0
  BY <1>5 DEF OperationalState
<1>8. ~(circuit'.protect > circuit.protect)
  BY <1>5 DEF TripInv
<1>q. QED BY <1>2, <1>3, <1>4, <1>5, <1>6, <1>7, <1>8 DEF TripInv, TripStep

\* The breaker trips only on more timeouts than the limit within the window,
\* and what it names as the trigger lasts as long as the protective state, for
\* any window, limits and holds (health.rs, record_operation).
THEOREM TripWasEarned == NhSpec => TripEarned
<1>1. NhInit => TripInv
  <2> SUFFICES ASSUME NhInit PROVE TripInv
    OBVIOUS
  <2>1. timeouts_ = spent /\ timeouts_ = [i \in 0..OpWindow |-> timeouts_[i]]
    BY DEF NhInit
  <2>q. QED BY <2>1 DEF NhInit, TripInv, NoTrigger
<1>2. TripInv /\ [NhNext]_nhVars => TripInv' /\ [TripStep]_nhVars
  <2> SUFFICES ASSUME TripInv, [NhNext]_nhVars PROVE TripInv' /\ [TripStep]_nhVars
    OBVIOUS
  <2>1. CASE RecordOperation
    BY <2>1, RecordFacts
  <2>2. CASE NhTick
    BY <2>2, TickFacts
  <2>3. CASE SampleResources \/ PublishHealth
    <3>1. UNCHANGED <<timeouts_, circuit, trigger, spent>>
      BY <2>3 DEF SampleResources, PublishHealth
    <3>2. OperationalState' = "protective" => circuit.protect > 0
      BY <3>1 DEF OperationalState
    <3>3. TripInv'
      BY <3>1 DEF TripInv
    <3>4. TripStep
      <4>1. circuit' = circuit /\ trigger' = trigger
        BY <3>1
      <4>2. ~(circuit'.protect > circuit.protect)
        BY <4>1 DEF TripInv
      <4>q. QED BY <3>2, <4>1, <4>2 DEF TripInv, TripStep
    <3>q. QED BY <3>3, <3>4
  <2>4. CASE UNCHANGED nhVars
    BY <2>4 DEF nhVars, TripInv
  <2>q. QED BY <2>1, <2>2, <2>3, <2>4 DEF NhNext
<1>3. [TripStep]_nhVars =>
        [/\ circuit'.protect > circuit.protect =>
              CountIn(spent') > ProtectAbove /\ trigger'.count > ProtectAbove
         /\ OperationalState' = "protective" => trigger'.until = circuit'.protect]_nhVars
  BY DEF TripStep
<1>q. QED BY <1>1, <1>2, <1>3, PTL DEF NhSpec, TripEarned

(***************************************************************************)
(* The PV sources: equal generations mean equal topologies.                *)
(***************************************************************************)
\* What is current was computed from what the tracker still knows.
PvInv ==
    /\ topology.current =>
         /\ targets \subseteq {x \in DOMAIN obs : obs[x].validated}
         /\ topology.sources = [x \in targets |-> SourceState(x, obs, DormantIds(obs, targets))]
    /\ evidence.current => evidence.ids = DormantIds(obs, evidence.targets)

\* Two trackers that say the same of every source.
Alike(os, other) ==
    /\ DOMAIN other = DOMAIN os
    /\ \A x \in DOMAIN os : /\ other[x].validated = os[x].validated
                            /\ other[x].available = os[x].available
                            /\ other[x].dormant = os[x].dormant

LEMMA AlikeReads ==
    ASSUME NEW os, NEW other, Alike(os, other)
    PROVE  /\ \A ids : DormantIds(other, ids) = DormantIds(os, ids)
           /\ \A x \in DOMAIN os : \A d : SourceState(x, other, d) = SourceState(x, os, d)
<1>1. \A ids : DormantIds(other, ids) = DormantIds(os, ids)
  BY DEF Alike, DormantIds
<1>2. \A x \in DOMAIN os : \A d : SourceState(x, other, d) = SourceState(x, os, d)
  BY DEF Alike, SourceState
<1>q. QED BY <1>1, <1>2

LEMMA QuietStep ==
    ASSUME PvInv, Alike(obs, obs'), topology.current => targets' = targets,
           UNCHANGED <<topology, evidence, advertised>>
    PROVE  PvInv'
<1>1. \A ids : DormantIds(obs', ids) = DormantIds(obs, ids)
  BY AlikeReads
<1>2. evidence'.current => evidence'.ids = DormantIds(obs', evidence'.targets)
  BY <1>1 DEF PvInv
<1>3. ASSUME topology'.current
      PROVE  /\ targets' \subseteq {x \in DOMAIN obs' : obs'[x].validated}
             /\ topology'.sources = [x \in targets' |-> SourceState(x, obs', DormantIds(obs', targets'))]
  <2>1. targets' = targets /\ targets \subseteq {x \in DOMAIN obs : obs[x].validated}
    BY <1>3 DEF PvInv
  <2>2. targets' \subseteq {x \in DOMAIN obs' : obs'[x].validated}
    BY <2>1 DEF Alike
  <2>3. topology'.sources = [x \in targets |-> SourceState(x, obs, DormantIds(obs, targets))]
    BY <1>3 DEF PvInv
  <2>4. \A x \in targets : SourceState(x, obs', DormantIds(obs, targets))
                           = SourceState(x, obs, DormantIds(obs, targets))
    BY <2>1, AlikeReads
  <2>5. topology'.sources = [x \in targets |-> SourceState(x, obs', DormantIds(obs, targets))]
    BY <2>3, <2>4
  <2>q. QED BY <1>1, <2>1, <2>2, <2>5
<1>4. advertised' = advertised
  OBVIOUS
<1>q. QED BY <1>2, <1>3, <1>4 DEF PvInv, SourceState

LEMMA RecordedFields ==
    ASSUME NEW os, NEW m, NEW active, NEW after, NEW asleep \in BOOLEAN,
           after = RecordValue(os, m, active) \/ after = RecordError(os, m, active, asleep),
           ~Recorded(os, after, m)
    PROVE  Alike(os, after)
<1> DEFINE wo == WithObservation(os, m, active)
<1>1. CASE m \notin DOMAIN os
  <2>1. m \in DOMAIN wo /\ wo[m] = NewObservation
    BY <1>1 DEF WithObservation
  <2>2. SemanticState(after[m]) = SemanticState(NewObservation)
    BY <1>1 DEF Recorded
  <2>3. ~after[m].validated /\ after[m].available = "unknown"
    BY <2>2 DEF SemanticState, NewObservation
  <2>4. CASE after = RecordValue(os, m, active)
    <3>1. after[m] = [NewObservation EXCEPT !.validated = TRUE, !.available = "yes", !.failed = FALSE,
                  !.dormant = FALSE, !.dormantAt = 0, !.seenAt = pvNow, !.probeAt = 0]
      BY <2>1, <2>4 DEF RecordValue
    <3>2. after[m].available = "yes"
      BY <3>1 DEF NewObservation
    <3>q. QED BY <2>3, <3>2
  <2>5. CASE after = RecordError(os, m, active, asleep)
    <3> DEFINE o == [NewObservation EXCEPT !.available = "no", !.seenAt = pvNow,
                                           !.probeAt = pvNow + ErrorBackoff]
    <3>1. after[m] = IF asleep
            THEN [o EXCEPT !.validated = TRUE, !.failed = FALSE,
                           !.dormant = TRUE, !.dormantAt = pvNow]
            ELSE [o EXCEPT !.failed = ~o.dormant]
      BY <2>1, <2>5 DEF RecordError
    <3>2. after[m].available = "no"
      BY <3>1 DEF NewObservation
    <3>q. QED BY <2>3, <3>2
  <2>q. QED BY <2>4, <2>5
<1>2. CASE m \in DOMAIN os
  <2>1. wo = os
    BY <1>2 DEF WithObservation
  <2>2. DOMAIN after = DOMAIN os /\ \A x \in DOMAIN os \ {m} : after[x] = os[x]
    BY <2>1 DEF RecordValue, RecordError
  <2>3. SemanticState(after[m]) = SemanticState(os[m])
    BY <1>2 DEF Recorded
  <2>4. /\ after[m].validated = os[m].validated /\ after[m].available = os[m].available
        /\ after[m].dormant = os[m].dormant
    BY <2>3 DEF SemanticState
  <2>q. QED BY <1>2, <2>2, <2>4 DEF Alike
<1>q. QED BY <1>1, <1>2

LEMMA QuietRecord ==
    ASSUME NEW os, NEW ts, NEW m, NEW active, NEW after, NEW asleep \in BOOLEAN,
           after = RecordValue(os, m, active) \/ after = RecordError(os, m, active, asleep),
           ~AfterRecord(os, ts, m, after).changed
    PROVE  /\ Alike(os, AfterRecord(os, ts, m, after).obs)
           /\ AfterRecord(os, ts, m, after).targets = ts
<1>1. CASE m \notin CandidateTargets
  BY <1>1 DEF AfterRecord, Alike
<1>2. CASE m \in CandidateTargets
  <2>1. /\ AfterRecord(os, ts, m, after).obs = after
        /\ AfterRecord(os, ts, m, after).targets = ts /\ ~Recorded(os, after, m)
    BY <1>2 DEF AfterRecord
  <2>2. Alike(os, after)
    BY <2>1, RecordedFields
  <2>q. QED BY <2>1, <2>2
<1>q. QED BY <1>1, <1>2

LEMMA QuietMaintain ==
    ASSUME NEW os, NEW ts, NEW active, ~Maintain(os, ts, active).changed
    PROVE  /\ Maintain(os, ts, active).obs = os
           /\ Maintain(os, ts, active).targets = {m \in ts \cap DOMAIN os : os[m].validated}
BY DEF Maintain

\* A generation that is announced as the same tells the same topology.
Told == topology' # topology /\ topology'.current /\ topology'.same
        => topology'.sources = topology.sources

\* A change takes the generation and the cached evidence away.
LEMMA LoudStep ==
    ASSUME topology' = NoTopology, evidence' = NoEvidence
    PROVE  PvInv' /\ Told
BY DEF PvInv, Told, NoTopology, NoEvidence

\* A step of the registry that moves the revisions as the tracker tells it.
LEMMA MovedStep ==
    ASSUME PvInv, NEW changed \in BOOLEAN, Moved(changed), advertised' = advertised,
           ~changed => Alike(obs, obs') /\ (topology.current => targets' = targets)
    PROVE  PvInv' /\ Told
<1>1. CASE changed
  BY <1>1, LoudStep DEF Moved
<1>2. CASE ~changed
  <2>1. topology' = topology /\ evidence' = evidence
    BY <1>2 DEF Moved
  <2>2. PvInv'
    BY <1>2, <2>1, QuietStep
  <2>3. Told
    BY <2>1 DEF Told
  <2>q. QED BY <2>2, <2>3
<1>q. QED BY <1>1, <1>2

LEMMA PollStep ==
    ASSUME PvInv, PollPv
    PROVE  PvInv' /\ Told
<1>1. /\ obs' = Maintained.obs /\ targets' = Maintained.targets /\ Moved(Maintained.changed)
      /\ advertised' = advertised
  BY DEF PollPv
<1>2. Maintained.changed \in BOOLEAN
  BY DEF Maintained, Maintain
<1>3. ~Maintained.changed => Alike(obs, obs') /\ (topology.current => targets' = targets)
  <2>1. CASE configured
    BY <1>1, <2>1 DEF Maintained, Alike
  <2>2. CASE ~configured /\ ~Maintained.changed
    <3>1. Maintained = Maintain(obs, targets, CandidateTargets)
      BY <2>2 DEF Maintained
    <3>2. obs' = obs /\ targets' = {m \in targets \cap DOMAIN obs : obs[m].validated}
      BY <1>1, <2>2, <3>1, QuietMaintain
    <3>q. QED BY <3>2 DEF Alike, PvInv
  <2>q. QED BY <2>1, <2>2
<1>q. QED BY <1>1, <1>2, <1>3, MovedStep

LEMMA AnswerStep ==
    ASSUME PvInv, NEW m, NEW after, NEW asleep \in BOOLEAN,
           \/ after = RecordValue(obs, m, ActiveSourceIds(advertised))
           \/ after = RecordError(obs, m, ActiveSourceIds(advertised), asleep),
           IF configured THEN UNCHANGED <<obs, targets, evidence, topology>>
           ELSE /\ obs' = AfterRecord(obs, targets, m, after).obs
                /\ targets' = AfterRecord(obs, targets, m, after).targets
                /\ Moved(AfterRecord(obs, targets, m, after).changed),
           advertised' = advertised
    PROVE  PvInv' /\ Told
<1>1. CASE configured
  <2>1. UNCHANGED <<obs, targets, evidence, topology>>
    BY <1>1
  <2>2. Alike(obs, obs')
    BY <2>1 DEF Alike
  <2>3. PvInv'
    BY <2>1, <2>2, QuietStep
  <2>q. QED BY <2>1, <2>3 DEF Told
<1>2. CASE ~configured
  <2> DEFINE rec == AfterRecord(obs, targets, m, after)
  <2>1. obs' = rec.obs /\ targets' = rec.targets /\ Moved(rec.changed)
    BY <1>2
  <2>2. rec.changed \in BOOLEAN
    BY DEF AfterRecord
  <2>3. ~rec.changed => Alike(obs, rec.obs) /\ rec.targets = targets
    BY QuietRecord
  <2> HIDE DEF rec
  <2>4. ~rec.changed => Alike(obs, obs') /\ (topology.current => targets' = targets)
    BY <2>1, <2>3
  <2>q. QED BY <2>1, <2>2, <2>4, MovedStep
<1>q. QED BY <1>1, <1>2

LEMMA ServicesStep ==
    ASSUME PvInv, UpdateServices
    PROVE  PvInv' /\ Told
<1>1. PICK listed \in SUBSET PvMembers :
        LET m == Maintain(obs, targets, ActiveSourceIds(listed))
        IN  obs' = m.obs /\ evidence' = IF m.changed THEN NoEvidence ELSE evidence
  BY DEF UpdateServices
<1>2. topology' = NoTopology
  BY DEF UpdateServices
<1> DEFINE m == Maintain(obs, targets, ActiveSourceIds(listed))
<1>3. CASE m.changed
  BY <1>1, <1>2, <1>3, LoudStep
<1>4. CASE ~m.changed
  <2>1. obs' = obs /\ evidence' = evidence
    BY <1>1, <1>4, QuietMaintain
  <2>q. QED BY <1>2, <2>1 DEF PvInv, Told, NoTopology
<1>q. QED BY <1>3, <1>4

LEMMA SnapshotStep ==
    ASSUME PvInv, TopologySnapshot
    PROVE  PvInv' /\ Told
<1> DEFINE m == Maintain(obs, targets, ActiveSourceIds(advertised))
           ids == CachedIds(m)
<1>1. /\ obs' = m.obs /\ targets' = m.targets /\ advertised' = advertised
      /\ evidence' = [current |-> TRUE, targets |-> m.targets, ids |-> ids]
      /\ topology' = [current |-> TRUE, same |-> topology.current /\ ~m.changed,
                      sources |-> [x \in m.targets |-> SourceState(x, m.obs, ids)]]
  BY DEF TopologySnapshot
<1>2. ids = DormantIds(m.obs, m.targets)
  <2>1. CASE evidence.current /\ ~m.changed /\ evidence.targets = m.targets
    <3>1. m.obs = obs
      BY <2>1, QuietMaintain
    <3>q. QED BY <2>1, <3>1 DEF CachedIds, PvInv
  <2>2. CASE ~(evidence.current /\ ~m.changed /\ evidence.targets = m.targets)
    BY <2>2 DEF CachedIds
  <2>q. QED BY <2>1, <2>2
<1>3. m.targets \subseteq {x \in DOMAIN m.obs : m.obs[x].validated}
  BY DEF Maintain
<1>4. Told
  <2> SUFFICES ASSUME topology'.current, topology'.same
               PROVE  topology'.sources = topology.sources
    BY DEF Told
  <2>1. topology.current /\ ~m.changed
    BY <1>1
  <2>2. m.obs = obs /\ m.targets = {x \in targets \cap DOMAIN obs : obs[x].validated}
    BY <2>1, QuietMaintain
  <2>3. m.targets = targets
    BY <2>1, <2>2 DEF PvInv
  <2>4. topology'.sources = [x \in targets |-> SourceState(x, obs, DormantIds(obs, targets))]
    BY <1>1, <1>2, <2>2, <2>3
  <2>q. QED BY <2>1, <2>4 DEF PvInv
<1>5. PvInv'
  <2>1. evidence'.current => evidence'.ids = DormantIds(obs', evidence'.targets)
    BY <1>1, <1>2
  <2>2. topology'.sources = [x \in targets' |-> SourceState(x, obs', DormantIds(obs', targets'))]
    BY <1>1, <1>2
  <2>3. targets' \subseteq {x \in DOMAIN obs' : obs'[x].validated}
    BY <1>1, <1>3
  <2>q. QED BY <1>1, <2>1, <2>2, <2>3 DEF PvInv, SourceState
<1>q. QED BY <1>4, <1>5

\* Equal generations mean equal topologies, whatever was advertised, learned,
\* expired, pruned or evicted in between, for any sources, limits and holds
\* (dbus_adapter/read/discovery.py:372).
THEOREM GenerationsTellTopology == PvSpec => GenerationTellsTopology
<1>1. PvInit => PvInv
  BY DEF PvInit, PvInv, NoTopology, NoEvidence
<1>2. PvInv /\ [PvNext]_pvVars => PvInv' /\ [Told]_pvVars
  <2> SUFFICES ASSUME PvInv, [PvNext]_pvVars PROVE PvInv' /\ [Told]_pvVars
    OBVIOUS
  <2>1. CASE PollPv
    BY <2>1, PollStep
  <2>2. CASE MemberAnswers
    <3>1. PICK m \in asked :
            LET rec == AfterRecord(obs, targets, m, RecordValue(obs, m, ActiveSourceIds(advertised)))
            IN  IF configured THEN UNCHANGED <<obs, targets, evidence, topology>>
                ELSE obs' = rec.obs /\ targets' = rec.targets /\ Moved(rec.changed)
      BY <2>2 DEF MemberAnswers
    <3>2. advertised' = advertised
      BY <2>2 DEF MemberAnswers
    <3> DEFINE after == RecordValue(obs, m, ActiveSourceIds(advertised))
    <3>3. PvInv' /\ Told
      BY <3>1, <3>2, AnswerStep
    <3>q. QED BY <3>3
  <2>3. CASE MemberFails
    <3>1. PICK m \in asked, kind \in {"timeout", "asleep", "error"} :
            LET rec == AfterRecord(obs, targets, m,
                          RecordError(obs, m, ActiveSourceIds(advertised), kind = "asleep"))
            IN  IF configured THEN UNCHANGED <<obs, targets, evidence, topology>>
                ELSE obs' = rec.obs /\ targets' = rec.targets /\ Moved(rec.changed)
      BY <2>3 DEF MemberFails
    <3>2. advertised' = advertised
      BY <2>3 DEF MemberFails
    <3>3. (kind = "asleep") \in BOOLEAN
      OBVIOUS
    <3>4. PvInv' /\ Told
      BY <3>1, <3>2, <3>3, AnswerStep
    <3>q. QED BY <3>4
  <2>4. CASE UpdateServices
    BY <2>4, ServicesStep
  <2>5. CASE TopologySnapshot
    BY <2>5, SnapshotStep
  <2>6. CASE PvTick \/ MemberUnusable \/ UNCHANGED pvVars
    <3>1. UNCHANGED <<advertised, obs, targets, evidence, topology>>
      BY <2>6 DEF PvTick, MemberUnusable, pvVars
    <3>2. Alike(obs, obs')
      BY <3>1 DEF Alike
    <3>3. PvInv'
      BY <3>1, <3>2, QuietStep
    <3>4. Told
      BY <3>1 DEF Told
    <3>q. QED BY <3>3, <3>4
  <2>q. QED BY <2>1, <2>2, <2>3, <2>4, <2>5, <2>6 DEF PvNext
<1>3. [Told]_pvVars => [topology' # topology /\ topology'.current /\ topology'.same
                         => topology'.sources = topology.sources]_pvVars
  BY DEF Told
<1>q. QED BY <1>1, <1>2, <1>3, PTL DEF PvSpec, GenerationTellsTopology

(***************************************************************************)
(* The estimate of the battery's capacity: what is written was seen often  *)
(* enough in a row.                                                        *)
(***************************************************************************)
KeeperOk(k) == k \in [enabled : {k.enabled}, complete : {k.complete}, configured : {k.configured},
                      candidate : Nat, stable : 0 .. StableNeeded, attempts : {k.attempts},
                      notBefore : {k.notBefore}, retryIn : {k.retryIn}]
Agreed(k, readings) == \A i \in 1 .. StableNeeded : i > StableNeeded - k.stable => readings[i] = k.candidate
Collecting(k) == k.enabled /\ ~k.complete

CeInv ==
    /\ KeeperOk(keeper) /\ recent \in Seq(Nat) /\ Len(recent) = StableNeeded
    /\ ini \in [estimate : {ini.estimate}, explicit : {ini.explicit}, edits : {ini.edits}]
    /\ Collecting(keeper) => Agreed(keeper, recent)
    /\ draft.open => Collecting(keeper) /\ keeper.stable = StableNeeded

LEMMA CeConstants == StableNeeded \in Nat \ {0} /\ \A e \in Inferred : e \in Nat
BY CeAssumption DEF CeAssumption, Inferred

\* The last estimates, one refresh later.
LEMMA NotedFacts ==
    ASSUME recent \in Seq(Nat), Len(recent) = StableNeeded, NEW e \in Nat
    PROVE  /\ Noted(e) \in Seq(Nat) /\ Len(Noted(e)) = StableNeeded
           /\ Noted(e)[StableNeeded] = e
           /\ \A i \in 1 .. StableNeeded - 1 : Noted(e)[i] = recent[i + 1]
<1> DEFINE tail == SubSeq(recent, 2, StableNeeded)
<1>1. StableNeeded \in Nat \ {0}
  BY CeConstants
<1>2. /\ tail \in Seq(Nat) /\ Len(tail) = StableNeeded - 1
      /\ \A i \in 1 .. StableNeeded - 1 : tail[i] = recent[i + 1]
  BY <1>1
<1>3. Noted(e) = Append(tail, e)
  BY DEF Noted
<1> HIDE DEF tail
<1> QED BY <1>1, <1>2, <1>3

Recount(k, c, n) == [k EXCEPT !.candidate = c, !.stable = n]

LEMMA CountedFacts ==
    ASSUME KeeperOk(keeper), recent \in Seq(Nat), Len(recent) = StableNeeded,
           Agreed(keeper, recent), NEW e \in Nat
    PROVE  LET k == Counted_(keeper, e) IN
           /\ KeeperOk(k) /\ k.enabled = keeper.enabled /\ k.complete = keeper.complete
           /\ Agreed(k, Noted(e))
<1> DEFINE k == Counted_(keeper, e)
           n == IF keeper.stable < StableNeeded THEN keeper.stable + 1 ELSE keeper.stable
<1>1. StableNeeded \in Nat \ {0} /\ keeper.stable \in 0 .. StableNeeded
  BY CeConstants DEF KeeperOk
<1>2. \/ e = 0 /\ k = Recount(keeper, 0, 0)
      \/ e # 0 /\ keeper.candidate = e /\ k = [keeper EXCEPT !.stable = n]
      \/ e # 0 /\ k = Recount(keeper, e, 1)
  BY DEF Counted_, StableWith, Recount
<1>3. n \in 0 .. StableNeeded /\ (n = keeper.stable + 1 \/ (n = keeper.stable /\ n = StableNeeded))
  BY <1>1
<1> HIDE DEF n
<1>5. [keeper EXCEPT !.stable = n] = [keeper EXCEPT !.candidate = keeper.candidate, !.stable = n]
  BY DEF KeeperOk
<1>6. \/ e = 0 /\ k = Recount(keeper, 0, 0)
      \/ keeper.candidate = e /\ k = Recount(keeper, e, n)
      \/ k = Recount(keeper, e, 1)
  BY <1>2, <1>5 DEF Recount
<1> HIDE DEF k
<1>7. CASE e = 0 /\ k = Recount(keeper, 0, 0)
  <2>1. 0 \in Nat /\ 0 \in 0 .. StableNeeded
    BY <1>1
  <2>2. KeeperOk(k) /\ k.enabled = keeper.enabled /\ k.complete = keeper.complete /\ k.stable = 0
    BY <1>7, <2>1 DEF Recount, KeeperOk
  <2>3. Agreed(k, Noted(e))
    BY <1>1, <2>2 DEF Agreed
  <2> QED BY <2>2, <2>3 DEF k
<1>8. CASE keeper.candidate = e /\ k = Recount(keeper, e, n)
  <2>1. KeeperOk(k) /\ k.enabled = keeper.enabled /\ k.complete = keeper.complete
        /\ k.candidate = e /\ k.stable = n
    BY <1>3, <1>8 DEF Recount, KeeperOk
  <2>2. ASSUME NEW i \in 1 .. StableNeeded, i > StableNeeded - n PROVE Noted(e)[i] = e
    <3>1. CASE i = StableNeeded
      BY <3>1, NotedFacts
    <3>2. CASE i # StableNeeded
      <4>1. i \in 1 .. StableNeeded - 1 /\ i + 1 \in 1 .. StableNeeded
            /\ i + 1 > StableNeeded - keeper.stable
        BY <1>1, <1>3, <2>2, <3>2
      <4>2. recent[i + 1] = e
        BY <1>8, <4>1 DEF Agreed
      <4> QED BY <4>1, <4>2, NotedFacts
    <3> QED BY <3>1, <3>2
  <2>3. Agreed(k, Noted(e))
    BY <2>1, <2>2 DEF Agreed
  <2> QED BY <2>1, <2>3 DEF k
<1>9. CASE k = Recount(keeper, e, 1)
  <2>1. 1 \in 0 .. StableNeeded
    BY <1>1
  <2>2. KeeperOk(k) /\ k.enabled = keeper.enabled /\ k.complete = keeper.complete
        /\ k.candidate = e /\ k.stable = 1
    BY <1>9, <2>1 DEF Recount, KeeperOk
  <2>3. \A i \in 1 .. StableNeeded : i > StableNeeded - 1 => i = StableNeeded
    BY <1>1
  <2>4. Agreed(k, Noted(e))
    BY <2>2, <2>3, NotedFacts DEF Agreed
  <2> QED BY <2>2, <2>4 DEF k
<1> QED BY <1>6, <1>7, <1>8, <1>9

\* Delays that pass and writes that fail leave the count as it is.
LEMMA KeeperSteps ==
    ASSUME NEW k, KeeperOk(k)
    PROVE  \A j \in {Passed(k), WriteFailed(k), [Passed(k) EXCEPT !.complete = TRUE]} :
              /\ KeeperOk(j) /\ j.enabled = k.enabled
              /\ j.candidate = k.candidate /\ j.stable = k.stable
              /\ Passed(k).complete = k.complete
<1> DEFINE p == Passed(k)  f == WriteFailed(k)  c == [p EXCEPT !.complete = TRUE]
<1>1. KeeperOk(p) /\ p.enabled = k.enabled /\ p.candidate = k.candidate /\ p.stable = k.stable
      /\ p.complete = k.complete
  <2>1. PICK a, b : p = [k EXCEPT !.notBefore = a, !.retryIn = b]
    BY DEF Passed
  <2> HIDE DEF p
  <2> QED BY <2>1 DEF KeeperOk
<1>2. KeeperOk(f) /\ f.enabled = k.enabled /\ f.candidate = k.candidate /\ f.stable = k.stable
  <2>1. PICK a, b, d : f = [k EXCEPT !.attempts = a, !.retryIn = b, !.complete = d]
    BY DEF WriteFailed
  <2> HIDE DEF f
  <2> QED BY <2>1 DEF KeeperOk
<1> HIDE DEF p
<1>3. KeeperOk(c) /\ c.enabled = k.enabled /\ c.candidate = k.candidate /\ c.stable = k.stable /\ c.complete = TRUE
  BY <1>1 DEF KeeperOk
<1> HIDE DEF f, c
<1>4. \A j \in {p, f, c} :
        /\ KeeperOk(j) /\ j.enabled = k.enabled
        /\ j.candidate = k.candidate /\ j.stable = k.stable
        /\ p.complete = k.complete
  BY <1>1, <1>2, <1>3
<1> QED BY <1>4 DEF p, f, c

LEMMA NewKeeperFacts ==
    ASSUME NEW left
    PROVE  KeeperOk(NewKeeper(left)) /\ NewKeeper(left).stable = 0
<1> DEFINE k == NewKeeper(left)
<1>1. k \in [enabled : {k.enabled}, complete : {k.complete}, configured : {k.configured}, candidate : Nat,
             stable : 0 .. StableNeeded, attempts : {k.attempts}, notBefore : {k.notBefore},
             retryIn : {k.retryIn}] /\ k.stable = 0
  BY CeConstants DEF NewKeeper
<1> HIDE DEF k
<1>2. KeeperOk(k) /\ k.stable = 0
  BY <1>1 DEF KeeperOk
<1> QED BY <1>2 DEF k

LEMMA StartFacts ==
    ASSUME NEW left, NEW readings, readings = [i \in 1 .. StableNeeded |-> 0]
    PROVE  /\ KeeperOk(NewKeeper(left)) /\ Agreed(NewKeeper(left), readings)
           /\ readings \in Seq(Nat) /\ Len(readings) = StableNeeded
<1>1. StableNeeded \in Nat
  BY CeConstants
<1>2. Agreed(NewKeeper(left), readings)
  BY <1>1, NewKeeperFacts DEF Agreed
<1>3. readings \in [1 .. StableNeeded -> Nat]
  OBVIOUS
<1>4. readings \in Seq(Nat) /\ Len(readings) = StableNeeded
  BY <1>1, <1>3
<1> QED BY <1>2, <1>4, NewKeeperFacts

LEMMA ObserveKeeps == ASSUME CeInv, Observe PROVE CeInv'
<1>1. PICK e \in Inferred :
        /\ recent' = Noted(e) /\ ~draft.open /\ ini' = ini
        /\ \/ ~Collecting(keeper) /\ keeper' = Passed(keeper) /\ draft' = draft
           \/ /\ Collecting(keeper)
              /\ \/ keeper' \in {Passed(Counted_(keeper, e)), WriteFailed(Counted_(keeper, e)),
                                 [Passed(Counted_(keeper, e)) EXCEPT !.complete = TRUE]}
                    /\ draft' = draft
                 \/ keeper' = Counted_(keeper, e) /\ RecheckDue(keeper')
  BY DEF Observe, Collecting
<1>2. e \in Nat
  BY CeConstants
<1>3. recent' \in Seq(Nat) /\ Len(recent') = StableNeeded
  BY <1>1, <1>2, NotedFacts DEF CeInv
<1>4. CASE ~Collecting(keeper) /\ keeper' = Passed(keeper) /\ draft' = draft
  <2>1. KeeperOk(keeper') /\ keeper'.enabled = keeper.enabled /\ keeper'.complete = keeper.complete
    BY <1>4, KeeperSteps DEF CeInv
  <2>2. ~Collecting(keeper')
    BY <1>4, <2>1 DEF Collecting
  <2> QED BY <1>1, <1>3, <1>4, <2>1, <2>2 DEF CeInv
<1>5. CASE Collecting(keeper) /\ ~(~Collecting(keeper) /\ keeper' = Passed(keeper) /\ draft' = draft)
  <2> DEFINE k == Counted_(keeper, e)
  <2>1. /\ KeeperOk(k) /\ k.enabled = keeper.enabled /\ k.complete = keeper.complete
        /\ Agreed(k, Noted(e))
    BY <1>2, <1>5, CountedFacts DEF CeInv
  <2>2. \/ keeper' \in {Passed(k), WriteFailed(k), [Passed(k) EXCEPT !.complete = TRUE]} /\ draft' = draft
        \/ keeper' = k /\ RecheckDue(k)
    BY <1>1, <1>5
  <2> HIDE DEF k
  <2>3. KeeperOk(keeper') /\ keeper'.candidate = k.candidate /\ keeper'.stable = k.stable
    BY <2>1, <2>2, KeeperSteps
  <2>4. Agreed(keeper', recent')
    BY <1>1, <2>1, <2>3 DEF Agreed
  <2>5. CASE draft' = draft
    BY <1>1, <1>3, <2>3, <2>4, <2>5 DEF CeInv
  <2>6. CASE keeper' = k /\ RecheckDue(k)
    <3>1. Collecting(keeper')
      BY <1>5, <2>1, <2>6 DEF Collecting
    <3>2. keeper'.stable = StableNeeded
      BY <2>3, <2>6, CeConstants DEF RecheckDue, KeeperOk
    <3> QED BY <1>1, <1>3, <2>3, <2>4, <3>1, <3>2 DEF CeInv
  <2> QED BY <2>2, <2>5, <2>6
<1> QED BY <1>1, <1>4, <1>5

LEMMA CapacityStep == ASSUME CeInv, [CeNext]_ceVars PROVE CeInv'
<1>1. CASE Persist
  <2>1. recent' = recent /\ draft'.open = FALSE /\ draft.open
    BY <1>1 DEF Persist, NoDraft
  <2>2. keeper' \in {Passed(keeper), WriteFailed(keeper), [Passed(keeper) EXCEPT !.complete = TRUE]}
    BY <1>1 DEF Persist
  <2>3. KeeperOk(keeper') /\ keeper'.candidate = keeper.candidate /\ keeper'.stable = keeper.stable
    BY <2>2, KeeperSteps DEF CeInv
  <2>4. Agreed(keeper', recent')
    BY <2>1, <2>3 DEF CeInv, Agreed
  <2>5. ini' \in [estimate : {ini'.estimate}, explicit : {ini'.explicit}, edits : {ini'.edits}]
    BY <1>1 DEF Persist, Upsert, CeInv
  <2> QED BY <2>1, <2>3, <2>4, <2>5 DEF CeInv
<1>2. CASE HelperStartsAgain
  <2>1. keeper' = NewKeeper(ini) /\ draft'.open = FALSE /\ ini' = ini
        /\ recent' = [i \in 1 .. StableNeeded |-> 0]
    BY <1>2 DEF HelperStartsAgain, NoDraft
  <2> QED BY <2>1, StartFacts DEF CeInv
<1>3. CASE OthersEdit
  BY <1>3 DEF OthersEdit, CeInv
<1>4. CASE UNCHANGED ceVars
  BY <1>4 DEF ceVars, CeInv
<1> QED BY <1>1, <1>2, <1>3, <1>4, ObserveKeeps DEF CeNext

\* What is written was seen by the last refreshes, as many as are needed in a row, of
\* the process that writes it: whatever the number that is needed, the estimates, the
\* failed writes and the restarts (capacity_persistence.rs).
THEOREM WrittenWasEarned == CeSpec => PersistEarned
<1>1. CeInit => CeInv
  <2> SUFFICES ASSUME CeInit PROVE CeInv
    OBVIOUS
  <2>1. keeper = NewKeeper(ini) /\ draft.open = FALSE /\ recent = [i \in 1 .. StableNeeded |-> 0]
    BY DEF CeInit, NoDraft
  <2>2. ini \in [estimate : {ini.estimate}, explicit : {ini.explicit}, edits : {ini.edits}]
    BY DEF CeInit
  <2> QED BY <2>1, <2>2, StartFacts DEF CeInv
<1>2. CeInv /\ [CeNext]_ceVars => CeInv'
  BY CapacityStep
<1>3. CeInv /\ [CeNext]_ceVars =>
        [ini'.estimate # ini.estimate => \A i \in 1 .. StableNeeded : recent[i] = ini'.estimate]_ceVars
  <2> SUFFICES ASSUME CeInv, CeNext, ini'.estimate # ini.estimate
               PROVE  \A i \in 1 .. StableNeeded : recent[i] = ini'.estimate
    OBVIOUS
  <2>1. CASE Persist
    <3>1. ini' = Upsert(draft, keeper.candidate) /\ draft.open
      BY <2>1 DEF Persist
    <3>2. ini'.estimate = keeper.candidate /\ Agreed(keeper, recent) /\ keeper.stable = StableNeeded
      BY <3>1 DEF Upsert, CeInv
    <3> QED BY <3>2, CeConstants DEF Agreed
  <2>2. CASE Observe \/ HelperStartsAgain \/ OthersEdit
    BY <2>2 DEF Observe, HelperStartsAgain, OthersEdit, CeInv
  <2> QED BY <2>1, <2>2 DEF CeNext
<1> QED BY <1>1, <1>2, <1>3, PTL DEF CeSpec, PersistEarned

(***************************************************************************)
(* The forensic observer: an incident makes one bundle.                    *)
(***************************************************************************)
IncidentBundles ==
    [id : Nat \ {0}, files : SUBSET (BundleFiles \cup {"staging"}), recovered : Int, by : Nat]

ObserverShape ==
    /\ mounted \subseteq Storages
    /\ bundles \in [Storages -> SUBSET IncidentBundles]
    /\ episode = [store |-> episode.store, id |-> episode.id, healthySince |-> episode.healthySince]
    /\ episode.id \in Nat /\ episode.healthySince \in Int
    /\ observer \in [pc : {"idle", "prune", "gone"}, run : Nat, check : Int]
    /\ now \in Nat /\ lastId \in Nat

\* A process writes under its own incarnation, and a recovery file comes with
\* its date.
BundlesDated ==
    \A s \in Storages : \A b \in bundles[s] :
        /\ b.by <= observer.run
        /\ "recovery" \in b.files => b.recovered # NoTime

ObserverInv ==
    /\ ObserverShape /\ BundlesDated /\ UnfinishedIsActive
    /\ observer.pc = "gone" => episode = NoEpisode

LEMMA ObserverStarts == ObsInit => ObserverInv
BY ObserverAssumption
   DEF ObsInit, ObserverInv, ObserverShape, BundlesDated, UnfinishedIsActive, NoEpisode, NoTime

\* A step that leaves the bundles alone, and the episode open or ends the process.
LEMMA ObserverIdles ==
    ASSUME ObserverInv, UNCHANGED bundles, mounted' \subseteq Storages,
           now' \in Nat, lastId' = lastId, observer'.check \in Int,
           observer' = [pc |-> observer'.pc, run |-> observer.run, check |-> observer'.check],
           \/ observer'.pc = "gone" /\ episode' = NoEpisode
           \/ /\ observer.pc # "gone" /\ observer'.pc \in {"idle", "prune"}
              /\ episode' = [store |-> episode.store, id |-> episode.id,
                             healthySince |-> episode'.healthySince]
              /\ episode'.healthySince \in Int
    PROVE  ObserverInv'
<1>1. ObserverShape'
  BY DEF ObserverInv, ObserverShape, NoEpisode, NoTime
<1>2. BundlesDated' /\ UnfinishedIsActive'
  BY DEF ObserverInv, BundlesDated, UnfinishedIsActive
<1> QED
  BY <1>1, <1>2 DEF ObserverInv

LEMMA ObserverStep == ObserverInv /\ [ObsNext]_obsVars => ObserverInv'
<1> SUFFICES ASSUME ObserverInv, [ObsNext]_obsVars PROVE ObserverInv'
  OBVIOUS
<1> USE DEF ObserverInv, ObserverShape
<1>1. CASE NothingObserved
  BY <1>1, ObserverIdles DEF NothingObserved, Ready, Iterated, Exit
<1>2. CASE IncidentContinues
  BY <1>2, ObserverIdles DEF IncidentContinues, Ready, Iterated, NoTime
<1>3. CASE WriteIncident
  <2>1. CASE UNCHANGED <<bundles, episode, lastId>> /\ Iterated
    BY <1>3, <2>1, ObserverIdles DEF WriteIncident, Ready, Iterated
  <2>2. CASE Exit /\ UNCHANGED <<bundles, lastId>>
    BY <1>3, <2>2, ObserverIdles DEF WriteIncident, Ready, Exit
  <2> DEFINE new == [id |-> lastId + 1, files |-> {"snapshot", "config"},
                     recovered |-> NoTime, by |-> observer.run]
  <2>3. ASSUME NEW writable \in (SUBSET mounted) \ {{}},
               bundles' = [bundles EXCEPT ![FirstWritable(writable)] = @ \cup {new}],
               episode' = [store |-> FirstWritable(writable), id |-> new.id, healthySince |-> NoTime],
               lastId' = lastId + 1, Iterated
        PROVE  ObserverInv'
    <3> DEFINE store == FirstWritable(writable)
    <3>1. new \in IncidentBundles /\ "recovery" \notin new.files
      BY DEF IncidentBundles, BundleFiles, NoTime
    <3>2. new.by = observer.run /\ new.id = lastId + 1
      OBVIOUS
    <3>3. /\ observer.pc = "idle" /\ episode = NoEpisode /\ UNCHANGED <<mounted, now>>
          /\ observer' = [observer EXCEPT !.pc = "prune"]
      BY <1>3, <2>3 DEF WriteIncident, Ready, Iterated
    <3>4. \A s \in Storages : \A b \in bundles[s] :
             ~(b.by = observer.run /\ b.recovered = NoTime)
      BY <3>3 DEF UnfinishedIsActive, NoEpisode, IncidentBundles
    <3>5. /\ bundles' = [bundles EXCEPT ![store] = @ \cup {new}]
          /\ episode' = [store |-> store, id |-> lastId + 1, healthySince |-> NoTime]
      BY <2>3
    <3> HIDE DEF store, new
    <3>6. /\ bundles' \in [Storages -> SUBSET IncidentBundles]
          /\ \A s \in Storages : bundles'[s] = IF s = store THEN bundles[s] \cup {new} ELSE bundles[s]
      BY <3>1, <3>5
    <3>7. ObserverShape'
      BY <2>3, <3>3, <3>5, <3>6 DEF NoTime
    <3>8. BundlesDated'
      BY <3>1, <3>2, <3>3, <3>6 DEF BundlesDated
    <3>9. UnfinishedIsActive'
      BY <3>2, <3>3, <3>4, <3>5, <3>6 DEF UnfinishedIsActive
    <3> QED
      BY <3>3, <3>7, <3>8, <3>9
  <2> QED
    BY <1>3, <2>1, <2>2, <2>3 DEF WriteIncident
<1>4. CASE Healthy
  <2>1. CASE UNCHANGED bundles /\ Exit
    BY <1>4, <2>1, ObserverIdles DEF Healthy, Ready, Exit
  <2>2. CASE UNCHANGED bundles /\ Iterated /\ episode' # NoEpisode
    <3>1. /\ episode' = [episode EXCEPT !.healthySince = episode'.healthySince]
          /\ episode'.healthySince \in Int
      BY <1>4, <2>2 DEF Healthy, EpisodeAfter, NoTime, Exit, Iterated
    <3> QED
      BY <1>4, <2>2, <3>1, ObserverIdles DEF Healthy, Ready, Iterated
  <2>3. CASE RecoveryWritten /\ episode' = NoEpisode /\ Iterated
    <3>1. /\ observer.pc = "idle" /\ UNCHANGED <<mounted, now, lastId>>
          /\ observer' = [observer EXCEPT !.pc = "prune"] /\ episode.store \in Storages
          /\ episode' = NoEpisode
      BY <1>4, <2>3 DEF Healthy, Ready, RecoveryWritten, Iterated
    <3> DEFINE Closed(b) == IF b.id = episode.id /\ "recovery" \notin b.files
                            THEN [b EXCEPT !.files = @ \cup {"recovery"}, !.recovered = now] ELSE b
    <3>2. ASSUME NEW b \in IncidentBundles
          PROVE  /\ Closed(b) \in IncidentBundles /\ Closed(b).by = b.by /\ Closed(b).id = b.id
                 /\ ("recovery" \in b.files => b.recovered # NoTime)
                    => /\ "recovery" \in Closed(b).files => Closed(b).recovered # NoTime
                       /\ Closed(b).recovered = NoTime => b.recovered = NoTime /\ b.id # episode.id
      <4>1. CASE Closed(b) = b
        BY <4>1 DEF NoTime
      <4>2. CASE /\ b.id = episode.id /\ "recovery" \notin b.files
                 /\ Closed(b) = [id |-> b.id, files |-> b.files \cup {"recovery"},
                                 recovered |-> now, by |-> b.by]
        <5>1. b.files \cup {"recovery"} \in SUBSET (BundleFiles \cup {"staging"}) /\ now # NoTime
          BY DEF IncidentBundles, BundleFiles, NoTime
        <5> QED
          BY <4>2, <5>1 DEF IncidentBundles
      <4> QED
        BY <4>1, <4>2 DEF IncidentBundles
    <3> HIDE DEF Closed
    <3>3. /\ bundles' \in [Storages -> SUBSET IncidentBundles]
          /\ \A s \in Storages : s # episode.store => bundles'[s] = bundles[s]
          /\ bundles'[episode.store] = {Closed(b) : b \in bundles[episode.store]}
      <4>1. bundles' = [bundles EXCEPT ![episode.store] = {Closed(b) : b \in bundles[episode.store]}]
        BY <2>3 DEF RecoveryWritten, Closed
      <4>2. {Closed(b) : b \in bundles[episode.store]} \subseteq IncidentBundles
        BY <3>1, <3>2
      <4> QED
        BY <3>1, <4>1, <4>2
    <3>4. ObserverShape'
      BY <3>1, <3>3 DEF NoEpisode, NoTime
    <3>5. ASSUME NEW s \in Storages, NEW c \in bundles'[s]
          PROVE  \E b \in bundles[s] : c = IF s = episode.store THEN Closed(b) ELSE b
      BY <3>3
    <3>6. BundlesDated'
      <4> SUFFICES ASSUME NEW s \in Storages, NEW c \in bundles'[s]
                   PROVE  c.by <= observer'.run /\ ("recovery" \in c.files => c.recovered # NoTime)
        BY DEF BundlesDated
      <4>1. PICK b \in bundles[s] : c = IF s = episode.store THEN Closed(b) ELSE b
        BY <3>5
      <4>2. b \in IncidentBundles /\ b.by <= observer.run /\ ("recovery" \in b.files => b.recovered # NoTime)
        BY DEF BundlesDated
      <4> QED
        BY <3>1, <3>2, <4>1, <4>2
    <3>7. UnfinishedIsActive'
      <4> SUFFICES ASSUME NEW s \in Storages, NEW c \in bundles'[s], c.by = observer.run, c.recovered = NoTime
                   PROVE  FALSE
        BY <3>1 DEF UnfinishedIsActive
      <4>1. PICK b \in bundles[s] : c = IF s = episode.store THEN Closed(b) ELSE b
        BY <3>5
      <4>2. b \in IncidentBundles /\ ("recovery" \in b.files => b.recovered # NoTime)
        BY DEF BundlesDated
      <4>3. b.by = observer.run /\ b.recovered = NoTime
        BY <3>2, <4>1, <4>2
      <4>4. episode.store = s /\ episode.id = b.id
        BY <3>1, <4>3 DEF UnfinishedIsActive
      <4> QED
        BY <3>2, <4>1, <4>2, <4>4
    <3> QED
      BY <3>1, <3>4, <3>6, <3>7
  <2> QED
    <3>1. \/ UNCHANGED bundles /\ Exit
          \/ RecoveryWritten /\ episode' = EpisodeAfter(TRUE) /\ Iterated
          \/ UNCHANGED bundles /\ Iterated /\ episode'.healthySince # NoTime
      BY <1>4 DEF Healthy, EpisodeAfter, NoTime
    <3>2. EpisodeAfter(TRUE) = NoEpisode /\ NoEpisode.healthySince = NoTime
      BY DEF EpisodeAfter, NoEpisode
    <3> QED
      BY <2>1, <2>2, <2>3, <3>1, <3>2
<1>5. CASE HealthyIdle
  BY <1>5, ObserverIdles DEF HealthyIdle, Ready, Iterated
<1>6. CASE RetentionPass
  <2>1. /\ \E c \in Int : observer' = [pc |-> "idle", run |-> observer.run, check |-> c]
        /\ now' = now + 1 /\ observer.pc = "prune"
        /\ UNCHANGED <<mounted, lastId, episode>>
    <3> DEFINE late == observer.check = NoTime \/ now - observer.check >= CheckTicks_
               last == IF late THEN now ELSE observer.check
    <3>1. observer' = [observer EXCEPT !.pc = "idle", !.check = last]
      BY <1>6 DEF RetentionPass
    <3>2. last \in Int
      OBVIOUS
    <3>3. now' = now + 1 /\ observer.pc = "prune" /\ UNCHANGED <<mounted, lastId, episode>>
      BY <1>6 DEF RetentionPass
    <3> QED
      BY <3>1, <3>2, <3>3
  <2>2. /\ bundles' \in [Storages -> SUBSET IncidentBundles]
        /\ \A s \in Storages : bundles'[s] \subseteq bundles[s]
    <3>1. \/ UNCHANGED bundles
          \/ \E stores \in SUBSET mounted :
                bundles' = [s \in Storages |-> IF s \in stores THEN bundles[s] \ Doomed(s)
                                              ELSE bundles[s]]
      BY <1>6 DEF RetentionPass
    <3>2. CASE UNCHANGED bundles
      BY <3>2
    <3>3. ASSUME NEW stores \in SUBSET mounted,
                 bundles' = [s \in Storages |-> IF s \in stores THEN bundles[s] \ Doomed(s)
                                                ELSE bundles[s]]
          PROVE  /\ bundles' \in [Storages -> SUBSET IncidentBundles]
                 /\ \A s \in Storages : bundles'[s] \subseteq bundles[s]
      <4>1. \A s \in Storages : bundles[s] \ Doomed(s) \in SUBSET IncidentBundles
        OBVIOUS
      <4> QED
        BY <3>3, <4>1
    <3> QED
      BY <3>1, <3>2, <3>3
  <2>3. /\ observer'.pc = "idle" /\ observer'.run = observer.run
        /\ observer' \in [pc : {"idle", "prune", "gone"}, run : Nat, check : Int] /\ now' \in Nat
    BY <2>1
  <2>4. ObserverShape'
    BY <2>1, <2>2, <2>3
  <2>5. BundlesDated' /\ UnfinishedIsActive'
    <3>1. \A s \in Storages : \A b \in bundles'[s] : b \in bundles[s]
      BY <2>2
    <3> QED
      BY <2>1, <2>3, <3>1 DEF BundlesDated, UnfinishedIsActive
  <2> QED
    BY <2>3, <2>4, <2>5
<1>7. CASE Die
  <2>1. /\ observer' = [observer EXCEPT !.pc = "gone"] /\ episode' = NoEpisode
        /\ UNCHANGED <<mounted, now, lastId>>
    BY <1>7 DEF Die, Exit
  <2>2. CASE UNCHANGED bundles
    BY <2>1, <2>2, ObserverIdles
  <2>3. ASSUME NEW s \in mounted, NEW b \in Doomed(s),
               NEW kept \in {{}, {"recovery"}, {"config", "recovery"}},
               bundles' = [bundles EXCEPT ![s] = (@ \ {b}) \cup {[b EXCEPT !.files = kept]}]
        PROVE  ObserverInv'
    <3> DEFINE left == [b EXCEPT !.files = kept]
    <3>1. b \in bundles[s] /\ b \in IncidentBundles /\ "recovery" \in b.files
      BY DEF Doomed, Candidates, BundleCompleted, BundleFiles
    <3>2. left \in IncidentBundles /\ left.by = b.by /\ left.recovered = b.recovered
      BY <3>1 DEF IncidentBundles, BundleFiles
    <3>3. bundles' = [bundles EXCEPT ![s] = (@ \ {b}) \cup {left}]
      BY <2>3
    <3> HIDE DEF left
    <3>4. /\ bundles' \in [Storages -> SUBSET IncidentBundles]
          /\ \A t \in Storages : \A c \in bundles'[t] : c \in bundles[t] \/ c = left
      BY <3>2, <3>3
    <3> QED
      BY <2>1, <3>1, <3>2, <3>4 DEF NoEpisode, NoTime, BundlesDated, UnfinishedIsActive
  <2>4. ASSUME episode.store \in mounted,
               bundles' = [bundles EXCEPT ![episode.store] =
                   {IF b.id = episode.id THEN [b EXCEPT !.files = @ \cup {"staging"}] ELSE b : b \in @}]
        PROVE  ObserverInv'
    <3> DEFINE Staged(b) == IF b.id = episode.id THEN [b EXCEPT !.files = @ \cup {"staging"}] ELSE b
    <3>1. ASSUME NEW b \in IncidentBundles
          PROVE  /\ Staged(b) \in IncidentBundles /\ Staged(b).by = b.by
                 /\ Staged(b).recovered = b.recovered
                 /\ "recovery" \in Staged(b).files => "recovery" \in b.files
      BY DEF IncidentBundles, BundleFiles
    <3>2. bundles' = [bundles EXCEPT ![episode.store] = {Staged(b) : b \in bundles[episode.store]}]
      BY <2>4
    <3> HIDE DEF Staged
    <3>3. {Staged(b) : b \in bundles[episode.store]} \subseteq IncidentBundles
      BY <2>4, <3>1
    <3>4. /\ bundles' \in [Storages -> SUBSET IncidentBundles]
          /\ \A t \in Storages : \A c \in bundles'[t] :
                c \in bundles[t] \/ \E b \in bundles[t] : c = Staged(b)
      BY <2>4, <3>2, <3>3
    <3> QED
      BY <2>1, <3>1, <3>4 DEF NoEpisode, NoTime, BundlesDated, UnfinishedIsActive
  <2> QED
    BY <1>7, <2>2, <2>3, <2>4 DEF Die
<1>8. CASE Restarted
  BY <1>8 DEF Restarted, NoEpisode, NoTime, BundlesDated, UnfinishedIsActive, IncidentBundles
<1>9. CASE MountTable \/ OtherLease \/ UNCHANGED obsVars
  BY <1>9 DEF MountTable, OtherLease, obsVars, BundlesDated, UnfinishedIsActive
<1> QED
  BY <1>1, <1>2, <1>3, <1>4, <1>5, <1>6, <1>7, <1>8, <1>9 DEF ObsNext

\* However the storage and the lease change, writes fail and the process dies, one
\* episode makes one bundle: what the running process has written and not
\* closed with a recovery record belongs to its open episode.
THEOREM OneBundlePerEpisode == ObsSpec => []UnfinishedIsActive
<1>1. ObserverInv => UnfinishedIsActive
  BY DEF ObserverInv
<1> QED
  BY ObserverStarts, ObserverStep, <1>1, PTL DEF ObsSpec

(***************************************************************************)
(* The software update: what is shown is what the installer does.          *)
(***************************************************************************)
Installers == {"none", "busy", "done", "broken"}
UpdateStates == {"idle", "up-to-date", "available", "available-blocked", "running",
                 "installed", "check-failed", "install-failed", "update-unavailable"}
UpdateResults == {"", "success", "failed", "running"}
UpdateShown == [state : UpdateStates, available : BOOLEAN, result : UpdateResults]
TurnStates ==
    [installer : Installers, requested : BOOLEAN,
     nextCheck : 0 .. ChooseLarger(CheckTicks, DeferTicks),
     bootDue : NotDue .. ChooseLarger(BootTicks, DeferTicks), shown : UpdateShown, checked : BOOLEAN]

\* A working state of a turn that shows what its installer does.
Truthful(w) ==
    /\ w \in TurnStates
    /\ w.shown.result = "running" <=> w.installer # "none"
    /\ w.shown.state = "running" <=> w.installer # "none"

UpdateNow == [installer |-> installer, requested |-> requested, nextCheck |-> nextCheck,
              bootDue |-> bootDue, shown |-> shown, checked |-> checked]

UpdateInv == Truthful(UpdateNow) /\ marker \in BOOLEAN /\ script \in BOOLEAN

LEMMA UpdateTicks ==
    /\ CheckTicks \in Nat \ {0} /\ DeferTicks \in Nat \ {0} /\ BootTicks \in Nat \ {0}
    /\ ChooseLarger(CheckTicks, DeferTicks) \in Nat /\ ChooseLarger(BootTicks, DeferTicks) \in Nat
    /\ CheckTicks <= ChooseLarger(CheckTicks, DeferTicks) /\ DeferTicks <= ChooseLarger(CheckTicks, DeferTicks)
    /\ BootTicks <= ChooseLarger(BootTicks, DeferTicks) /\ DeferTicks <= ChooseLarger(BootTicks, DeferTicks)
BY SwAssumption DEF ChooseLarger

\* A working state of a turn, and a picture, from their parts.
Turn(i, r, n, b, v, c) ==
    [installer |-> i, requested |-> r, nextCheck |-> n, bootDue |-> b, shown |-> v, checked |-> c]
Picture(s, a, r) == [state |-> s, available |-> a, result |-> r]

Bounds(n, b) ==
    n \in 0 .. ChooseLarger(CheckTicks, DeferTicks) /\ b \in NotDue .. ChooseLarger(BootTicks, DeferTicks)

LEMMA TurnParts ==
    ASSUME NEW w \in TurnStates
    PROVE  /\ w.installer \in Installers /\ w.requested \in BOOLEAN /\ w.shown \in UpdateShown
           /\ w.checked \in BOOLEAN /\ Bounds(w.nextCheck, w.bootDue)
           /\ w.shown.state \in UpdateStates /\ w.shown.available \in BOOLEAN
           /\ w.shown.result \in UpdateResults
           /\ w = Turn(w.installer, w.requested, w.nextCheck, w.bootDue, w.shown, w.checked)
           /\ w.shown = Picture(w.shown.state, w.shown.available, w.shown.result)
BY DEF TurnStates, UpdateShown, Bounds, Turn, Picture

LEMMA TurnTells ==
    ASSUME NEW i \in Installers, NEW r \in BOOLEAN, NEW n, NEW b, Bounds(n, b), NEW c \in BOOLEAN,
           NEW s \in UpdateStates, NEW a \in BOOLEAN, NEW t \in UpdateResults,
           t = "running" <=> i # "none", s = "running" <=> i # "none"
    PROVE  Truthful(Turn(i, r, n, b, Picture(s, a, t), c))
BY DEF TurnStates, UpdateShown, Bounds, Turn, Picture, Truthful

LEMMA UpdateWords ==
    /\ {"idle", "up-to-date", "available", "available-blocked", "running", "installed",
        "check-failed", "install-failed", "update-unavailable"} \subseteq UpdateStates
    /\ {"success", "failed", "running"} \subseteq UpdateResults
    /\ {"none", "busy", "done", "broken"} \subseteq Installers
BY DEF UpdateStates, UpdateResults, Installers

LEMMA UpdateBounds ==
    ASSUME NEW n, NEW b, Bounds(n, b)
    PROVE  Bounds(CheckTicks, b) /\ Bounds(DeferTicks, b) /\ Bounds(n, NotDue) /\ Bounds(n, DeferTicks)
BY UpdateTicks DEF Bounds, NotDue

\* Polling gives the installer up together with what said that it runs.
LEMMA PollingIsTruthful ==
    ASSUME NEW w, Truthful(w)
    PROVE  Truthful(Polled(w)) /\ Truthful(TriggersCleared(w))
<1>1. w \in TurnStates /\ (w.shown.result = "running" <=> w.installer # "none")
      /\ (w.shown.state = "running" <=> w.installer # "none")
  BY DEF Truthful
<1>9. /\ w.installer \in Installers /\ w.requested \in BOOLEAN /\ w.checked \in BOOLEAN
      /\ Bounds(w.nextCheck, w.bootDue) /\ w.shown.state \in UpdateStates
      /\ w.shown.available \in BOOLEAN /\ w.shown.result \in UpdateResults
  BY <1>1, TurnParts
<1>2. Truthful(Polled(w))
  <2>1. CASE w.installer = "done"
    <3>1. Polled(w) = Turn("none", w.requested, w.nextCheck, w.bootDue,
                           Picture("installed", FALSE, "success"), w.checked)
      BY <1>1, <2>1 DEF Polled, Turn, Picture, TurnStates
    <3>2. Truthful(Turn("none", w.requested, w.nextCheck, w.bootDue,
                        Picture("installed", FALSE, "success"), w.checked))
      BY <1>9, TurnTells, UpdateWords, Zenon
    <3> QED
      BY <3>1, <3>2
  <2>2. CASE w.installer = "broken"
    <3>1. Polled(w) = Turn("none", w.requested, w.nextCheck, w.bootDue,
                           Picture("install-failed", w.shown.available, "failed"), w.checked)
      BY <1>1, <2>2 DEF Polled, Turn, Picture, TurnStates, UpdateShown
    <3>2. Truthful(Turn("none", w.requested, w.nextCheck, w.bootDue,
                        Picture("install-failed", w.shown.available, "failed"), w.checked))
      BY <1>9, TurnTells, UpdateWords, Zenon
    <3> QED
      BY <3>1, <3>2
  <2>3. CASE w.installer \notin {"done", "broken"}
    BY <2>3 DEF Polled
  <2> QED
    BY <2>1, <2>2, <2>3
<1>3. Truthful(TriggersCleared(w))
  <2> DEFINE b == IF w.bootDue = 0 THEN NotDue ELSE w.bootDue
  <2>1. Bounds(w.nextCheck, b)
    BY <1>9, UpdateBounds
  <2>5. TriggersCleared(w) = [w EXCEPT !.requested = FALSE, !.bootDue = b]
    BY DEF TriggersCleared
  <2> HIDE DEF b
  <2>2. TriggersCleared(w) = Turn(w.installer, FALSE, w.nextCheck, b, w.shown, w.checked)
    BY <1>1, <2>5 DEF Turn, TurnStates
  <2>3. Truthful(Turn(w.installer, FALSE, w.nextCheck, b,
                      Picture(w.shown.state, w.shown.available, w.shown.result), w.checked))
    BY <1>1, <1>9, <2>1, TurnTells, Zenon
  <2>4. w.shown = Picture(w.shown.state, w.shown.available, w.shown.result)
    BY <1>1, TurnParts
  <2> QED
    BY <2>2, <2>3, <2>4
<1> QED
  BY <1>2, <1>3

\* A check is made only while no installer runs, and keeps the last result.
LEMMA CheckIsTruthful ==
    ASSUME NEW w, Truthful(w), w.installer = "none", marker \in BOOLEAN,
           NEW pressure \in BOOLEAN, NEW answer \in {"newer", "same", "error"}
    PROVE  Truthful(DueCheck(w, pressure, answer)) /\ DueCheck(w, pressure, answer).installer = "none"
<1>1. w \in TurnStates /\ w.shown.result # "running" /\ w.shown.state # "running"
  BY DEF Truthful
<1>9. /\ w.requested \in BOOLEAN /\ w.checked \in BOOLEAN
      /\ Bounds(w.nextCheck, w.bootDue) /\ w.shown.state \in UpdateStates
      /\ w.shown.available \in BOOLEAN /\ w.shown.result \in UpdateResults
  BY <1>1, TurnParts
<1>2. CASE w.nextCheck # 0
  BY <1>2 DEF DueCheck
<1>3. CASE w.nextCheck = 0 /\ pressure
  <2>1. DueCheck(w, pressure, answer) = Turn("none", w.requested, DeferTicks, w.bootDue, w.shown, w.checked)
    BY <1>1, <1>3 DEF DueCheck, Turn, TurnStates
  <2>2. Bounds(DeferTicks, w.bootDue)
    BY <1>9, UpdateBounds
  <2>6. /\ w.shown.result = "running" <=> "none" # "none"
        /\ w.shown.state = "running" <=> "none" # "none"
        /\ "none" \in Installers
    BY <1>1, UpdateWords
  <2>3. Truthful(Turn("none", w.requested, DeferTicks, w.bootDue,
                      Picture(w.shown.state, w.shown.available, w.shown.result), w.checked))
    BY <1>9, <2>2, <2>6, TurnTells, Zenon
  <2>4. w.shown = Picture(w.shown.state, w.shown.available, w.shown.result)
    BY <1>1, TurnParts
  <2>5. Turn("none", w.requested, DeferTicks, w.bootDue, w.shown, w.checked).installer = "none"
    BY DEF Turn
  <2> QED
    BY <2>1, <2>3, <2>4, <2>5
<1>4. CASE w.nextCheck = 0 /\ ~pressure
  <2> DEFINE s == IF answer = "error" THEN "check-failed" ELSE AvailabilityState(answer = "newer")
             a == answer = "newer"
  <2>1. s \in UpdateStates /\ s # "running" /\ a \in BOOLEAN
    BY DEF AvailabilityState, UpdateStates
  <2>2. DueCheck(w, pressure, answer)
            = Turn("none", w.requested, CheckTicks, w.bootDue, Picture(s, a, w.shown.result), TRUE)
    BY <1>1, <1>4 DEF DueCheck, CheckRun, Turn, Picture, TurnStates
  <2> HIDE DEF s, a
  <2>3. Bounds(CheckTicks, w.bootDue)
    BY <1>9, UpdateBounds
  <2>4. Truthful(Turn("none", w.requested, CheckTicks, w.bootDue, Picture(s, a, w.shown.result), TRUE))
    BY <1>1, <1>9, <2>1, <2>3, TurnTells, UpdateWords, Zenon
  <2>5. Turn("none", w.requested, CheckTicks, w.bootDue, Picture(s, a, w.shown.result), TRUE).installer = "none"
    BY DEF Turn
  <2> QED
    BY <2>2, <2>4, <2>5
<1> QED
  BY <1>2, <1>3, <1>4

\* An update is started only when none runs, and says so at once.
LEMMA StartIsTruthful ==
    ASSUME NEW w, Truthful(w), NEW spawned \in BOOLEAN, marker \in BOOLEAN, script \in BOOLEAN
    PROVE  Truthful(StartRun(w, spawned))
<1>1. w \in TurnStates /\ (w.shown.result = "running" <=> w.installer # "none")
      /\ (w.shown.state = "running" <=> w.installer # "none")
  BY DEF Truthful
<1>9. /\ w.installer \in Installers /\ w.requested \in BOOLEAN /\ w.checked \in BOOLEAN
      /\ Bounds(w.nextCheck, w.bootDue) /\ w.shown.state \in UpdateStates
      /\ w.shown.available \in BOOLEAN /\ w.shown.result \in UpdateResults
  BY <1>1, TurnParts
<1> DEFINE Now(i, s, t) == Turn(i, FALSE, w.nextCheck, w.bootDue, Picture(s, w.shown.available, t), w.checked)
<1>2. ASSUME NEW i \in Installers, NEW s \in UpdateStates, NEW t \in UpdateResults,
             t = "running" <=> i # "none", s = "running" <=> i # "none"
      PROVE  Truthful(Now(i, s, t))
  BY <1>2, <1>9, TurnTells, Zenon
<1>3. CASE w.installer # "none"
  <2>1. StartRun(w, spawned) = Now(w.installer, w.shown.state, w.shown.result)
    BY <1>1, <1>3 DEF StartRun, Turn, Picture, TurnStates, UpdateShown
  <2>2. Truthful(Now(w.installer, w.shown.state, w.shown.result))
    BY <1>1, <1>2, <1>9, Zenon
  <2> QED
    BY <2>1, <2>2
<1>4. CASE w.installer = "none" /\ marker
  <2>1. BlockedState(w) \in UpdateStates /\ BlockedState(w) # "running"
    BY DEF BlockedState, UpdateStates
  <2>2. StartRun(w, spawned) = Now("none", BlockedState(w), w.shown.result)
    BY <1>1, <1>4 DEF StartRun, Turn, Picture, TurnStates, UpdateShown
  <2>3. /\ w.shown.result = "running" <=> "none" # "none"
        /\ BlockedState(w) = "running" <=> "none" # "none"
    BY <1>1, <1>4, <2>1
  <2>4. Truthful(Now("none", BlockedState(w), w.shown.result))
    BY <1>2, <1>9, <2>1, <2>3, UpdateWords, Zenon
  <2> QED
    BY <2>2, <2>4
<1>5. CASE w.installer = "none" /\ ~marker /\ ~script
  <2>2. Truthful(Now("none", "update-unavailable", "failed"))
    <3>1. ("failed" = "running" <=> "none" # "none") /\ ("update-unavailable" = "running" <=> "none" # "none")
      OBVIOUS
    <3> QED
      BY <1>2, <3>1, UpdateWords, Zenon
  <2>1. StartRun(w, spawned) = Now("none", "update-unavailable", "failed")
    BY <1>1, <1>5 DEF StartRun, Turn, Picture, TurnStates, UpdateShown
  <2> QED
    BY <2>1, <2>2
<1>6. CASE w.installer = "none" /\ ~marker /\ script /\ ~spawned
  <2>2. Truthful(Now("none", "install-failed", "failed"))
    <3>1. ("failed" = "running" <=> "none" # "none") /\ ("install-failed" = "running" <=> "none" # "none")
      OBVIOUS
    <3> QED
      BY <1>2, <3>1, UpdateWords, Zenon
  <2>1. StartRun(w, spawned) = Now("none", "install-failed", "failed")
    BY <1>1, <1>6 DEF StartRun, Turn, Picture, TurnStates, UpdateShown
  <2> QED
    BY <2>1, <2>2
<1>7. CASE w.installer = "none" /\ ~marker /\ script /\ spawned
  <2>2. Truthful(Now("busy", "running", "running"))
    <3>1. ("running" = "running" <=> "busy" # "none") /\ ("running" = "running" <=> "busy" # "none")
      OBVIOUS
    <3> QED
      BY <1>2, <3>1, UpdateWords, Zenon
  <2>1. StartRun(w, spawned) = Now("busy", "running", "running")
    BY <1>1, <1>7 DEF StartRun, Turn, Picture, TurnStates, UpdateShown
  <2> QED
    BY <2>1, <2>2
<1> QED
  BY <1>3, <1>4, <1>5, <1>6, <1>7

LEMMA BootIsTruthful ==
    ASSUME NEW w, Truthful(w), NEW pressure \in BOOLEAN, NEW spawned \in BOOLEAN,
           marker \in BOOLEAN, script \in BOOLEAN
    PROVE  Truthful(DueBoot(w, pressure, spawned)) /\ Truthful(DueManual(w, spawned))
<1>1. w \in TurnStates /\ (w.shown.result = "running" <=> w.installer # "none")
      /\ (w.shown.state = "running" <=> w.installer # "none")
  BY DEF Truthful
<1>9. /\ w.installer \in Installers /\ w.requested \in BOOLEAN /\ w.checked \in BOOLEAN
      /\ Bounds(w.nextCheck, w.bootDue) /\ w.shown.state \in UpdateStates
      /\ w.shown.available \in BOOLEAN /\ w.shown.result \in UpdateResults
  BY <1>1, TurnParts
<1>2. ASSUME NEW b \in {NotDue, DeferTicks}
      PROVE  Truthful([w EXCEPT !.bootDue = b])
  <2>1. [w EXCEPT !.bootDue = b] = Turn(w.installer, w.requested, w.nextCheck, b, w.shown, w.checked)
    BY <1>1 DEF Turn, TurnStates
  <2>2. Bounds(w.nextCheck, b)
    BY <1>9, UpdateBounds
  <2>3. Truthful(Turn(w.installer, w.requested, w.nextCheck, b,
                      Picture(w.shown.state, w.shown.available, w.shown.result), w.checked))
    <3>1. ASSUME NEW r \in BOOLEAN, NEW a \in BOOLEAN, NEW c \in BOOLEAN
          PROVE  Truthful(Turn(w.installer, r, w.nextCheck, b,
                               Picture(w.shown.state, a, w.shown.result), c))
      <4>1. /\ w.installer \in Installers /\ w.shown.state \in UpdateStates
            /\ w.shown.result \in UpdateResults
        BY <1>9
      <4> QED
        BY <1>1, <2>2, <4>1, TurnTells, Zenon
    <3> QED
      BY <1>9, <3>1, Zenon
  <2>4. w.shown = Picture(w.shown.state, w.shown.available, w.shown.result)
    BY <1>1, TurnParts
  <2> QED
    BY <2>1, <2>3, <2>4
<1>3. Truthful(StartRun(w, spawned)) /\ Truthful(StartRun([w EXCEPT !.bootDue = NotDue], spawned))
  BY <1>2, StartIsTruthful
<1> QED
  BY <1>2, <1>3 DEF DueBoot, DueManual

LEMMA TurnIsTruthful ==
    ASSUME UpdateInv, NEW pressure \in BOOLEAN, NEW answer \in {"newer", "same", "error"},
           NEW bootSpawned \in BOOLEAN, NEW manualSpawned \in BOOLEAN,
           Housekeeping(pressure, answer, bootSpawned, manualSpawned)
    PROVE  UpdateInv'
<1> DEFINE polled == Polled(Working)
           later == DueCheck(polled, pressure, answer)
           booted == DueBoot(later, pressure, bootSpawned)
           w == IF polled.installer # "none" THEN TriggersCleared(polled) ELSE DueManual(booted, manualSpawned)
<1>1. Truthful(Working)
  <2>1. /\ SwLess(nextCheck) \in 0 .. ChooseLarger(CheckTicks, DeferTicks)
        /\ SwLess(bootDue) \in NotDue .. ChooseLarger(BootTicks, DeferTicks)
    BY UpdateTicks DEF UpdateInv, Truthful, TurnStates, UpdateNow, SwLess, NotDue
  <2> QED
    BY <2>1 DEF UpdateInv, Truthful, TurnStates, UpdateNow, Working
<1>2. Truthful(polled)
  BY <1>1, PollingIsTruthful
<1>3. marker \in BOOLEAN /\ script \in BOOLEAN
  BY DEF UpdateInv
<1>4. ASSUME polled.installer # "none"
      PROVE  Truthful(TriggersCleared(polled))
  BY <1>2, <1>4, PollingIsTruthful
<1>5. ASSUME polled.installer = "none"
      PROVE  Truthful(DueManual(booted, manualSpawned))
  <2>1. Truthful(later)
    BY <1>2, <1>3, <1>5, CheckIsTruthful
  <2>2. Truthful(booted)
    BY <1>3, <2>1, BootIsTruthful
  <2> QED
    BY <1>3, <2>2, BootIsTruthful
<1>6. Truthful(w)
  BY <1>4, <1>5
<1>7. UpdateNow' = [installer |-> w.installer, requested |-> w.requested, nextCheck |-> w.nextCheck,
                    bootDue |-> w.bootDue, shown |-> w.shown, checked |-> w.checked]
      /\ UNCHANGED <<marker, script>>
  BY DEF Housekeeping, UpdateNow
<1> HIDE DEF w
<1>8. UpdateNow' = w
  BY <1>6, <1>7 DEF Truthful, TurnStates
<1>9. Truthful(UpdateNow)'
  BY <1>6, <1>8 DEF Truthful, TurnStates, ChooseLarger, NotDue, UpdateShown, Installers, UpdateStates, UpdateResults
<1> QED
  BY <1>3, <1>7, <1>9 DEF UpdateInv

LEMMA UpdateInductive == SwSpec => []UpdateInv
<1>1. SwInit => UpdateInv
  <2> SUFFICES ASSUME SwInit PROVE UpdateInv
    OBVIOUS
  <2> DEFINE none == ""
  <2>1. none \in UpdateResults /\ none # "running"
    BY Zenon DEF UpdateResults
  <2>2. shown = Picture("idle", FALSE, none)
    BY Zenon DEF SwInit, Picture
  <2> HIDE DEF none
  <2>3. UpdateNow = Turn("none", FALSE, 1, bootDue, Picture("idle", FALSE, none), FALSE)
    <3>1. installer = "none" /\ requested = FALSE /\ nextCheck = 1 /\ checked = FALSE
      BY Zenon DEF SwInit
    <3> QED
      BY <2>2, <3>1 DEF UpdateNow, Turn
  <2>4. Bounds(1, bootDue) /\ marker \in BOOLEAN /\ script \in BOOLEAN
    <3>1. bootDue \in {NotDue, BootTicks} /\ marker \in BOOLEAN /\ script \in BOOLEAN
      BY Zenon DEF SwInit
    <3> QED
      BY <3>1, UpdateTicks DEF Bounds, NotDue
  <2>5. /\ none = "running" <=> "none" # "none"
        /\ "idle" = "running" <=> "none" # "none"
        /\ "none" \in Installers /\ "idle" \in UpdateStates
    BY <2>1, UpdateWords
  <2>6. Truthful(UpdateNow)
    BY <2>1, <2>3, <2>4, <2>5, TurnTells, Zenon
  <2> QED
    BY <2>4, <2>6 DEF UpdateInv
<1>2. UpdateInv /\ [SwNext]_swVars => UpdateInv'
  <2> SUFFICES ASSUME UpdateInv, [SwNext]_swVars PROVE UpdateInv'
    OBVIOUS
  <2>1. CASE \E pressure, bootSpawned, manualSpawned \in BOOLEAN, answer \in {"newer", "same", "error"} :
                Housekeeping(pressure, answer, bootSpawned, manualSpawned)
    BY <2>1, TurnIsTruthful
  <2>2. CASE RequestRun
    BY <2>2 DEF RequestRun, UpdateInv, Truthful, TurnStates, UpdateNow
  <2>3. CASE InstallerEnds
    BY <2>3 DEF InstallerEnds, UpdateInv, Truthful, TurnStates, UpdateNow, Installers
  <2>4. CASE MarkerChanges \/ UNCHANGED swVars
    BY <2>4 DEF MarkerChanges, swVars, UpdateInv, Truthful, TurnStates, UpdateNow
  <2> QED
    BY <2>1, <2>2, <2>3, <2>4 DEF SwNext
<1> QED
  BY <1>1, <1>2, PTL DEF SwSpec

\* For any intervals, and whatever coincides in one turn of the housekeeping
\* (a check, the update after boot, a request, the end of an installer, a
\* failed start): what is shown says that an update runs exactly while an
\* installer runs or was not polled yet.
THEOREM UpdateTellsTheTruth == SwSpec => [](SwTypeOK /\ RunningIsTrue)
<1>1. UpdateInv => SwTypeOK /\ RunningIsTrue
  BY DEF UpdateInv, Truthful, TurnStates, UpdateNow, UpdateShown, UpdateStates, Installers,
         SwTypeOK, RunningIsTrue
<1> QED
  BY UpdateInductive, <1>1, PTL

=============================================================================
