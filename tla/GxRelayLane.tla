----------------------------- MODULE GxRelayLane ----------------------------
(***************************************************************************)
(* Switching one GX relay through the DBus gateway.                        *)
(*                                                                         *)
(* The core enqueues "relay on" or "relay off" commands (one coalesce key  *)
(* per relay; off has priority safety, on has priority user and a          *)
(* deadline).  The gateway's main loop takes a snapshot of the mailbox at  *)
(* the start of a tick, starts at most one asynchronous DBus call and      *)
(* keeps the progress of the command in its file:                          *)
(*                                                                         *)
(*   manual_read -> (manual_write ->) output -> verify [-> retry -> verify] *)
(*                                                                         *)
(* The services on the bus are external: each serves its requests in       *)
(* order, may refuse one, may answer after the gateway's timeout, and the  *)
(* contact may fail to follow a write.  Mailbox operations are atomic, see *)
(* FileMailbox.                                                            *)
(***************************************************************************)
EXTENDS CommandMailbox, FiniteSets, Sequences, SequencesExt

CONSTANTS
    EnsureManual,    \* EnsureManualFunction of the backend's configuration
    Targets,         \* manual_function_paths: 0..1 for relay 0, {0} for relay 1
    Existing,        \* the targets that this Venus release serves
    NormallyClosed,  \* ContactMode NC
    NoFlight,
    MaxRequests,     \* bound: commands enqueued in a behaviour
    MaxOutstanding,  \* bound: calls sent and not yet answered
    MaxCrashes       \* bound: gateway crashes

Safety == 0
User == 1
Late == 0            \* created more than deadline_s ago
Fresh == 1

Phases == {"manual_read", "manual_write", "output", "verify", "retry"}
Progress == [on : BOOLEAN, phase : Phases, target : Targets, retries : 0 .. 1,
             ready : BOOLEAN]

ASSUME RelayAssumption ==
    /\ MaxRequests \in Nat /\ MaxOutstanding \in Nat /\ MaxCrashes \in Nat
    /\ Revisions = 1 .. MaxRequests
    /\ Ranks = {Safety, User} /\ Times = {Late, Fresh} /\ Values = Progress
    /\ Targets \in {{0}, {0, 1}} /\ Existing \subseteq Targets
    /\ EnsureManual \in BOOLEAN /\ NormallyClosed \in BOOLEAN

VARIABLES
    file,       \* the command file of this relay
    tick,       \* the tick's snapshot: <<>> outside of a tick, else <<command>>
    flight,     \* the broker's operation in flight: its call and its command
    wire,       \* calls sent and not yet served, oldest first
    replies,    \* answers on their way back
    relay,      \* energized or idle, as read back
    manual,     \* whether each target selects the manual function
    issued, crashes,
    written,    \* history: the command of the last relay write served
    confirmed   \* history: the last command whose verification succeeded

bus == <<wire, replies, relay, manual, written>>
vars == <<file, tick, flight, wire, replies, relay, manual, issued, crashes,
          written, confirmed>>

Calls == {"read_function", "write_function", "write_relay", "read_relay"}
Ids == 1 .. MaxOutstanding

(* What a service answers: an acknowledgement, a value, an error. *)
Energized == "energized"
Idle == "idle"
Answers == {"ok", "manual", "other", "error", Energized, Idle}

-----------------------------------------------------------------------------
(* target_state *)
TargetState(c) == IF c.on # NormallyClosed THEN Energized ELSE Idle

(* gx_relay_set_command, stamped by the mailbox. *)
SetCommand(rev, on) ==
    [rev |-> rev, rank |-> IF on THEN User ELSE Safety, at |-> Fresh,
     val |-> [on |-> on, phase |-> IF EnsureManual THEN "manual_read" ELSE "output",
              target |-> 0, retries |-> 0, ready |-> TRUE]]

(* command_deadline_expired: only an on command has a deadline. *)
Expired(c) == c.val.on /\ c.at = Late

(* The call made in each phase, by the handlers of _set_gx_relay. *)
CallOf(c) ==
    CASE c.val.phase = "manual_read"  -> "read_function"
      [] c.val.phase = "manual_write" -> "write_function"
      [] c.val.phase = "verify"       -> "read_relay"
      [] OTHER                        -> "write_relay"

CallTo(id, c) == [id |-> id, call |-> CallOf(c), rev |-> c.rev, on |-> c.val.on,
                  target |-> c.val.target]

Destination(call) ==
    IF call \in {"read_function", "write_function"} THEN "settings" ELSE "system"

Flight == [id : Ids, cmd : Command]
Call == [id : Ids, call : Calls, rev : Revisions, on : BOOLEAN, target : Targets]
Mark == [rev : Revisions, on : BOOLEAN]
NoMark == [rev |-> 0, on |-> FALSE]

TypeOK ==
    /\ file \in Command \cup {NoCommand}
    /\ tick = <<>> \/ tick \in {<<c>> : c \in Command}
    /\ flight \in Flight \cup {NoFlight}
    /\ wire \in Seq(Call)
    /\ replies \subseteq [id : Ids, answer : Answers]
    /\ relay \in {Energized, Idle} /\ manual \in [Targets -> BOOLEAN]
    /\ issued \in 0 .. MaxRequests /\ crashes \in 0 .. MaxCrashes
    /\ written \in Mark \cup {NoMark}
    /\ confirmed \in Mark \cup {NoMark}

Init ==
    /\ file = NoCommand /\ tick = <<>> /\ flight = NoFlight
    /\ wire = <<>> /\ replies = {}
    /\ relay \in {Energized, Idle}
    /\ manual \in {m \in [Targets -> BOOLEAN] : \A t \in Targets \ Existing : ~m[t]}
    /\ issued = 0 /\ crashes = 0
    /\ written = NoMark /\ confirmed = NoMark

-----------------------------------------------------------------------------
(***************************************************************************)
(* set_gx_relay_enabled: the command is accepted, although a pending more  *)
(* urgent one stays in place.                                              *)
(***************************************************************************)
SetEnabled(on) ==
    /\ issued < MaxRequests
    /\ issued' = issued + 1
    /\ file' = AfterEnqueue(file, SetCommand(issued + 1, on))
    /\ UNCHANGED <<tick, flight, bus, crashes, confirmed>>

Aged(c) == IF c = NoCommand THEN c ELSE [c EXCEPT !.at = Late]
Due(c) == IF c = NoCommand THEN c ELSE [c EXCEPT !.val.ready = TRUE]
InTick(f(_)) == IF tick = <<>> THEN <<>> ELSE <<f(tick[1])>>

(* Time passes: the deadline of the pending command ... *)
DeadlinePasses ==
    /\ file # NoCommand /\ file.val.on /\ file.at = Fresh
    /\ file' = Aged(file) /\ tick' = InTick(Aged)
    /\ UNCHANGED <<flight, bus, issued, crashes, confirmed>>

(* ... or its not_before. *)
NotBeforePasses ==
    /\ file # NoCommand /\ ~file.val.ready
    /\ file' = Due(file)
    /\ UNCHANGED <<tick, flight, bus, issued, crashes, confirmed>>

-----------------------------------------------------------------------------
(* begin_tick: one decoded view for the whole tick. *)
BeginTick ==
    /\ tick = <<>> /\ flight = NoFlight
    /\ file # NoCommand
    /\ tick' = <<file>>
    /\ UNCHANGED <<file, flight, bus, issued, crashes, confirmed>>

(* _drop_expired_command *)
DropExpired ==
    /\ tick # <<>> /\ tick[1].val.ready /\ Expired(tick[1])
    /\ file' = AfterRemoveIfCurrent(file, tick[1])
    /\ tick' = <<>>
    /\ UNCHANGED <<flight, bus, issued, crashes, confirmed>>

(* The tick ends without a call: not ready yet, circuit open, rate budget  *)
(* exhausted, or the broker given to a read.                               *)
EndTick ==
    /\ tick # <<>>
    /\ tick' = <<>>
    /\ UNCHANGED <<file, flight, bus, issued, crashes, confirmed>>

Outstanding == {wire[i].id : i \in DOMAIN wire} \cup {r.id : r \in replies}

(***************************************************************************)
(* _dispatch_loaded_command and submit: the broker is idle, the call gets  *)
(* an operation id that no outstanding call has.                           *)
(***************************************************************************)
Dispatch ==
    /\ tick # <<>> /\ tick[1].val.ready /\ ~Expired(tick[1])
    /\ LET free == Ids \ Outstanding
       IN \E id \in free :
            /\ \A other \in free : id <= other
            /\ flight' = [id |-> id, cmd |-> tick[1]]
            /\ wire' = Append(wire, CallTo(id, tick[1]))
    /\ tick' = <<>>
    /\ UNCHANGED <<file, replies, relay, manual, issued, crashes, written, confirmed>>

-----------------------------------------------------------------------------
(* The services, external. *)
Oldest(i) == \A j \in 1 .. i - 1 :
                Destination(wire[j].call) # Destination(wire[i].call)

Reply(i, answer) ==
    /\ wire' = RemoveAt(wire, i)
    /\ replies' = replies \cup {[id |-> wire[i].id, answer |-> answer]}

ServeRead(i) ==
    /\ Oldest(i)
    /\ \/ wire[i].call = "read_relay" /\ \E v \in {relay, "other"} : Reply(i, v)
       \/ /\ wire[i].call = "read_function"
          /\ wire[i].target \in Existing
          /\ Reply(i, IF manual[wire[i].target] THEN "manual" ELSE "other")
    /\ UNCHANGED <<file, tick, flight, relay, manual, issued, crashes, written, confirmed>>

ServeFunction(i) ==
    /\ Oldest(i) /\ wire[i].call = "write_function"
    /\ wire[i].target \in Existing
    /\ manual' = [manual EXCEPT ![wire[i].target] = TRUE]
    /\ Reply(i, "ok")
    /\ UNCHANGED <<file, tick, flight, relay, issued, crashes, written, confirmed>>

(* The write is acknowledged; the contact may stay where it is. *)
ServeRelay(i) ==
    /\ Oldest(i) /\ wire[i].call = "write_relay"
    /\ relay' \in {relay, TargetState(wire[i])}
    /\ written' = [rev |-> wire[i].rev, on |-> wire[i].on]
    /\ Reply(i, "ok")
    /\ UNCHANGED <<file, tick, flight, manual, issued, crashes, confirmed>>

Refuse(i) ==
    /\ Oldest(i)
    /\ Reply(i, "error")
    /\ UNCHANGED <<file, tick, flight, relay, manual, issued, crashes, written, confirmed>>

-----------------------------------------------------------------------------
(* _rewrite: the next progress of a command, if its file still holds it. *)
Rewrite(c, progress) ==
    file' = AfterReplaceIfCurrent(file, c, [c EXCEPT !.val = progress])

(* Faulty variant: retirement by file name. *)
Mutant_RetireByName(c) == file' = NoCommand

(* _finalize_loaded_command for the outcomes applied and dropped. *)
RetireCommand(c) == file' = AfterRemoveIfCurrent(file, c)

(* Faulty variant: the alternate target is never tried. *)
Mutant_PrimaryOnly(c) == Rewrite(c, [c.val EXCEPT !.ready = FALSE])

(* _manual_fallback: the alternate target, or wait and try again. *)
ManualFallback(c) ==
    Rewrite(c, IF c.val.target + 1 \in Targets
               THEN [c.val EXCEPT !.phase = "manual_read", !.target = @ + 1]
               ELSE [c.val EXCEPT !.ready = FALSE])

(* Faulty variant: a mismatch is always retried. *)
Mutant_AlwaysRetry(c, answer) ==
    IF answer = TargetState(c.val) THEN RetireCommand(c)
    ELSE Rewrite(c, [c.val EXCEPT !.phase = "retry", !.ready = FALSE])

(* _verify_relay_outcome: a mismatch is retried once and then given up. *)
VerifyOutcome(c, answer) ==
    IF answer = TargetState(c.val) \/ c.val.retries # 0 THEN RetireCommand(c)
    ELSE Rewrite(c, [c.val EXCEPT !.phase = "retry", !.ready = FALSE])

(* The on_success of each phase. *)
OnSuccess(c, answer) ==
    \/ /\ c.val.phase = "manual_read"
       /\ Rewrite(c, [c.val EXCEPT !.phase = IF answer = "manual" THEN "output"
                                             ELSE "manual_write"])
    \/ /\ c.val.phase = "manual_write"
       /\ Rewrite(c, [c.val EXCEPT !.phase = "output"])
    \/ /\ c.val.phase = "output"
       /\ Rewrite(c, [c.val EXCEPT !.phase = "verify", !.ready = FALSE])
    \/ /\ c.val.phase = "retry"
       /\ Rewrite(c, [c.val EXCEPT !.phase = "verify", !.ready = FALSE,
                                   !.retries = @ + 1])
    \/ /\ c.val.phase = "verify"
       /\ VerifyOutcome(c, answer)

(* The on_error of each phase: a failed read-back is not repeated. *)
OnError(c) ==
    \/ c.val.phase \in {"manual_read", "manual_write"} /\ ManualFallback(c)
    \/ c.val.phase \in {"output", "retry"} /\ UNCHANGED file
    \/ c.val.phase = "verify" /\ RetireCommand(c)

(* _invoke_error: its mailbox operation may find the lock busy. *)
ErrorCallback(c) == OnError(c) \/ UNCHANGED file

(* Faulty variant: a state that was read confirms the write, whatever it is. *)
Mutant_AnyStateConfirms(c, answer) == c.val.phase = "verify"

Confirms(c, answer) == c.val.phase = "verify" /\ answer = TargetState(c.val)

(* _take_current *)
Take(r) ==
    /\ tick = <<>> /\ flight # NoFlight /\ r.id = flight.id
    /\ flight' = NoFlight
    /\ replies' = replies \ {r}
    /\ UNCHANGED <<tick, wire, relay, manual, issued, crashes, written>>

Succeed(r) ==
    /\ r.answer # "error" /\ Take(r)
    /\ OnSuccess(flight.cmd, r.answer)
    /\ confirmed' = IF Confirms(flight.cmd, r.answer)
                  THEN [rev |-> flight.cmd.rev, on |-> flight.cmd.val.on]
                  ELSE confirmed

Fail(r) ==
    /\ r.answer = "error" /\ Take(r)
    /\ ErrorCallback(flight.cmd)
    /\ UNCHANGED confirmed

(***************************************************************************)
(* _invoke_success when the mailbox lock is busy: the exception goes to    *)
(* on_error, whose own mailbox operation may succeed or fail in turn.  A   *)
(* command that was confirmed has already used its one completion.         *)
(***************************************************************************)
CallbackFails(r) ==
    /\ r.answer # "error" /\ Take(r)
    /\ \/ UNCHANGED file
       \/ ~Confirms(flight.cmd, r.answer) /\ OnError(flight.cmd)
    /\ confirmed' = IF Confirms(flight.cmd, r.answer)
                  THEN [rev |-> flight.cmd.rev, on |-> flight.cmd.val.on]
                  ELSE confirmed

(* The answer of a call that has timed out or belongs to a dead gateway. *)
IgnoreLate(r) ==
    /\ tick = <<>> /\ (flight # NoFlight => r.id # flight.id)
    /\ replies' = replies \ {r}
    /\ UNCHANGED <<file, tick, flight, wire, relay, manual, issued, crashes,
                   written, confirmed>>

(* expire_due; the call itself may still be served. *)
Timeout ==
    /\ tick = <<>> /\ flight # NoFlight
    /\ ErrorCallback(flight.cmd)
    /\ flight' = NoFlight
    /\ UNCHANGED <<tick, bus, issued, crashes, confirmed>>

(* The gateway dies and is restarted; its mailbox is on tmpfs. *)
Crash ==
    /\ crashes < MaxCrashes
    /\ crashes' = crashes + 1
    /\ tick' = <<>> /\ flight' = NoFlight
    /\ UNCHANGED <<file, bus, issued, confirmed>>

Serve(i) == ServeRead(i) \/ ServeFunction(i) \/ ServeRelay(i) \/ Refuse(i)

Next ==
    \/ \E on \in BOOLEAN : SetEnabled(on)
    \/ DeadlinePasses \/ NotBeforePasses
    \/ BeginTick \/ DropExpired \/ EndTick \/ Dispatch
    \/ \E i \in DOMAIN wire : Serve(i)
    \/ \E r \in replies : Succeed(r) \/ Fail(r) \/ CallbackFails(r) \/ IgnoreLate(r)
    \/ Timeout
    \/ Crash

(***************************************************************************)
(* The main loop keeps ticking, time passes, the services answer.  A call  *)
(* that is made again and again is answered in time now and then, is not   *)
(* refused each time unless its target does not exist, and its callback    *)
(* does not find the mailbox lock busy each time.                          *)
(***************************************************************************)
AnsweredInTime == \E i \in DOMAIN wire :
    flight # NoFlight /\ wire[i].id = flight.id /\ Serve(i)

GrantedInTime(call) == \E i \in DOMAIN wire :
    /\ flight # NoFlight /\ wire[i].id = flight.id /\ wire[i].call = call
    /\ ServeRead(i) \/ ServeFunction(i) \/ ServeRelay(i)

Completed(call) ==
    /\ flight # NoFlight /\ CallOf(flight.cmd) = call
    /\ \E r \in replies : Succeed(r)

FailureHandled == \E r \in replies : Fail(r) /\ OnError(flight.cmd)

Fairness ==
    /\ WF_vars(NotBeforePasses) /\ WF_vars(BeginTick)
    /\ WF_vars(DropExpired \/ EndTick \/ Dispatch) /\ SF_vars(Dispatch)
    /\ WF_vars(\E i \in DOMAIN wire : Serve(i))
    /\ SF_vars(\E r \in replies : IgnoreLate(r))
    /\ WF_vars(Timeout)
    /\ SF_vars(AnsweredInTime)
    /\ SF_vars(FailureHandled)
    /\ \A call \in Calls : SF_vars(GrantedInTime(call)) /\ SF_vars(Completed(call))

Spec == Init /\ [][Next]_vars /\ Fairness

\* From one of the initial states: the relay is energized and its function is
\* still to be set to manual.
SettledInit == Init /\ relay = Energized /\ \A t \in Targets : ~manual[t]
SettledSpec == SettledInit /\ [][Next]_vars /\ Fairness

-----------------------------------------------------------------------------
Pending(c) == file # NoCommand /\ file.rev = c.rev

(***************************************************************************)
(* No command leaves the mailbox unserved: its file disappears or changes  *)
(* hands only after the system service executed its write, for a newer     *)
(* command, or (an on command) past its deadline.  In particular neither a *)
(* late answer nor a completion of an older command retires a newer one.   *)
(***************************************************************************)
RetiredOnlyWhenServed ==
    [][file # NoCommand /\ ~Pending(file)'
          => \/ file' # NoCommand /\ file'.rev > file.rev
             \/ written.rev = file.rev
             \/ Expired(file)]_vars

(***************************************************************************)
(* A confirmed command really took effect: until the service executes the  *)
(* write of a newer command the relay is where the confirmed command       *)
(* wanted it, whatever delayed writes and answers are still under way.     *)
(***************************************************************************)
ConfirmedHolds ==
    confirmed # NoMark /\ written.rev <= confirmed.rev
        => relay = TargetState(confirmed)

-----------------------------------------------------------------------------
(* Why these two hold: the inductive invariant.  The commands around are    *)
(* the one in the file, the one in the tick's snapshot, the one in flight.  *)
Held == {c \in {file} : c # NoCommand} \cup {tick[i] : i \in DOMAIN tick}
            \cup (IF flight = NoFlight THEN {} ELSE {flight.cmd})

(* The operation in flight is the last call on the wire, if it has not been *)
(* answered.  Once answered, nothing else on its way to the system service  *)
(* can move the relay, and a successful write has been executed.            *)
InFlight ==
    flight # NoFlight =>
        /\ tick = <<>>
        /\ \A i \in DOMAIN wire : wire[i].id = flight.id =>
               i = Len(wire) /\ wire[i] = CallTo(flight.id, flight.cmd)
        /\ \A r \in replies : r.id = flight.id =>
               /\ \A i \in DOMAIN wire : wire[i].id # flight.id
               /\ flight.cmd.val.phase = "verify" =>
                      /\ r.answer \in {relay, "other", "error"}
                      /\ \A i \in DOMAIN wire : Destination(wire[i].call) # "system"
               /\ flight.cmd.val.phase \in {"output", "retry"} /\ r.answer # "error"
                      => written.rev >= flight.cmd.rev

(* Generations never run backwards, neither on the wire nor at the relay.   *)
InOrder ==
    /\ written.rev <= issued /\ confirmed.rev <= issued
    /\ \A i \in DOMAIN wire : wire[i].rev <= issued
    /\ \A i, j \in DOMAIN wire : i < j => wire[i].rev <= wire[j].rev
    /\ \A i \in DOMAIN wire :
           wire[i].call = "write_relay" => written.rev <= wire[i].rev
    /\ \A c \in Held :
           /\ written.rev <= c.rev /\ c.rev <= issued
           /\ file # NoCommand => c.rev <= file.rev
           /\ \A i \in DOMAIN wire : wire[i].rev <= c.rev

(* Copies of one generation want the same, and expire together.             *)
Agree ==
    file # NoCommand =>
        /\ \A c \in Held : c.rev = file.rev => c.val.on = file.val.on
        /\ \A i \in DOMAIN tick : tick[i].rev = file.rev => tick[i].at = file.at

(* A command is only verified after its write has been executed.            *)
VerifiedWasWritten ==
    \A c \in Held : c.val.phase \in {"verify", "retry"} => written.rev >= c.rev

(* The one retry has not been used when it is due.                          *)
OneRetry == \A c \in Held : c.val.phase = "retry" => c.val.retries = 0

(* Nothing older than the last confirmed command is still on its way.       *)
ConfirmedIsLatest ==
    confirmed # NoMark =>
        /\ \A c \in Held :
               /\ c.rev >= confirmed.rev
               /\ c.rev = confirmed.rev => c.val.on = confirmed.on
        /\ \A i \in DOMAIN wire : wire[i].call = "write_relay" =>
               /\ wire[i].rev >= confirmed.rev
               /\ wire[i].rev = confirmed.rev => wire[i].on = confirmed.on

RelayInv ==
    /\ TypeOK /\ InFlight /\ InOrder /\ Agree
    /\ VerifiedWasWritten /\ OneRetry /\ ConfirmedIsLatest /\ ConfirmedHolds

-----------------------------------------------------------------------------
(***************************************************************************)
(* Every switch-off is eventually executed and retired, or overtaken by a  *)
(* newer command: no refusal, timeout, retry or crash leaves it pending    *)
(* for ever.                                                               *)
(***************************************************************************)
OffResolved ==
    \A n \in Revisions :
        (file # NoCommand /\ file.rev = n /\ ~file.val.on)
            ~> (file = NoCommand \/ file.rev # n)
=============================================================================
