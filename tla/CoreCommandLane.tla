--------------------------- MODULE CoreCommandLane --------------------------
(***************************************************************************)
(* The lane that carries a user's write to the control core: the DBus      *)
(* gateway stores it in the core-commands mailbox (_handle_gui_write), and *)
(* RuntimeExecutor of runtime/async_mainloop_executor.py polls the         *)
(* mailbox, hands every command to the control core and retires its file.  *)
(* A handler may fail, the lock needed for the retirement may time out,    *)
(* the user may write again at any moment and the core may crash.          *)
(*                                                                         *)
(* Mailbox operations are atomic here: FileMailbox proves that they are.   *)
(* All commands of this lane have priority "user"; their revisions are     *)
(* numbered in the order in which the gateway accepted the writes.         *)
(***************************************************************************)
EXTENDS CommandMailbox

CONSTANTS
    Targets,      \* one coalesce key "core:<name>:<target>" each
    Reliable,     \* the targets whose handler does not fail for ever
    NoRetry, NoTarget,
    MaxWrites,    \* bound: writes accepted in a behaviour
    MaxCrashes,   \* bound: crashes of the core
    ClockMaySet   \* whether the wall clock may be set back

ASSUME LaneAssumption ==
    /\ MaxWrites \in Nat /\ MaxCrashes \in Nat
    /\ Revisions = 1 .. MaxWrites
    /\ \E user \in Ranks : Ranks = {user}
    /\ ClockMaySet \in BOOLEAN
    /\ NoTarget \notin Targets
    /\ Reliable \subseteq Targets

VARIABLES
    file,       \* the core-commands directory
    batch,      \* what the current poll loaded and has still to process
    retiring,   \* the target whose handler has returned and is being retired
    retry,      \* _core_command_retries
    now,        \* wall clock
    issued,     \* revisions drawn so far
    accepted,   \* the latest write enqueued for each target
    delivered,  \* the latest write whose handler returned
    handled,    \* how often each write's handler returned in this core's life
    crashes

gateway == <<now, issued, accepted>>
core == <<batch, retiring, retry>>
vars == <<file, batch, retiring, retry, now, issued, accepted, delivered,
          handled, crashes>>

Retry == [expected : Command, retireOnly : BOOLEAN, due : BOOLEAN]
ASSUME NoRetryAssumption == NoRetry \notin Retry

NoCommands == [t \in Targets |-> NoCommand]
Loaded == {t \in Targets : batch[t] # NoCommand}

TypeOK ==
    /\ file \in [Targets -> Command \cup {NoCommand}]
    /\ batch \in [Targets -> Command \cup {NoCommand}]
    /\ retiring \in Targets \cup {NoTarget}
    /\ retiring # NoTarget => batch[retiring] # NoCommand
    /\ retry \in [Targets -> Retry \cup {NoRetry}]
    /\ now \in Times
    /\ issued \in 0 .. MaxWrites
    /\ accepted \in [Targets -> 0 .. MaxWrites]
    /\ delivered \in [Targets -> 0 .. MaxWrites]
    /\ handled \in [Targets -> [Revisions -> Nat]]
    /\ crashes \in 0 .. MaxCrashes

Init ==
    /\ file = NoCommands
    /\ batch = NoCommands
    /\ retiring = NoTarget
    /\ retry = [t \in Targets |-> NoRetry]
    /\ now \in Times
    /\ issued = 0
    /\ accepted = [t \in Targets |-> 0]
    /\ delivered = [t \in Targets |-> 0]
    /\ handled = [t \in Targets |-> [r \in Revisions |-> 0]]
    /\ crashes = 0

-----------------------------------------------------------------------------
(* _handle_gui_write: one enqueue; a lock timeout there rejects the write. *)
GuiWrite(t, v, rank) ==
    LET payload == [rev |-> issued + 1, val |-> v, rank |-> rank, at |-> now] IN
    /\ issued < MaxWrites
    /\ issued' = issued + 1
    /\ accepted' = [accepted EXCEPT ![t] = issued + 1]
    /\ file' = [file EXCEPT ![t] = AfterEnqueue(@, payload)]
    /\ UNCHANGED <<batch, retiring, retry, now, delivered, handled, crashes>>

SetClock(t) ==
    /\ t # now
    /\ ClockMaySet \/ t > now
    /\ now' = t
    /\ UNCHANGED <<file, core, issued, accepted, delivered, handled, crashes>>

-----------------------------------------------------------------------------
(* _load_core_pending and the head of _drain_loaded_core_commands: load    *)
(* the directory and forget the retries of files that are gone.  A poll    *)
(* that cannot take the lock changes nothing.                              *)
Poll ==
    /\ Loaded = {}
    /\ batch' = file
    /\ retry' = [t \in Targets |-> IF file[t] = NoCommand THEN NoRetry ELSE retry[t]]
    /\ batch' # batch \/ retry' # retry
    /\ UNCHANGED <<file, retiring, gateway, delivered, handled, crashes>>

(* coalesce sorts by priority and creation time; the file name breaks ties. *)
IsNext(t) ==
    /\ retiring = NoTarget
    /\ t \in Loaded
    /\ \A u \in Loaded : \/ batch[t].rank < batch[u].rank
                         \/ batch[t].rank = batch[u].rank /\ batch[t].at <= batch[u].at

(* Faulty variant: retries are matched by file name alone. *)
Mutant_MatchesAny(t) == retry[t] # NoRetry

(* _matching_retry: a retry belongs to one generation of the file. *)
Matching(t) == retry[t] # NoRetry /\ retry[t].expected = batch[t]

(* _matching_retry also drops a retry of another generation. *)
ForgetOther(t) == [retry EXCEPT ![t] = IF Matching(t) THEN @ ELSE NoRetry]

Done(t) == batch' = [batch EXCEPT ![t] = NoCommand]

(* _retry_is_waiting *)
SkipWaiting(t) ==
    /\ IsNext(t)
    /\ Matching(t) /\ ~retry[t].due
    /\ Done(t)
    /\ UNCHANGED <<file, retiring, retry, gateway, delivered, handled, crashes>>

(* _retry_needs_only_retirement *)
RetireOnly(t) ==
    /\ IsNext(t)
    /\ Matching(t) /\ retry[t].due /\ retry[t].retireOnly
    /\ retiring' = t
    /\ UNCHANGED <<file, batch, retry, gateway, delivered, handled, crashes>>

MayDispatch(t) ==
    /\ IsNext(t)
    /\ Matching(t) => retry[t].due /\ ~retry[t].retireOnly

(* handle_core_command returns. *)
Dispatch(t) ==
    /\ MayDispatch(t)
    /\ retiring' = t
    /\ retry' = ForgetOther(t)
    /\ delivered' = [delivered EXCEPT ![t] = batch[t].rev]
    /\ handled' = [handled EXCEPT ![t][batch[t].rev] = @ + 1]
    /\ UNCHANGED <<file, batch, gateway, crashes>>

(* Faulty variant: a failed retirement is retried from the dispatch on. *)
Mutant_DeferAll(t, retireOnly) ==
    retry' = [retry EXCEPT ![t] = [expected |-> batch[t],
                                   retireOnly |-> FALSE, due |-> FALSE]]

(* _defer_core_command *)
Defer(t, retireOnly) ==
    retry' = [retry EXCEPT ![t] = [expected |-> batch[t],
                                   retireOnly |-> retireOnly, due |-> FALSE]]

(* ... or raises one of ASYNC_CONTROL_COMMAND_ERRORS. *)
DispatchFails(t) ==
    /\ MayDispatch(t)
    /\ Defer(t, FALSE)
    /\ Done(t)
    /\ UNCHANGED <<file, retiring, gateway, delivered, handled, crashes>>

(* Faulty variant: the file is unlinked whatever generation it holds. *)
Mutant_RetireByName(t) ==
    /\ retiring = t
    /\ file' = [file EXCEPT ![t] = NoCommand]
    /\ retry' = [retry EXCEPT ![t] = NoRetry]
    /\ retiring' = NoTarget
    /\ Done(t)
    /\ UNCHANGED <<gateway, delivered, handled, crashes>>

(* _retire_core_command: remove_if_current succeeds or finds a newer       *)
(* generation ...                                                          *)
Retire(t) ==
    /\ retiring = t
    /\ file' = [file EXCEPT ![t] = AfterRemoveIfCurrent(@, batch[t])]
    /\ retry' = [retry EXCEPT ![t] = NoRetry]
    /\ retiring' = NoTarget
    /\ Done(t)
    /\ UNCHANGED <<gateway, delivered, handled, crashes>>

(* ... or cannot take the lock. *)
RetireFails(t) ==
    /\ retiring = t
    /\ Defer(t, TRUE)
    /\ retiring' = NoTarget
    /\ Done(t)
    /\ UNCHANGED <<file, gateway, delivered, handled, crashes>>

(* The delay of core_command_retry_delay has passed. *)
RetryDelayElapses(t) ==
    /\ retry[t] # NoRetry
    /\ ~retry[t].due
    /\ retry' = [retry EXCEPT ![t].due = TRUE]
    /\ UNCHANGED <<file, batch, retiring, gateway, delivered, handled, crashes>>

(* The core dies; the mailbox is on tmpfs and outlives it. *)
Crash ==
    /\ crashes < MaxCrashes
    /\ crashes' = crashes + 1
    /\ batch' = NoCommands
    /\ retiring' = NoTarget
    /\ retry' = [t \in Targets |-> NoRetry]
    /\ handled' = [t \in Targets |-> [r \in Revisions |-> 0]]
    /\ UNCHANGED <<file, gateway, delivered>>

Executor(t) == SkipWaiting(t) \/ RetireOnly(t) \/ Dispatch(t) \/ DispatchFails(t)
               \/ Retire(t) \/ RetireFails(t)

Next ==
    \/ \E t \in Targets, v \in Values, rank \in Ranks : GuiWrite(t, v, rank)
    \/ \E t \in Times : SetClock(t)
    \/ Poll
    \/ \E t \in Targets : Executor(t) \/ RetryDelayElapses(t)
    \/ Crash

(***************************************************************************)
(* The executor thread polls at least every 0.5 s and finishes what it     *)
(* loaded; time passes.  The mailbox lock is not always busy, and the      *)
(* handlers of the reliable targets do not fail each time.  Nothing is     *)
(* assumed of the other targets' handlers.                                 *)
(***************************************************************************)
Fairness ==
    /\ WF_vars(Poll)
    /\ \A t \in Targets : /\ WF_vars(Executor(t))
                          /\ WF_vars(RetryDelayElapses(t))
                          /\ SF_vars(Retire(t))
    /\ \A t \in Reliable : SF_vars(Dispatch(t))

Spec == Init /\ [][Next]_vars /\ Fairness

-----------------------------------------------------------------------------
(***************************************************************************)
(* A write whose handler returned is not handed to the core a second time  *)
(* in the same core process, even if its file could not be unlinked.       *)
(***************************************************************************)
NoRepeatedDispatch == \A t \in Targets, r \in Revisions : handled[t][r] <= 1

(***************************************************************************)
(* No accepted write is lost: the latest one for a target has been handled *)
(* or is still in the mailbox, whatever callbacks, retries, retirements    *)
(* and crashes came in between.                                            *)
(***************************************************************************)
LatestWriteKept ==
    \A t \in Targets : \/ delivered[t] = accepted[t]
                       \/ file[t] # NoCommand /\ file[t].rev = accepted[t]

(***************************************************************************)
(* Why these hold.  With one priority and a clock that is not set back a   *)
(* file always holds the latest write of its target; what the executor has *)
(* loaded is that file or an older generation of it, and nothing newer has *)
(* been delivered; a handled generation that is still in the mailbox is    *)
(* under retirement or marked retire-only.                                 *)
(***************************************************************************)
Marked(t, c) == retry[t] # NoRetry /\ retry[t].retireOnly /\ retry[t].expected = c

Latest(t) ==
    /\ file[t] # NoCommand => file[t].rev = accepted[t] /\ file[t].at <= now
    /\ file[t] = NoCommand => delivered[t] = accepted[t]
    /\ delivered[t] <= accepted[t] /\ accepted[t] <= issued

Inherited(t) ==
    /\ batch[t] # NoCommand =>
          /\ file[t] # NoCommand
          /\ delivered[t] <= batch[t].rev /\ batch[t].rev <= accepted[t]
          /\ batch[t].rev = accepted[t] => batch[t] = file[t]
    /\ retiring = t => batch[t] # NoCommand /\ delivered[t] = batch[t].rev
    /\ retry[t] # NoRetry /\ retry[t].retireOnly
          => retry[t].expected.rev <= delivered[t]

Once(t) ==
    /\ \A r \in Revisions : /\ handled[t][r] <= 1
                            /\ handled[t][r] # 0 => r <= delivered[t]
    /\ file[t] # NoCommand /\ handled[t][file[t].rev] # 0
          => (retiring = t /\ batch[t] = file[t]) \/ Marked(t, file[t])
    /\ batch[t] # NoCommand /\ handled[t][batch[t].rev] # 0
          => retiring = t \/ Marked(t, batch[t])

IInv == TypeOK /\ \A t \in Targets : Latest(t) /\ Inherited(t) /\ Once(t)

(***************************************************************************)
(* The lane implements CommandDelivery: whatever is retried, overwritten   *)
(* or interrupted by a crash, deliveries of a target never go back to an   *)
(* older write and repeat one only in another life of the core.            *)
(***************************************************************************)
Delivery == INSTANCE CommandDelivery
            WITH requested <- accepted, Requests <- Revisions
DeliverySpec == Delivery!Spec

(***************************************************************************)
(* Every write to a reliable target is eventually handled or overtaken by  *)
(* a later handled one, even when another target's handler fails for ever. *)
(***************************************************************************)
EventuallyHandled ==
    \A t \in Reliable : \A r \in Revisions :
        accepted[t] = r ~> delivered[t] >= r
=============================================================================
