--------------------------- MODULE CapacityEstimate ---------------------------
(***************************************************************************)
(* The native helper's one-time persistence of an inferred battery         *)
(* capacity (rust/auto-input-helper capacity_persistence.rs): an estimate  *)
(* that three refreshes in a row agree on, once the start-up recheck has   *)
(* passed, replaces the one in the configuration file.  Reading the file   *)
(* and writing it back are two steps, between which the owner, the wizard  *)
(* or the updater may have changed it.                                     *)
(*                                                                         *)
(* An estimate is a number; 0 stands for none.  Equal numbers stand for    *)
(* estimates within the tolerances of stable_with.                         *)
(***************************************************************************)
EXTENDS Integers, Sequences

CONSTANTS
    CeEstimates,      \* the capacities that may be inferred
    StableNeeded,   \* REQUIRED_STABLE_SAMPLES
    MaxWrites,      \* MAX_WRITE_ATTEMPTS
    RecheckTicks,   \* capacity_startup_recheck_seconds, in refreshes
    RetryRefreshes, \* WRITE_RETRY_SECONDS, in refreshes
    MaxEdits        \* edits of the file by others that are looked at

ASSUME CeAssumption ==
    /\ CeEstimates \subseteq Nat \ {0}
    /\ {StableNeeded, MaxWrites} \subseteq Nat \ {0}
    /\ {RecheckTicks, RetryRefreshes, MaxEdits} \subseteq Nat

VARIABLES
    ini,        \* the file: estimate, an explicit capacity, edits by others
    keeper,     \* CapacityPersistence
    draft,      \* the text read, while it is being written back
    recent      \* the last StableNeeded estimates this process has seen

ceVars == <<ini, keeper, draft, recent>>

NoDraft == [open |-> FALSE, estimate |-> 0, explicit |-> FALSE, edits |-> 0]

\* CapacityPersistence::new: only without an explicit capacity
NewKeeper(file) ==
    [enabled |-> ~file.explicit, complete |-> file.explicit, configured |-> file.estimate,
     candidate |-> 0, stable |-> 0, attempts |-> 0,
     notBefore |-> RecheckTicks, retryIn |-> 0]

----------------------------------------------------------------------------
\* inferred_capacity_candidate: capacity, SOC and voltage known together, the
\* chemistry LFP; 0 when any is missing
Inferred == CeEstimates \cup {0}

\* stable_with
StableWith(candidate, estimate) == candidate = estimate

Mutant_GapIgnored(k, estimate) ==
    CASE estimate = 0 -> k
      [] estimate # 0 /\ k.candidate # 0 /\ StableWith(k.candidate, estimate) ->
           [k EXCEPT !.stable = IF @ < StableNeeded THEN @ + 1 ELSE @]
      [] OTHER -> [k EXCEPT !.candidate = estimate, !.stable = 1]

\* observe, its first half: a missing estimate starts the count again, another
\* one becomes the candidate
Counted_(k, estimate) ==
    CASE estimate = 0 -> [k EXCEPT !.candidate = 0, !.stable = 0]
      [] estimate # 0 /\ k.candidate # 0 /\ StableWith(k.candidate, estimate) ->
           [k EXCEPT !.stable = IF @ < StableNeeded THEN @ + 1 ELSE @]
      [] OTHER -> [k EXCEPT !.candidate = estimate, !.stable = 1]

RecheckDue(k) == k.stable >= StableNeeded /\ k.notBefore = 0 /\ k.retryIn = 0

\* the error branch of observe
WriteFailed(k) ==
    [k EXCEPT !.attempts = @ + 1, !.retryIn = RetryRefreshes,
              !.complete = k.attempts + 1 >= MaxWrites]

Passed(k) == [k EXCEPT !.notBefore = IF @ > 0 THEN @ - 1 ELSE 0,
                       !.retryIn = IF @ > 0 THEN @ - 1 ELSE 0]

Noted(estimate) == Append(SubSeq(recent, 2, StableNeeded), estimate)

\* observe, called with every refresh: nothing to do, the estimate is the
\* configured one, or persist_estimate reads the file (which may fail)
Observe ==
    /\ ~draft.open
    /\ \E estimate \in Inferred :
         LET counted == Counted_(keeper, estimate)
         IN  /\ recent' = Noted(estimate)
             /\ IF ~keeper.enabled \/ keeper.complete
                THEN keeper' = Passed(keeper) /\ UNCHANGED draft
                ELSE IF ~(estimate # 0 /\ RecheckDue(counted))
                THEN keeper' = Passed(counted) /\ UNCHANGED draft
                ELSE IF counted.configured = estimate
                THEN keeper' = [Passed(counted) EXCEPT !.complete = TRUE] /\ UNCHANGED draft
                ELSE \/ keeper' = WriteFailed(counted) /\ UNCHANGED draft
                     \/ keeper' = counted
                        /\ draft' = [open |-> TRUE, estimate |-> ini.estimate,
                                     explicit |-> ini.explicit, edits |-> ini.edits]
    /\ UNCHANGED ini

\* upsert_default_values: the estimate's four keys, everything else as read
Upsert(text, estimate) == [estimate |-> estimate, explicit |-> text.explicit, edits |-> text.edits]

\* persist_estimate, its second half: the file already holds the estimate, or
\* write_atomic replaces it or fails
Persist ==
    /\ draft.open
    /\ \/ /\ ini' = IF draft.estimate = keeper.candidate THEN ini
                    ELSE Upsert(draft, keeper.candidate)
          /\ keeper' = [Passed(keeper) EXCEPT !.complete = TRUE]
       \/ /\ keeper' = WriteFailed(keeper)
          /\ UNCHANGED ini
    /\ draft' = NoDraft
    /\ UNCHANGED recent

\* the process ends, in the middle of a write too, and starts again
HelperStartsAgain ==
    /\ keeper' = NewKeeper(ini)
    /\ draft' = NoDraft
    /\ recent' = [i \in 1 .. StableNeeded |-> 0]
    /\ UNCHANGED ini

\* the owner, the wizard or the updater changes the file
OthersEdit ==
    /\ ini.edits < MaxEdits
    /\ \E explicit \in BOOLEAN :
         ini' = [ini EXCEPT !.edits = @ + 1, !.explicit = explicit]
    /\ UNCHANGED <<keeper, draft, recent>>

CeInit ==
    /\ ini \in [estimate : Inferred, explicit : BOOLEAN, edits : {0}]
    /\ keeper = NewKeeper(ini)
    /\ draft = NoDraft
    /\ recent = [i \in 1 .. StableNeeded |-> 0]

CeNext == Observe \/ Persist \/ HelperStartsAgain \/ OthersEdit

CeSpec == CeInit /\ [][CeNext]_ceVars

----------------------------------------------------------------------------
\* Shape of the state: the type invariant of this component.
CeTypeOK ==
    /\ ini \in [estimate : Inferred, explicit : BOOLEAN, edits : 0 .. MaxEdits]
    /\ keeper.stable \in 0 .. StableNeeded /\ keeper.attempts \in 0 .. MaxWrites
    /\ keeper.candidate \in Inferred /\ recent \in [1 .. StableNeeded -> Inferred]
    /\ draft.open => keeper.candidate # 0

\* The estimate in the file only ever changes to one that the last
\* StableNeeded refreshes of the running process agreed on: neither a gap in
\* the measurements, nor a failed write retried later, nor a restart, lets an
\* estimate be written that was not seen so often in a row
\* (capacity_persistence.rs observe).
PersistEarned ==
    [][ini'.estimate # ini.estimate =>
        \A i \in 1 .. StableNeeded : recent[i] = ini'.estimate]_ceVars
===============================================================================
