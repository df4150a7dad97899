--------------------------- MODULE CommandMailbox ---------------------------
(***************************************************************************)
(* What one locked operation of venus_evcharger/ipc/command_mailbox.py     *)
(* does to one command file.  A mailbox is a directory of JSON files; the  *)
(* file name of a coalesced command is a digest of its coalesce key, so    *)
(* there is at most one file per key.                                      *)
(*                                                                         *)
(* A command keeps the four fields the transport reads:                    *)
(*   rev   mailbox_revision, a uuid drawn for every enqueue;               *)
(*   val   everything the domain put in it (kept whole, never inspected);  *)
(*   rank  command_priority_rank(priority), smaller is more urgent;        *)
(*   at    created_at, wall-clock time.                                    *)
(***************************************************************************)
EXTENDS Integers

CONSTANTS Revisions, Values, Ranks, Times, NoCommand

ASSUME MailboxAssumption == /\ Ranks \subseteq Int
                            /\ Times \subseteq Int

Command == [rev : Revisions, val : Values, rank : Ranks, at : Times]

ASSUME NoCommandAssumption == NoCommand \notin Command

(* Faulty variant: coalescing by time alone. *)
Mutant_NewestReplaces(existing, candidate) == candidate.at >= existing.at

(***************************************************************************)
(* should_replace_command: the candidate wins on a more urgent priority,   *)
(* and on an equal one when it was not created earlier.                    *)
(***************************************************************************)
ShouldReplace(existing, candidate) ==
    \/ candidate.rank < existing.rank
    \/ candidate.rank = existing.rank /\ candidate.at >= existing.at

(***************************************************************************)
(* mark_coalesced_payload: within one priority the generation inherits the *)
(* creation time of the file it replaces.                                  *)
(***************************************************************************)
Coalesced(existing, payload) ==
    IF existing.rank = payload.rank THEN [payload EXCEPT !.at = existing.at]
                                    ELSE payload

(***************************************************************************)
(* enqueue, once the lock is held, for a policy without field merging.     *)
(***************************************************************************)
AfterEnqueue(current, payload) ==
    IF current = NoCommand THEN payload
    ELSE IF ShouldReplace(current, payload) THEN Coalesced(current, payload)
    ELSE current

(***************************************************************************)
(* _same_mailbox_revision for commands that carry a revision, which every  *)
(* enqueued one does.                                                      *)
(***************************************************************************)
IsCurrent(current, expected) ==
    current # NoCommand /\ current.rev = expected.rev

(* Faulty variant: retirement by file name, whatever generation is there. *)
Mutant_RemoveAny(current, expected) == NoCommand

AfterRemoveIfCurrent(current, expected) ==
    IF IsCurrent(current, expected) THEN NoCommand ELSE current

(***************************************************************************)
(* replace_if_current with _preserve_mailbox_identity.                     *)
(***************************************************************************)
AfterReplaceIfCurrent(current, expected, replacement) ==
    IF IsCurrent(current, expected)
    THEN [replacement EXCEPT !.rev = current.rev, !.at = current.at]
    ELSE current
=============================================================================
