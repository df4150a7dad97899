----------------------------- MODULE FileMailbox ----------------------------
(***************************************************************************)
(* FileCommandMailbox of venus_evcharger/ipc/command_mailbox.py at the     *)
(* grain of its system calls.  Several processes (the core, the DBus       *)
(* gateway, its observers) share one command directory.  An operation      *)
(* waits for the flock, reads the files it needs one by one, writes or     *)
(* unlinks at most one of them and gives the lock back; any process may    *)
(* die between two of these steps, which releases its lock.  A process     *)
(* that may not open the lock file can still load, without the lock.       *)
(*                                                                         *)
(* Files are replaced by rename (write_text_atomically), so a reader never *)
(* sees half a file and a crash before the rename changes nothing.         *)
(***************************************************************************)
EXTENDS CommandMailbox, TLC

CONSTANTS
    Procs,
    Observers,  \* those whose open of .mailbox.lock raises PermissionError
    Keys,
    NoProc,
    NoKey

ASSUME ProcAssumption == NoProc \notin Procs /\ Observers \subseteq Procs

VARIABLES
    file,   \* the directory: the command stored under each key
    lock,   \* the process that holds .mailbox.lock
    pc,     \* where each process is in its current operation
    op,     \* that operation and its arguments
    todo,   \* the files it has still to read
    seen,   \* what it read of them
    view,   \* the result of its last load_pending
    used,   \* the revisions drawn so far
    now     \* wall-clock time, which may be set back

vars == <<file, lock, pc, op, todo, seen, view, used, now>>

(* Processes, files, generations and contents are interchangeable: the      *)
(* transport compares them for equality only.                              *)
Symmetry == UNION {Permutations(Procs \ Observers), Permutations(Observers),
                   Permutations(Keys), Permutations(Revisions),
                   Permutations(Values)}

Kinds == {"none", "enqueue", "remove", "replace", "load"}
Mutations == {"enqueue", "remove", "replace"}
Operation == [kind : Kinds, key : Keys \cup {NoKey},
              expected : Command \cup {NoCommand},
              payload : Command \cup {NoCommand}]
NoOperation == [kind |-> "none", key |-> NoKey,
                expected |-> NoCommand, payload |-> NoCommand]
Empty == [k \in Keys |-> NoCommand]

TypeOK ==
    /\ file \in [Keys -> Command \cup {NoCommand}]
    /\ lock \in Procs \cup {NoProc}
    /\ pc \in [Procs -> {"idle", "wait", "read", "write", "unlock"}]
    /\ op \in [Procs -> Operation]
    /\ todo \in [Procs -> SUBSET Keys]
    /\ seen \in [Procs -> [Keys -> Command \cup {NoCommand}]]
    /\ view \in [Procs -> [Keys -> Command \cup {NoCommand}]]
    /\ used \subseteq Revisions
    /\ now \in Times

Init ==
    /\ file = Empty
    /\ lock = NoProc
    /\ pc = [p \in Procs |-> "idle"]
    /\ op = [p \in Procs |-> NoOperation]
    /\ todo = [p \in Procs |-> {}]
    /\ seen = [p \in Procs |-> Empty]
    /\ view = [p \in Procs |-> Empty]
    /\ used = {}
    /\ now \in Times

-----------------------------------------------------------------------------
(* Beginning an operation: its payload is built before the lock is taken.  *)
(* An observer's raises PermissionError instead and changes nothing.       *)

Begin(p, o, keys) ==
    /\ p \notin Observers
    /\ pc[p] = "idle"
    /\ pc' = [pc EXCEPT ![p] = "wait"]
    /\ op' = [op EXCEPT ![p] = o]
    /\ todo' = [todo EXCEPT ![p] = keys]
    /\ UNCHANGED <<file, lock, seen, view, now>>

(* enqueue and _new_payload: a fresh revision, stamped with the clock. *)
BeginEnqueue(p, k, r, v, rank) ==
    LET payload == [rev |-> r, val |-> v, rank |-> rank, at |-> now] IN
    /\ r \notin used
    /\ used' = used \cup {r}
    /\ Begin(p, [kind |-> "enqueue", key |-> k,
                 expected |-> NoCommand, payload |-> payload], {k})

(* remove_if_current with a command this process loaded earlier. *)
BeginRemove(p, k) ==
    /\ view[p][k] # NoCommand
    /\ Begin(p, [kind |-> "remove", key |-> k,
                 expected |-> view[p][k], payload |-> NoCommand], {k})
    /\ UNCHANGED used

(* replace_if_current: the loaded command with some of its fields changed. *)
BeginReplace(p, k, v) ==
    /\ view[p][k] # NoCommand
    /\ Begin(p, [kind |-> "replace", key |-> k, expected |-> view[p][k],
                 payload |-> [view[p][k] EXCEPT !.val = v]], {k})
    /\ UNCHANGED used

Loading == [NoOperation EXCEPT !.kind = "load"]

BeginLoad(p) ==
    /\ Begin(p, Loading, Keys)
    /\ UNCHANGED used

(* load_pending of an observer: the PermissionError is caught, and the     *)
(* files that the directory lists now are read without the lock.           *)
BeginUnlockedLoad(p) ==
    LET listed == {k \in Keys : file[k] # NoCommand} IN
    /\ p \in Observers
    /\ pc[p] = "idle"
    /\ pc' = [pc EXCEPT ![p] = IF listed = {} THEN "write" ELSE "read"]
    /\ op' = [op EXCEPT ![p] = Loading]
    /\ todo' = [todo EXCEPT ![p] = listed]
    /\ UNCHANGED <<file, lock, seen, view, used, now>>

-----------------------------------------------------------------------------
(* Faulty variants, to show that the properties detect them: a lock that   *)
(* is taken although another process holds it, scans that bypass the lock, *)
(* and a timeout that goes ahead instead of raising.                       *)
Mutant_AcquireHeldLock(p) ==
    /\ pc[p] = "wait"
    /\ lock' = p
    /\ pc' = [pc EXCEPT ![p] = "read"]
    /\ UNCHANGED <<file, op, todo, seen, view, used, now>>

Mutant_UnlockedScan(p) ==
    /\ pc[p] = "wait"
    /\ \/ op[p].kind = "load" /\ lock' = lock
       \/ op[p].kind # "load" /\ lock = NoProc /\ lock' = p
    /\ pc' = [pc EXCEPT ![p] = "read"]
    /\ UNCHANGED <<file, op, todo, seen, view, used, now>>

Mutant_TimeoutProceeds(p) ==
    /\ pc[p] = "wait"
    /\ lock # NoProc
    /\ pc' = [pc EXCEPT ![p] = "read"]
    /\ UNCHANGED <<file, lock, op, todo, seen, view, used, now>>

(* _acquire_lock: a non-blocking flock, repeated until it succeeds ... *)
Acquire(p) ==
    /\ pc[p] = "wait"
    /\ lock = NoProc
    /\ lock' = p
    /\ pc' = [pc EXCEPT ![p] = "read"]
    /\ UNCHANGED <<file, op, todo, seen, view, used, now>>

(* ... or the 0.25 s are over and MailboxLockTimeout leaves no trace. *)
LockTimeout(p) ==
    /\ pc[p] = "wait"
    /\ lock # NoProc
    /\ pc' = [pc EXCEPT ![p] = "idle"]
    /\ op' = [op EXCEPT ![p] = NoOperation]
    /\ todo' = [todo EXCEPT ![p] = {}]
    /\ UNCHANGED <<file, lock, seen, view, used, now>>

ReadFile(p, k) ==
    /\ pc[p] = "read"
    /\ k \in todo[p]
    /\ seen' = [seen EXCEPT ![p][k] = file[k]]
    /\ todo' = [todo EXCEPT ![p] = @ \ {k}]
    /\ pc' = [pc EXCEPT ![p] = IF todo[p] = {k} THEN "write" ELSE "read"]
    /\ UNCHANGED <<file, lock, op, view, used, now>>

(* What the operation leaves under its key, computed from what it read. *)
Outcome(o, current) ==
    CASE o.kind = "enqueue" -> AfterEnqueue(current, o.payload)
      [] o.kind = "remove"  -> AfterRemoveIfCurrent(current, o.expected)
      [] o.kind = "replace" -> AfterReplaceIfCurrent(current, o.expected, o.payload)

(* write_command_json, os.unlink, or nothing when the operation keeps what *)
(* is there.                                                               *)
WriteFile(p) ==
    /\ pc[p] = "write"
    /\ op[p].kind \in Mutations
    /\ LET k == op[p].key IN
       file' = [file EXCEPT ![k] = IF Outcome(op[p], seen[p][k]) = seen[p][k]
                                   THEN @ ELSE Outcome(op[p], seen[p][k])]
    /\ pc' = [pc EXCEPT ![p] = "unlock"]
    /\ UNCHANGED <<lock, op, todo, seen, view, used, now>>

(* _load_pending_unlocked has decoded every file. *)
FinishLoad(p) ==
    /\ pc[p] = "write"
    /\ op[p].kind = "load"
    /\ p \notin Observers
    /\ view' = [view EXCEPT ![p] = seen[p]]
    /\ pc' = [pc EXCEPT ![p] = "unlock"]
    /\ UNCHANGED <<file, lock, op, todo, seen, used, now>>

(* An observer reports what it has read; it has no lock to give back, and  *)
(* nothing it loaded is ever named in an operation on the mailbox.         *)
ReportUnlockedLoad(p) ==
    /\ pc[p] = "write"
    /\ p \in Observers
    /\ pc' = [pc EXCEPT ![p] = "idle"]
    /\ op' = [op EXCEPT ![p] = NoOperation]
    /\ seen' = [seen EXCEPT ![p] = Empty]
    /\ UNCHANGED <<file, lock, todo, view, used, now>>

Unlock(p) ==
    /\ pc[p] = "unlock"
    /\ lock' = NoProc
    /\ pc' = [pc EXCEPT ![p] = "idle"]
    /\ op' = [op EXCEPT ![p] = NoOperation]
    /\ seen' = [seen EXCEPT ![p] = Empty]
    /\ UNCHANGED <<file, todo, view, used, now>>

(* The process dies and is started again: the kernel drops its flock, its  *)
(* memory is gone, the files stay.                                         *)
Crash(p) ==
    /\ lock' = IF lock = p THEN NoProc ELSE lock
    /\ pc' = [pc EXCEPT ![p] = "idle"]
    /\ op' = [op EXCEPT ![p] = NoOperation]
    /\ todo' = [todo EXCEPT ![p] = {}]
    /\ seen' = [seen EXCEPT ![p] = Empty]
    /\ view' = [view EXCEPT ![p] = Empty]
    /\ UNCHANGED <<file, used, now>>

SetClock(t) ==
    /\ now' = t
    /\ UNCHANGED <<file, lock, pc, op, todo, seen, view, used>>

Next ==
    \/ \E p \in Procs :
          \/ \E k \in Keys, r \in Revisions, v \in Values, rank \in Ranks :
                BeginEnqueue(p, k, r, v, rank)
          \/ \E k \in Keys : BeginRemove(p, k)
          \/ \E k \in Keys, v \in Values : BeginReplace(p, k, v)
          \/ BeginLoad(p)
          \/ BeginUnlockedLoad(p)
          \/ Acquire(p)
          \/ LockTimeout(p)
          \/ \E k \in Keys : ReadFile(p, k)
          \/ WriteFile(p)
          \/ FinishLoad(p)
          \/ ReportUnlockedLoad(p)
          \/ Unlock(p)
          \/ Crash(p)
    \/ \E t \in Times : SetClock(t)

Spec == Init /\ [][Next]_vars

-----------------------------------------------------------------------------
(***************************************************************************)
(* The lock serialises the operations: whoever is past the flock holds it, *)
(* and what it has read so far is still what the directory holds.  Only an *)
(* observer's load is outside it.                                          *)
(***************************************************************************)
InSection(p) == pc[p] \in {"read", "write", "unlock"}

LockHeld == /\ lock \notin Observers
            /\ \A p \in Procs \ Observers : InSection(p) => lock = p

Wanted(p) == IF op[p].kind = "load" THEN Keys ELSE {op[p].key} \cap Keys

ReadsAreCurrent ==
    \A p \in Procs \ Observers : pc[p] \in {"read", "write"} =>
        \A k \in Wanted(p) \ todo[p] : seen[p][k] = file[k]

(* An operation under way has arguments of its kind, waits for the lock    *)
(* with everything unread and writes only when all it wants is read.  An   *)
(* observer only ever loads, and neither waits for the lock nor has it.    *)
WellFormed(o) ==
    CASE o.kind = "enqueue" -> o.key \in Keys /\ o.payload \in Command
      [] o.kind = "remove"  -> o.key \in Keys /\ o.expected \in Command
      [] o.kind = "replace" -> /\ o.key \in Keys
                               /\ o.expected \in Command
                               /\ \E v \in Values :
                                     o.payload = [o.expected EXCEPT !.val = v]
      [] o.kind = "load"    -> TRUE
      [] OTHER              -> FALSE

OperationsWellFormed ==
    \A p \in Procs : /\ pc[p] # "idle" => WellFormed(op[p])
                     /\ pc[p] = "wait" => todo[p] = Wanted(p)
                     /\ pc[p] = "write" => todo[p] = {}
                     /\ p \in Observers => /\ op[p].kind \in {"none", "load"}
                                            /\ pc[p] \in {"idle", "read", "write"}

(* A revision drawn for an enqueue that has not written yet is in no file  *)
(* and in no other enqueue.                                                *)
Enqueueing(p) == pc[p] \in {"wait", "read", "write"} /\ op[p].kind = "enqueue"

RevisionsFresh ==
    /\ \A k \in Keys : file[k] # NoCommand => file[k].rev \in used
    /\ \A p \in Procs : Enqueueing(p) =>
          /\ op[p].payload.rev \in used
          /\ \A k \in Keys : file[k] # NoCommand => file[k].rev # op[p].payload.rev
          /\ \A q \in Procs \ {p} :
                Enqueueing(q) => op[q].payload.rev # op[p].payload.rev

(***************************************************************************)
(* load_pending returns one state of the whole directory, although it      *)
(* reads the files one after the other: no command of a later generation   *)
(* next to an earlier one of another key.  An observer's load, made        *)
(* without the lock, promises no such thing: "safely" in the comment of    *)
(* load_pending is said of each file, and its result may mix two states.   *)
(***************************************************************************)
LoadIsSnapshot ==
    \A p \in Procs \ Observers : pc[p] = "unlock" /\ op[p].kind = "load" => view[p] = file

(***************************************************************************)
(* "a late callback cannot replace or remove a newer coalesced command     *)
(* generation": a stored generation is unlinked or rewritten in place only *)
(* on behalf of a process that loaded that very generation.                *)
(***************************************************************************)
Rewritten(k) == /\ file[k] # NoCommand
                /\ \/ file'[k] = NoCommand
                   \/ file'[k].rev = file[k].rev /\ file'[k] # file[k]

OnlyOwnersRetire ==
    [][\A k \in Keys : Rewritten(k) =>
          \E p \in Procs : /\ pc[p] = "write"
                           /\ op[p].kind \in {"remove", "replace"}
                           /\ op[p].key = k
                           /\ op[p].expected.rev = file[k].rev]_vars

(***************************************************************************)
(* Coalescing never lets a less urgent command displace a pending one.     *)
(***************************************************************************)
UrgencyKept ==
    [][\A k \in Keys : file[k] # NoCommand /\ file'[k] # NoCommand
                          => file'[k].rank <= file[k].rank]_vars

(* Wherever two copies of a generation are (in a file, in the hands of a   *)
(* process, in an operation's arguments), they have one priority, and its  *)
(* revision was drawn.  A payload rewritten in place keeps it, which is    *)
(* what UrgencyKept rests on.                                              *)
Ranked(c, rankOf) == c # NoCommand => c.rev \in used /\ c.rank = rankOf[c.rev]

RankedBy(rankOf) ==
    /\ \A k \in Keys : Ranked(file[k], rankOf)
    /\ \A p \in Procs : /\ \A k \in Keys : /\ Ranked(seen[p][k], rankOf)
                                            /\ Ranked(view[p][k], rankOf)
                        /\ Ranked(op[p].expected, rankOf)
                        /\ Ranked(op[p].payload, rankOf)

RanksFixed == \E rankOf \in [used -> Ranks] : RankedBy(rankOf)

(* The inductive invariant behind the theorems of FileMailbox_proofs. *)
LockedInv == /\ TypeOK
             /\ OperationsWellFormed
             /\ LockHeld
             /\ ReadsAreCurrent
             /\ RevisionsFresh
             /\ LoadIsSnapshot

IInv == LockedInv /\ RanksFixed

(***************************************************************************)
(* The locked file operations implement the atomic mailbox.                *)
(***************************************************************************)
Atomic == INSTANCE AtomicMailbox
AtomicSpec == Atomic!Spec
=============================================================================
