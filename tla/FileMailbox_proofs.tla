------------------------- MODULE FileMailbox_proofs -------------------------
(***************************************************************************)
(* Proofs about FileMailbox for any number of processes, files,            *)
(* generations and priorities.                                             *)
(***************************************************************************)
EXTENDS FileMailbox, TLAPS

(***************************************************************************)
(* What an operation leaves under its key is a command or nothing.         *)
(***************************************************************************)
LEMMA OutcomeType ==
    ASSUME NEW o \in Operation, WellFormed(o), o.kind \in Mutations,
           NEW current \in Command \cup {NoCommand}
    PROVE  Outcome(o, current) \in Command \cup {NoCommand}
<1>1. CASE o.kind = "enqueue"
  BY <1>1, MailboxAssumption, NoCommandAssumption
     DEF WellFormed, Outcome, AfterEnqueue, Coalesced, Command
<1>2. CASE o.kind = "remove"
  BY <1>2 DEF Outcome, AfterRemoveIfCurrent
<1>3. CASE o.kind = "replace"
  <2>1. PICK v \in Values : o.payload = [o.expected EXCEPT !.val = v]
    BY <1>3 DEF WellFormed
  <2>2. o.payload \in Command
    BY <1>3, <2>1 DEF WellFormed, Command
  <2>3. current # NoCommand =>
            [o.payload EXCEPT !.rev = current.rev, !.at = current.at] \in Command
    BY <2>2 DEF Command
  <2>. QED
    BY <1>3, <2>3 DEF Outcome, AfterReplaceIfCurrent, IsCurrent
<1>. QED
  BY <1>1, <1>2, <1>3 DEF Mutations

(***************************************************************************)
(* The revision stored afterwards is the one that was there or, for an     *)
(* enqueue, that of its payload.                                           *)
(***************************************************************************)
LEMMA OutcomeRevision ==
    ASSUME NEW o \in Operation, WellFormed(o), o.kind \in Mutations,
           NEW current \in Command \cup {NoCommand},
           Outcome(o, current) # NoCommand
    PROVE  \/ o.kind = "enqueue" /\ Outcome(o, current).rev = o.payload.rev
           \/ current # NoCommand /\ Outcome(o, current).rev = current.rev
<1>1. CASE o.kind = "enqueue"
  BY <1>1, NoCommandAssumption
     DEF WellFormed, Outcome, AfterEnqueue, Coalesced, Command
<1>2. CASE o.kind = "remove"
  BY <1>2 DEF Outcome, AfterRemoveIfCurrent
<1>3. CASE o.kind = "replace"
  <2>1. PICK v \in Values : o.payload = [o.expected EXCEPT !.val = v]
    BY <1>3 DEF WellFormed
  <2>2. o.payload \in Command
    BY <1>3, <2>1 DEF WellFormed, Command
  <2>3. current # NoCommand =>
            [o.payload EXCEPT !.rev = current.rev, !.at = current.at].rev = current.rev
    BY <2>2 DEF Command
  <2>. QED
    BY <1>3, <2>3 DEF Outcome, AfterReplaceIfCurrent, IsCurrent
<1>. QED
  BY <1>1, <1>2, <1>3 DEF Mutations

(***************************************************************************)
(* LockedInv holds initially and is preserved by every step.               *)
(***************************************************************************)
LEMMA InitInv == Init => LockedInv
<1>. SUFFICES ASSUME Init PROVE LockedInv
  OBVIOUS
<1>1. TypeOK
  BY DEF Init, TypeOK, Empty, NoOperation, Operation, Kinds
<1>2. OperationsWellFormed /\ LockHeld /\ ReadsAreCurrent /\ LoadIsSnapshot
  BY ProcAssumption
     DEF Init, OperationsWellFormed, LockHeld, InSection, ReadsAreCurrent,
         LoadIsSnapshot, NoOperation
<1>3. RevisionsFresh
  BY DEF Init, Empty, RevisionsFresh, Enqueueing
<1>. QED
  BY <1>1, <1>2, <1>3 DEF LockedInv

(* Beginning an operation touches neither the files nor the lock. *)
LEMMA BeginInv ==
    ASSUME LockedInv, NEW p \in Procs, NEW o \in Operation, WellFormed(o),
           NEW keys \in SUBSET Keys, Begin(p, o, keys),
           keys = IF o.kind = "load" THEN Keys ELSE {o.key} \cap Keys,
           used' \subseteq Revisions,
           used \subseteq used',
           o.kind = "enqueue" => o.payload.rev \in used' \ used
    PROVE  LockedInv'
<1>. USE DEF LockedInv, Begin
<1>1. TypeOK'
  BY DEF TypeOK, Empty
<1>2. OperationsWellFormed'
  <2>. SUFFICES ASSUME NEW q \in Procs
                PROVE  /\ pc'[q] # "idle" => WellFormed(op'[q])
                       /\ pc'[q] = "wait" => todo'[q] = Wanted(q)'
                       /\ pc'[q] = "write" => todo'[q] = {}
                       /\ q \in Observers => /\ op'[q].kind \in {"none", "load"}
                                              /\ pc'[q] \in {"idle", "read", "write"}
    BY DEF OperationsWellFormed, WellFormed
  <2>1. CASE q = p
    BY <2>1 DEF TypeOK, Wanted
  <2>2. CASE q # p
    BY <2>2 DEF TypeOK, OperationsWellFormed, Wanted
  <2>. QED BY <2>1, <2>2
<1>3. LockHeld'
  BY DEF TypeOK, LockHeld, InSection
<1>4. ReadsAreCurrent'
  BY DEF TypeOK, ReadsAreCurrent, Wanted
<1>5. LoadIsSnapshot'
  BY DEF TypeOK, LoadIsSnapshot
<1>6. RevisionsFresh'
  BY DEF TypeOK, RevisionsFresh, Enqueueing
<1>. QED
  BY <1>1, <1>2, <1>3, <1>4, <1>5, <1>6

LEMMA NextInv == LockedInv /\ [Next]_vars => LockedInv'
<1>. SUFFICES ASSUME LockedInv, [Next]_vars PROVE LockedInv'
  OBVIOUS
<1>. USE DEF LockedInv
<1>1. ASSUME NEW p \in Procs, NEW k \in Keys, NEW r \in Revisions,
             NEW v \in Values, NEW rank \in Ranks,
             BeginEnqueue(p, k, r, v, rank)
      PROVE  LockedInv'
  <2>. DEFINE c == [rev |-> r, val |-> v, rank |-> rank, at |-> now]
              o == [kind |-> "enqueue", key |-> k,
                    expected |-> NoCommand, payload |-> c]
  <2>1. c \in Command
    BY DEF Command, TypeOK
  <2>2. o \in Operation /\ WellFormed(o)
    BY <2>1 DEF Operation, Kinds, WellFormed
  <2>3. /\ Begin(p, o, {k})
        /\ used' \subseteq Revisions /\ used \subseteq used'
        /\ o.payload.rev \in used' \ used
    BY <1>1 DEF BeginEnqueue, TypeOK
  <2>4. {k} = IF o.kind = "load" THEN Keys ELSE {o.key} \cap Keys
    OBVIOUS
  <2>. HIDE DEF o
  <2>. QED
    BY <2>2, <2>3, <2>4, BeginInv
<1>2. ASSUME NEW p \in Procs, NEW k \in Keys, BeginRemove(p, k)
      PROVE  LockedInv'
  <2>. DEFINE o == [kind |-> "remove", key |-> k,
                    expected |-> view[p][k], payload |-> NoCommand]
  <2>1. o \in Operation /\ WellFormed(o)
    BY <1>2 DEF BeginRemove, Operation, Kinds, WellFormed, TypeOK
  <2>2. /\ Begin(p, o, {k})
        /\ used' \subseteq Revisions /\ used \subseteq used'
        /\ o.kind # "enqueue"
    BY <1>2 DEF BeginRemove, TypeOK
  <2>3. {k} = IF o.kind = "load" THEN Keys ELSE {o.key} \cap Keys
    OBVIOUS
  <2>. HIDE DEF o
  <2>. QED
    BY <2>1, <2>2, <2>3, BeginInv
<1>3. ASSUME NEW p \in Procs, NEW k \in Keys, NEW v \in Values,
             BeginReplace(p, k, v)
      PROVE  LockedInv'
  <2>. DEFINE o == [kind |-> "replace", key |-> k, expected |-> view[p][k],
                    payload |-> [view[p][k] EXCEPT !.val = v]]
  <2>1. view[p][k] \in Command
    BY <1>3 DEF BeginReplace, TypeOK
  <2>2. [view[p][k] EXCEPT !.val = v] \in Command
    BY <2>1 DEF Command
  <2>3. o \in Operation /\ WellFormed(o)
    BY <2>1, <2>2 DEF Operation, Kinds, WellFormed
  <2>4. /\ Begin(p, o, {k})
        /\ used' \subseteq Revisions /\ used \subseteq used'
        /\ o.kind # "enqueue"
    BY <1>3 DEF BeginReplace, TypeOK
  <2>5. {k} = IF o.kind = "load" THEN Keys ELSE {o.key} \cap Keys
    OBVIOUS
  <2>. HIDE DEF o
  <2>. QED
    BY <2>3, <2>4, <2>5, BeginInv
<1>4. ASSUME NEW p \in Procs, BeginLoad(p)
      PROVE  LockedInv'
  <2>. DEFINE o == Loading
  <2>1. o \in Operation /\ WellFormed(o)
    BY DEF Loading, NoOperation, Operation, Kinds, WellFormed
  <2>2. /\ Begin(p, o, Keys)
        /\ used' \subseteq Revisions /\ used \subseteq used'
        /\ o.kind # "enqueue"
    BY <1>4 DEF BeginLoad, TypeOK, Loading, NoOperation
  <2>3. Keys = IF o.kind = "load" THEN Keys ELSE {o.key} \cap Keys
    BY DEF Loading, NoOperation
  <2>. HIDE DEF o
  <2>. QED
    BY <2>1, <2>2, <2>3, BeginInv
<1>5. ASSUME NEW p \in Procs, Acquire(p)
      PROVE  LockedInv'
  <2>. USE <1>5 DEF Acquire
  <2>1. TypeOK'
    BY DEF TypeOK
  <2>2. OperationsWellFormed'
    BY DEF TypeOK, OperationsWellFormed, WellFormed, Wanted
  <2>3. LockHeld'
    BY ProcAssumption DEF TypeOK, LockHeld, InSection, OperationsWellFormed
  <2>4. ReadsAreCurrent'
    BY DEF TypeOK, ReadsAreCurrent, OperationsWellFormed, Wanted
  <2>5. LoadIsSnapshot'
    BY DEF TypeOK, LoadIsSnapshot
  <2>6. RevisionsFresh'
    BY DEF TypeOK, RevisionsFresh, Enqueueing
  <2>. QED
    BY <2>1, <2>2, <2>3, <2>4, <2>5, <2>6
<1>6. ASSUME NEW p \in Procs, LockTimeout(p)
      PROVE  LockedInv'
  <2>. USE <1>6 DEF LockTimeout
  <2>1. TypeOK'
    BY DEF TypeOK, NoOperation, Operation, Kinds
  <2>2. OperationsWellFormed'
    BY DEF TypeOK, OperationsWellFormed, WellFormed, Wanted, NoOperation
  <2>3. LockHeld'
    BY DEF TypeOK, LockHeld, InSection
  <2>4. ReadsAreCurrent'
    BY DEF TypeOK, ReadsAreCurrent, Wanted
  <2>5. LoadIsSnapshot'
    BY DEF TypeOK, LoadIsSnapshot
  <2>6. RevisionsFresh'
    BY DEF TypeOK, RevisionsFresh, Enqueueing
  <2>. QED
    BY <2>1, <2>2, <2>3, <2>4, <2>5, <2>6
<1>7. ASSUME NEW p \in Procs, NEW k \in Keys, ReadFile(p, k)
      PROVE  LockedInv'
  <2>. USE <1>7 DEF ReadFile
  <2>1. TypeOK'
    BY DEF TypeOK
  <2>2. OperationsWellFormed'
    BY DEF TypeOK, OperationsWellFormed, WellFormed, Wanted
  <2>3. LockHeld'
    BY DEF TypeOK, LockHeld, InSection
  <2>4. ReadsAreCurrent'
    BY DEF TypeOK, ReadsAreCurrent, Wanted
  <2>5. LoadIsSnapshot'
    BY DEF TypeOK, LoadIsSnapshot
  <2>6. RevisionsFresh'
    BY DEF TypeOK, RevisionsFresh, Enqueueing
  <2>. QED
    BY <2>1, <2>2, <2>3, <2>4, <2>5, <2>6
<1>8. ASSUME NEW p \in Procs, WriteFile(p)
      PROVE  LockedInv'
  <2>. USE <1>8 DEF WriteFile
  <2>. DEFINE k == op[p].key
  <2>1. /\ WellFormed(op[p])
        /\ op[p] \in Operation
        /\ k \in Keys
    BY DEF TypeOK, OperationsWellFormed, WellFormed, Mutations
  <2>2. Outcome(op[p], seen[p][k]) \in Command \cup {NoCommand}
    BY <2>1, OutcomeType DEF TypeOK
  <2>3. TypeOK'
    BY <2>1, <2>2 DEF TypeOK
  <2>4. p \notin Observers /\ \A q \in Procs \ Observers : q # p => ~InSection(q)
    BY DEF LockHeld, InSection, OperationsWellFormed, Mutations
  <2>5. OperationsWellFormed'
    BY <2>4 DEF TypeOK, OperationsWellFormed, WellFormed, Wanted
  <2>6. LockHeld'
    BY DEF TypeOK, LockHeld, InSection
  <2>7. ReadsAreCurrent'
    <3>1. \A q \in Procs \ Observers : pc'[q] \notin {"read", "write"}
      BY <2>4 DEF TypeOK, InSection
    <3>. QED
      BY <3>1 DEF ReadsAreCurrent
  <2>8. LoadIsSnapshot'
    BY <2>4 DEF TypeOK, LoadIsSnapshot, InSection, Mutations
  <2>9. RevisionsFresh'
    <3>1. seen[p][k] = file[k]
      <4>1. todo[p] = {} /\ op[p].kind # "load"
        BY DEF OperationsWellFormed, Mutations
      <4>2. k \in Wanted(p) \ todo[p]
        BY <2>1, <4>1 DEF Wanted
      <4>. QED
        BY <2>4, <4>2 DEF ReadsAreCurrent
    <3>2. file'[k] # NoCommand =>
             \/ Enqueueing(p) /\ file'[k].rev = op[p].payload.rev
             \/ file[k] # NoCommand /\ file'[k].rev = file[k].rev
      BY <2>1, <3>1, OutcomeRevision DEF TypeOK, Enqueueing
    <3>3. \A j \in Keys \ {k} : file'[j] = file[j]
      BY DEF TypeOK
    <3>4. \A q \in Procs \ {p} : Enqueueing(q)' <=> Enqueueing(q)
      BY DEF TypeOK, Enqueueing
    <3>5. ~Enqueueing(p)'
      BY DEF TypeOK, Enqueueing
    <3>6. \A j \in Keys : file'[j] # NoCommand =>
             \/ Enqueueing(p) /\ file'[j].rev = op[p].payload.rev
             \/ file[j] # NoCommand /\ file'[j].rev = file[j].rev
      BY <3>2, <3>3
    <3>. QED
      BY <3>4, <3>5, <3>6 DEF RevisionsFresh
  <2>. QED
    BY <2>3, <2>5, <2>6, <2>7, <2>8, <2>9
<1>9. ASSUME NEW p \in Procs, FinishLoad(p)
      PROVE  LockedInv'
  <2>. USE <1>9 DEF FinishLoad
  <2>1. TypeOK'
    BY DEF TypeOK
  <2>2. OperationsWellFormed'
    BY DEF TypeOK, OperationsWellFormed, WellFormed, Wanted
  <2>3. LockHeld'
    BY DEF TypeOK, LockHeld, InSection
  <2>4. ReadsAreCurrent'
    BY DEF TypeOK, ReadsAreCurrent, Wanted
  <2>5. seen[p] = file
    <3>1. \A k \in Keys : seen[p][k] = file[k]
      BY DEF ReadsAreCurrent, OperationsWellFormed, Wanted
    <3>. QED
      BY <3>1 DEF TypeOK
  <2>6. LoadIsSnapshot'
    BY <2>5 DEF TypeOK, LoadIsSnapshot
  <2>7. RevisionsFresh'
    BY DEF TypeOK, RevisionsFresh, Enqueueing
  <2>. QED
    BY <2>1, <2>2, <2>3, <2>4, <2>6, <2>7
<1>10. ASSUME NEW p \in Procs, Unlock(p)
       PROVE  LockedInv'
  <2>. USE <1>10 DEF Unlock
  <2>1. TypeOK'
    BY DEF TypeOK, NoOperation, Operation, Kinds, Empty
  <2>2. OperationsWellFormed'
    BY DEF TypeOK, OperationsWellFormed, WellFormed, Wanted, NoOperation
  <2>3. LockHeld'
    BY ProcAssumption DEF TypeOK, LockHeld, InSection, OperationsWellFormed
  <2>4. ReadsAreCurrent'
    BY DEF TypeOK, ReadsAreCurrent, Wanted
  <2>5. LoadIsSnapshot'
    BY DEF TypeOK, LoadIsSnapshot
  <2>6. RevisionsFresh'
    BY DEF TypeOK, RevisionsFresh, Enqueueing
  <2>. QED
    BY <2>1, <2>2, <2>3, <2>4, <2>5, <2>6
<1>11. ASSUME NEW p \in Procs, Crash(p)
       PROVE  LockedInv'
  <2>. USE <1>11 DEF Crash
  <2>1. TypeOK'
    BY DEF TypeOK, NoOperation, Operation, Kinds, Empty
  <2>2. OperationsWellFormed'
    BY DEF TypeOK, OperationsWellFormed, WellFormed, Wanted, NoOperation
  <2>3. LockHeld'
    BY ProcAssumption DEF TypeOK, LockHeld, InSection
  <2>4. ReadsAreCurrent'
    BY DEF TypeOK, ReadsAreCurrent, Wanted
  <2>5. LoadIsSnapshot'
    BY DEF TypeOK, LoadIsSnapshot
  <2>6. RevisionsFresh'
    BY DEF TypeOK, RevisionsFresh, Enqueueing
  <2>. QED
    BY <2>1, <2>2, <2>3, <2>4, <2>5, <2>6
<1>12. CASE \E t \in Times : SetClock(t)
  <2>. USE <1>12 DEF SetClock
  <2>1. TypeOK'
    BY DEF TypeOK
  <2>2. OperationsWellFormed'
    <3>1. \A p \in Procs : /\ pc'[p] = pc[p] /\ op'[p] = op[p]
                           /\ todo'[p] = todo[p] /\ Wanted(p)' = Wanted(p)
      BY DEF Wanted
    <3>2. \A p \in Procs : WellFormed(op'[p]) = WellFormed(op[p])
      BY <3>1
    <3>. QED
      BY <3>1, <3>2 DEF OperationsWellFormed, WellFormed
  <2>3. LockHeld' /\ ReadsAreCurrent' /\ LoadIsSnapshot' /\ RevisionsFresh'
    BY DEF LockHeld, InSection, ReadsAreCurrent, Wanted, LoadIsSnapshot,
           RevisionsFresh, Enqueueing
  <2>. QED
    BY <2>1, <2>2, <2>3
<1>14. ASSUME NEW p \in Procs, BeginUnlockedLoad(p)
       PROVE  LockedInv'
  <2>. DEFINE listed == {k \in Keys : file[k] # NoCommand}
              next == IF listed = {} THEN "write" ELSE "read"
  <2>1. /\ p \in Observers /\ pc[p] = "idle"
        /\ pc' = [pc EXCEPT ![p] = next]
        /\ op' = [op EXCEPT ![p] = Loading]
        /\ todo' = [todo EXCEPT ![p] = listed]
        /\ UNCHANGED <<file, lock, seen, view, used, now>>
    BY <1>14 DEF BeginUnlockedLoad
  <2>2. /\ next \in {"read", "write"} /\ (next = "write" => listed = {})
        /\ listed \subseteq Keys
        /\ Loading \in Operation /\ WellFormed(Loading) /\ Loading.kind = "load"
    BY DEF Loading, NoOperation, Operation, Kinds, WellFormed
  <2>. HIDE DEF next, listed
  <2>3. TypeOK'
    BY <2>1, <2>2 DEF TypeOK
  <2>4. OperationsWellFormed'
    BY <2>1, <2>2 DEF TypeOK, OperationsWellFormed, WellFormed, Wanted
  <2>5. LockHeld' /\ ReadsAreCurrent' /\ LoadIsSnapshot'
    BY <2>1, <2>2 DEF TypeOK, LockHeld, InSection, ReadsAreCurrent, Wanted, LoadIsSnapshot
  <2>6. RevisionsFresh'
    BY <2>1, <2>2 DEF TypeOK, RevisionsFresh, Enqueueing
  <2>. QED
    BY <2>3, <2>4, <2>5, <2>6
<1>15. ASSUME NEW p \in Procs, ReportUnlockedLoad(p)
       PROVE  LockedInv'
  <2>. USE <1>15 DEF ReportUnlockedLoad
  <2>1. TypeOK'
    BY DEF TypeOK, NoOperation, Operation, Kinds, Empty
  <2>2. OperationsWellFormed'
    BY DEF TypeOK, OperationsWellFormed, WellFormed, Wanted, NoOperation
  <2>3. LockHeld' /\ ReadsAreCurrent' /\ LoadIsSnapshot'
    BY DEF TypeOK, LockHeld, InSection, ReadsAreCurrent, Wanted, LoadIsSnapshot
  <2>4. RevisionsFresh'
    BY DEF TypeOK, RevisionsFresh, Enqueueing
  <2>. QED
    BY <2>1, <2>2, <2>3, <2>4
<1>13. CASE UNCHANGED vars
  BY <1>13 DEF vars, TypeOK, OperationsWellFormed, WellFormed, LockHeld,
               InSection, ReadsAreCurrent, Wanted, LoadIsSnapshot,
               RevisionsFresh, Enqueueing
<1>. QED
  BY <1>1, <1>2, <1>3, <1>4, <1>5, <1>6, <1>7, <1>8, <1>9, <1>10, <1>11,
     <1>12, <1>13, <1>14, <1>15 DEF Next

(***************************************************************************)
(* Only WriteFile changes a file, and it computes the new contents from    *)
(* the current ones.                                                       *)
(***************************************************************************)
LEMMA FileSteps ==
    ASSUME LockedInv, [Next]_vars
    PROVE  \/ file' = file
           \/ \E p \in Procs :
                /\ pc[p] = "write"
                /\ op[p].kind \in Mutations
                /\ WellFormed(op[p])
                /\ op[p].key \in Keys
                /\ file' = [file EXCEPT ![op[p].key] =
                                Outcome(op[p], file[op[p].key])]
<1>1. ASSUME NEW p \in Procs, WriteFile(p)
      PROVE  /\ pc[p] = "write"
             /\ op[p].kind \in Mutations
             /\ WellFormed(op[p])
             /\ op[p].key \in Keys
             /\ file' = [file EXCEPT ![op[p].key] =
                             Outcome(op[p], file[op[p].key])]
  <2>1. /\ pc[p] = "write" /\ op[p].kind \in Mutations
        /\ WellFormed(op[p]) /\ op[p].key \in Keys
    BY <1>1 DEF LockedInv, WriteFile, OperationsWellFormed, WellFormed, Mutations
  <2>0. p \notin Observers
    BY <2>1 DEF LockedInv, OperationsWellFormed, Mutations
  <2>2. seen[p][op[p].key] = file[op[p].key]
    <3>1. todo[p] = {} /\ op[p].kind # "load"
      BY <2>1 DEF LockedInv, OperationsWellFormed, Mutations
    <3>2. op[p].key \in Wanted(p) \ todo[p]
      BY <2>1, <3>1 DEF Wanted
    <3>. QED
      BY <2>0, <2>1, <3>2 DEF LockedInv, ReadsAreCurrent
  <2>. QED
    BY <1>1, <2>1, <2>2 DEF WriteFile, LockedInv, TypeOK
<1>2. CASE UNCHANGED vars
  BY <1>2 DEF vars
<1>. QED
  BY <1>1, <1>2 DEF Next, BeginEnqueue, BeginRemove, BeginReplace, BeginLoad,
     BeginUnlockedLoad, Begin, Acquire, LockTimeout, ReadFile, FinishLoad,
     ReportUnlockedLoad, Unlock, Crash, SetClock

(***************************************************************************)
(* The priority of a generation: no operation changes it, and a new one is *)
(* drawn under a revision that no copy carries.                            *)
(***************************************************************************)
LEMMA OutcomeRanked ==
    ASSUME NEW o \in Operation, WellFormed(o), o.kind \in Mutations,
           NEW current \in Command \cup {NoCommand}, NEW rankOf,
           Ranked(current, rankOf), Ranked(o.expected, rankOf), Ranked(o.payload, rankOf)
    PROVE  Ranked(Outcome(o, current), rankOf)
<1>1. CASE o.kind = "enqueue"
  <2>1. o.payload \in Command /\ o.payload # NoCommand
    BY <1>1, NoCommandAssumption DEF WellFormed
  <2>2. current # NoCommand =>
          /\ Coalesced(current, o.payload).rev = o.payload.rev
          /\ Coalesced(current, o.payload).rank = o.payload.rank
    BY <2>1 DEF Coalesced, Command
  <2>. QED
    BY <1>1, <2>1, <2>2 DEF Outcome, AfterEnqueue, Ranked
<1>2. CASE o.kind = "remove"
  BY <1>2 DEF Outcome, AfterRemoveIfCurrent, Ranked
<1>3. CASE o.kind = "replace"
  <2>1. PICK v \in Values : o.payload = [o.expected EXCEPT !.val = v]
    BY <1>3 DEF WellFormed
  <2>2. o.payload \in Command /\ o.payload.rev = o.expected.rev
    BY <1>3, <2>1 DEF WellFormed, Command
  <2>3. o.payload # NoCommand
    BY <2>2, NoCommandAssumption
  <2>. DEFINE new == [o.payload EXCEPT !.rev = current.rev, !.at = current.at]
  <2>4. new.rev = current.rev /\ new.rank = o.payload.rank
    BY <2>2 DEF Command
  <2>5. CASE IsCurrent(current, o.expected)
    <3>1. Outcome(o, current) = new
      BY <1>3, <2>5 DEF Outcome, AfterReplaceIfCurrent
    <3>2. current.rev = o.payload.rev
      BY <2>2, <2>5 DEF IsCurrent
    <3>. QED
      BY <2>3, <2>4, <3>1, <3>2 DEF Ranked
  <2>6. CASE ~IsCurrent(current, o.expected)
    BY <1>3, <2>6 DEF Outcome, AfterReplaceIfCurrent
  <2>. QED
    BY <2>5, <2>6
<1>. QED
  BY <1>1, <1>2, <1>3 DEF Mutations

LEMMA RanksInit == Init => RanksFixed
<1>. SUFFICES ASSUME Init PROVE RanksFixed
  OBVIOUS
<1>. DEFINE none == [r \in used |-> CHOOSE n : n \in Ranks]
<1>1. used = {}
  BY DEF Init
<1>2. none \in [used -> Ranks]
  BY <1>1
<1>. HIDE DEF none
<1>3. RankedBy(none)
  BY DEF Init, RankedBy, Ranked, Empty, NoOperation
<1>. QED
  BY <1>2, <1>3 DEF RanksFixed

(* Nothing is drawn, and what is copied is a copy. *)
LEMMA RanksCopied ==
    ASSUME LockedInv, NEW rankOf, RankedBy(rankOf), used' = used,
           NEW p \in Procs,
           \/ \E k \in Keys : BeginRemove(p, k)
           \/ \E k \in Keys, v \in Values : BeginReplace(p, k, v)
           \/ BeginLoad(p)
           \/ BeginUnlockedLoad(p)
           \/ Acquire(p)
           \/ LockTimeout(p)
           \/ \E k \in Keys : ReadFile(p, k)
           \/ FinishLoad(p)
           \/ ReportUnlockedLoad(p)
           \/ Unlock(p)
           \/ Crash(p)
    PROVE  RankedBy(rankOf)'
<1>. USE DEF LockedInv
<1>1. ASSUME NEW k \in Keys, BeginRemove(p, k)
      PROVE  RankedBy(rankOf)'
  BY <1>1 DEF BeginRemove, Begin, TypeOK, RankedBy, Ranked
<1>2. ASSUME NEW k \in Keys, NEW v \in Values, BeginReplace(p, k, v)
      PROVE  RankedBy(rankOf)'
  <2>. DEFINE c == [view[p][k] EXCEPT !.val = v]
  <2>1. view[p][k] \in Command /\ view[p][k] # NoCommand
    BY <1>2 DEF BeginReplace, TypeOK
  <2>2. c.rev = view[p][k].rev /\ c.rank = view[p][k].rank
    BY <2>1 DEF Command
  <2>3. op' = [op EXCEPT ![p] = [kind |-> "replace", key |-> k,
                                 expected |-> view[p][k], payload |-> c]]
        /\ UNCHANGED <<file, seen, view>>
    BY <1>2 DEF BeginReplace, Begin
  <2>4. Ranked(view[p][k], rankOf)
    BY DEF RankedBy
  <2>. HIDE DEF c
  <2>5. op'[p].expected = view[p][k] /\ op'[p].payload = c
        /\ \A q \in Procs \ {p} : op'[q] = op[q]
    BY <2>3 DEF TypeOK
  <2>. QED
    BY <2>1, <2>2, <2>3, <2>4, <2>5 DEF RankedBy, Ranked
<1>3. CASE BeginLoad(p)
  BY <1>3 DEF BeginLoad, Begin, Loading, NoOperation, TypeOK, RankedBy, Ranked
<1>4. CASE Acquire(p)
  BY <1>4 DEF Acquire, RankedBy, Ranked
<1>5. CASE LockTimeout(p)
  BY <1>5 DEF LockTimeout, NoOperation, TypeOK, RankedBy, Ranked
<1>6. ASSUME NEW k \in Keys, ReadFile(p, k)
      PROVE  RankedBy(rankOf)'
  BY <1>6 DEF ReadFile, TypeOK, RankedBy, Ranked
<1>7. CASE FinishLoad(p)
  BY <1>7 DEF FinishLoad, TypeOK, RankedBy, Ranked
<1>8. CASE Unlock(p)
  BY <1>8 DEF Unlock, NoOperation, Empty, TypeOK, RankedBy, Ranked
<1>9. CASE Crash(p)
  BY <1>9 DEF Crash, NoOperation, Empty, TypeOK, RankedBy, Ranked
<1>10. CASE BeginUnlockedLoad(p)
  <2>1. op' = [op EXCEPT ![p] = Loading] /\ UNCHANGED <<file, seen, view>>
    BY <1>10 DEF BeginUnlockedLoad
  <2>2. Loading.expected = NoCommand /\ Loading.payload = NoCommand
    BY DEF Loading, NoOperation
  <2>. QED
    BY <2>1, <2>2 DEF TypeOK, RankedBy, Ranked
<1>11. CASE ReportUnlockedLoad(p)
  BY <1>11 DEF ReportUnlockedLoad, NoOperation, Empty, TypeOK, RankedBy, Ranked
<1>. QED
  BY <1>1, <1>2, <1>3, <1>4, <1>5, <1>6, <1>7, <1>8, <1>9, <1>10, <1>11

(* A drawn revision gets its priority; no copy carried it before. *)
LEMMA RanksDrawn ==
    ASSUME LockedInv, NEW rankOf \in [used -> Ranks], RankedBy(rankOf), NEW p \in Procs,
           NEW k \in Keys, NEW r \in Revisions, NEW v \in Values, NEW rank \in Ranks,
           BeginEnqueue(p, k, r, v, rank)
    PROVE  RanksFixed'
<1>. USE DEF LockedInv
<1>. DEFINE drawn == [x \in used \cup {r} |-> IF x = r THEN rank ELSE rankOf[x]]
            c == [rev |-> r, val |-> v, rank |-> rank, at |-> now]
<1>1. used' = used \cup {r} /\ r \notin used /\ UNCHANGED <<file, seen, view>>
      /\ op' = [op EXCEPT ![p] = [kind |-> "enqueue", key |-> k,
                                  expected |-> NoCommand, payload |-> c]]
  BY DEF BeginEnqueue, Begin
<1>2. PICK g \in [used' -> Ranks] : g = drawn
  BY <1>1
<1>3. \A x \in used : x # r /\ g[x] = rankOf[x]
  BY <1>1, <1>2
<1>4. c.rev = r /\ c.rank = rank /\ g[r] = rank
  BY <1>2
<1>. HIDE DEF drawn, c
<1>5. \A d : Ranked(d, rankOf) => (d # NoCommand => d.rev \in used' /\ d.rank = g[d.rev])
  BY <1>1, <1>3 DEF Ranked
<1>6. op'[p].expected = NoCommand /\ op'[p].payload = c
      /\ \A q \in Procs \ {p} : op'[q] = op[q]
  BY <1>1 DEF TypeOK
<1>7. r \in used'
  BY <1>1
<1>8. RankedBy(g)'
  BY <1>1, <1>4, <1>5, <1>6, <1>7 DEF RankedBy, Ranked
<1>. QED
  BY <1>8 DEF RanksFixed

LEMMA RanksNext == LockedInv /\ RanksFixed /\ [Next]_vars => RanksFixed'
<1>. SUFFICES ASSUME LockedInv, RanksFixed, [Next]_vars PROVE RanksFixed'
  OBVIOUS
<1>1. PICK rankOf \in [used -> Ranks] : RankedBy(rankOf)
  BY DEF RanksFixed
<1>2. ASSUME NEW p \in Procs, NEW k \in Keys, NEW r \in Revisions,
             NEW v \in Values, NEW rank \in Ranks, BeginEnqueue(p, k, r, v, rank)
      PROVE  RanksFixed'
  BY <1>1, <1>2, RanksDrawn
<1>3. ASSUME NEW p \in Procs, WriteFile(p)
      PROVE  RanksFixed'
  <2>. DEFINE k == op[p].key
  <2>1. /\ WellFormed(op[p]) /\ op[p] \in Operation /\ op[p].kind \in Mutations
        /\ k \in Keys
    BY <1>3 DEF LockedInv, WriteFile, TypeOK, OperationsWellFormed, WellFormed, Mutations
  <2>2. seen[p][k] \in Command \cup {NoCommand} /\ Ranked(seen[p][k], rankOf)
        /\ Ranked(op[p].expected, rankOf) /\ Ranked(op[p].payload, rankOf)
    BY <1>1, <2>1 DEF RankedBy, LockedInv, TypeOK
  <2>3. Ranked(Outcome(op[p], seen[p][k]), rankOf)
    BY <2>1, <2>2, OutcomeRanked
  <2>4. /\ UNCHANGED <<op, seen, view, used>>
        /\ file' = [file EXCEPT ![k] = IF Outcome(op[p], seen[p][k]) = seen[p][k]
                                       THEN @ ELSE Outcome(op[p], seen[p][k])]
    BY <1>3 DEF WriteFile
  <2>5. \A j \in Keys : file'[j] = file[j] \/ file'[j] = Outcome(op[p], seen[p][k])
    BY <2>1, <2>4 DEF LockedInv, TypeOK
  <2>6. \A j \in Keys : Ranked(file'[j], rankOf)
    BY <1>1, <2>3, <2>5 DEF RankedBy
  <2>. QED
    BY <1>1, <2>4, <2>6 DEF RankedBy, Ranked, RanksFixed
<1>4. ASSUME NEW p \in Procs,
             \/ \E k \in Keys : BeginRemove(p, k)
             \/ \E k \in Keys, v \in Values : BeginReplace(p, k, v)
             \/ BeginLoad(p)
             \/ BeginUnlockedLoad(p)
             \/ Acquire(p)
             \/ LockTimeout(p)
             \/ \E k \in Keys : ReadFile(p, k)
             \/ FinishLoad(p)
             \/ ReportUnlockedLoad(p)
             \/ Unlock(p)
             \/ Crash(p)
      PROVE  RanksFixed'
  <2>1. used' = used
    BY <1>4 DEF BeginRemove, BeginReplace, BeginLoad, BeginUnlockedLoad, Acquire,
                LockTimeout, ReadFile, FinishLoad, ReportUnlockedLoad, Unlock, Crash
  <2>2. RankedBy(rankOf)'
    BY <1>1, <1>4, <2>1, RanksCopied
  <2>. QED
    BY <1>1, <2>1, <2>2 DEF RanksFixed
<1>5. CASE (\E t \in Times : SetClock(t)) \/ UNCHANGED vars
  <2>1. UNCHANGED <<file, op, seen, view, used>>
    BY <1>5 DEF SetClock, vars
  <2>. QED
    BY <1>1, <2>1 DEF RanksFixed, RankedBy, Ranked
<1>. QED
  BY <1>2, <1>3, <1>4, <1>5 DEF Next

(***************************************************************************)
(* Every reachable state satisfies the inductive invariant; in particular  *)
(* a load_pending under the lock returns a state of the whole directory.   *)
(***************************************************************************)
THEOREM Invariance == Spec => []IInv
  BY InitInv, NextInv, RanksInit, RanksNext, PTL DEF Spec, IInv

THEOREM SnapshotTheorem == Spec => []LoadIsSnapshot
  BY Invariance, PTL DEF IInv, LockedInv

(***************************************************************************)
(* A late callback cannot unlink or rewrite a generation it did not load.  *)
(***************************************************************************)
THEOREM OwnershipTheorem == Spec => OnlyOwnersRetire
<1>. DEFINE Owned == \A k \in Keys : Rewritten(k) =>
          \E p \in Procs : /\ pc[p] = "write"
                           /\ op[p].kind \in {"remove", "replace"}
                           /\ op[p].key = k
                           /\ op[p].expected.rev = file[k].rev
<1>1. ASSUME IInv, [Next]_vars PROVE Owned
  <2>. SUFFICES ASSUME NEW k \in Keys, Rewritten(k)
                PROVE  \E p \in Procs : /\ pc[p] = "write"
                                        /\ op[p].kind \in {"remove", "replace"}
                                        /\ op[p].key = k
                                        /\ op[p].expected.rev = file[k].rev
    OBVIOUS
  <2>1. PICK p \in Procs :
            /\ pc[p] = "write"
            /\ op[p].kind \in Mutations
            /\ WellFormed(op[p])
            /\ op[p].key \in Keys
            /\ file' = [file EXCEPT ![op[p].key] = Outcome(op[p], file[op[p].key])]
    BY <1>1, FileSteps DEF Rewritten, IInv
  <2>2. op[p].key = k /\ file'[k] = Outcome(op[p], file[k])
    BY <1>1, <2>1 DEF Rewritten, IInv, LockedInv, TypeOK
  <2>3. op[p] \in Operation /\ file[k] \in Command /\ file[k] # NoCommand
    BY <1>1 DEF IInv, LockedInv, TypeOK, Rewritten
  <2>4. op[p].kind # "enqueue"
    <3>. SUFFICES ASSUME op[p].kind = "enqueue" PROVE FALSE
      OBVIOUS
    <3>1. op[p].payload.rev # file[k].rev
      BY <1>1, <2>1, <2>3 DEF IInv, LockedInv, RevisionsFresh, Enqueueing
    <3>2. file'[k] \in {op[p].payload, Coalesced(file[k], op[p].payload), file[k]}
      BY <2>2, <2>3 DEF Outcome, AfterEnqueue
    <3>3. op[p].payload \in Command
      BY <2>1 DEF WellFormed
    <3>4. Coalesced(file[k], op[p].payload).rev = op[p].payload.rev
          /\ Coalesced(file[k], op[p].payload) \in Command
      BY <2>3, <3>3 DEF Coalesced, Command
    <3>. QED
      BY <2>3, <3>1, <3>2, <3>3, <3>4, NoCommandAssumption DEF Rewritten
  <2>5. IsCurrent(file[k], op[p].expected)
    BY <2>1, <2>2, <2>4
       DEF Outcome, Mutations, AfterRemoveIfCurrent, AfterReplaceIfCurrent, Rewritten
  <2>. QED
    BY <2>1, <2>2, <2>4, <2>5 DEF IsCurrent, Mutations
<1>. QED
  BY <1>1, Invariance, PTL DEF Spec, OnlyOwnersRetire

(* What an operation leaves is no less urgent than what it found. *)
LEMMA OutcomeUrgency ==
    ASSUME NEW o \in Operation, WellFormed(o), o.kind \in Mutations,
           NEW current \in Command, NEW rankOf,
           Ranked(current, rankOf), Ranked(o.expected, rankOf), Ranked(o.payload, rankOf),
           Outcome(o, current) # NoCommand
    PROVE  Outcome(o, current).rank <= current.rank
<1>1. current.rank \in Int /\ current # NoCommand
  BY MailboxAssumption, NoCommandAssumption DEF Command
<1>2. CASE Outcome(o, current) = current
  BY <1>1, <1>2
<1>3. CASE Outcome(o, current) # current /\ o.kind = "enqueue"
  <2>1. o.payload \in Command
    BY <1>3 DEF WellFormed
  <2>2. Outcome(o, current) = Coalesced(current, o.payload) /\ ShouldReplace(current, o.payload)
    BY <1>1, <1>3 DEF Outcome, AfterEnqueue
  <2>3. Coalesced(current, o.payload).rank = o.payload.rank
    BY <2>1 DEF Coalesced, Command
  <2>4. o.payload.rank \in Int
    BY <2>1, MailboxAssumption DEF Command
  <2>. QED
    BY <1>1, <2>2, <2>3, <2>4 DEF ShouldReplace
<1>4. CASE Outcome(o, current) # current /\ o.kind = "remove"
  BY <1>4 DEF Outcome, AfterRemoveIfCurrent
<1>5. CASE Outcome(o, current) # current /\ o.kind = "replace"
  <2>1. PICK v \in Values : o.payload = [o.expected EXCEPT !.val = v]
    BY <1>5 DEF WellFormed
  <2>2. /\ o.payload \in Command /\ o.payload.rank = o.expected.rank
        /\ o.expected \in Command
    BY <1>5, <2>1 DEF WellFormed, Command
  <2>. DEFINE new == [o.payload EXCEPT !.rev = current.rev, !.at = current.at]
  <2>3. new.rank = o.payload.rank
    BY <2>2 DEF Command
  <2>4. Outcome(o, current) = new /\ IsCurrent(current, o.expected)
    BY <1>5 DEF Outcome, AfterReplaceIfCurrent
  <2>5. o.expected.rank = current.rank
    BY <1>1, <2>2, <2>4, NoCommandAssumption DEF Ranked, IsCurrent
  <2>. QED
    BY <1>1, <2>2, <2>3, <2>4, <2>5
<1>. QED
  BY <1>2, <1>3, <1>4, <1>5 DEF Mutations

(***************************************************************************)
(* Coalescing never lets a less urgent command displace a pending one, and *)
(* rewriting a command in place never changes its urgency (enqueue,        *)
(* replace_if_current and should_replace_command).                         *)
(***************************************************************************)
THEOREM UrgencyTheorem == Spec => UrgencyKept
<1>. DEFINE Urgent == \A k \in Keys : file[k] # NoCommand /\ file'[k] # NoCommand
                                        => file'[k].rank <= file[k].rank
<1>1. ASSUME IInv, [Next]_vars PROVE Urgent
  <2>. SUFFICES ASSUME NEW k \in Keys, file[k] # NoCommand, file'[k] # NoCommand
                PROVE  file'[k].rank <= file[k].rank
    OBVIOUS
  <2>. USE <1>1 DEF IInv, LockedInv
  <2>1. file[k] \in Command /\ file[k].rank \in Int
    BY MailboxAssumption DEF TypeOK, Command
  <2>2. CASE file'[k] = file[k]
    BY <2>1, <2>2
  <2>3. CASE file'[k] # file[k]
    <3>1. PICK p \in Procs :
            /\ pc[p] = "write"
            /\ op[p].kind \in Mutations
            /\ WellFormed(op[p])
            /\ op[p].key \in Keys
            /\ file' = [file EXCEPT ![op[p].key] = Outcome(op[p], file[op[p].key])]
      BY <2>3, FileSteps
    <3>2. op[p].key = k /\ file'[k] = Outcome(op[p], file[k]) /\ op[p] \in Operation
      BY <2>3, <3>1 DEF TypeOK
    <3>3. PICK rankOf \in [used -> Ranks] : RankedBy(rankOf)
      BY DEF RanksFixed
    <3>4. /\ Ranked(file[k], rankOf) /\ Ranked(op[p].expected, rankOf)
          /\ Ranked(op[p].payload, rankOf)
      BY <3>3 DEF RankedBy
    <3>. QED
      BY <2>1, <3>1, <3>2, <3>4, OutcomeUrgency
  <2>. QED
    BY <2>2, <2>3
<1>. QED
  BY <1>1, Invariance, PTL DEF Spec, UrgencyKept

(***************************************************************************)
(* The locked file operations implement the atomic mailbox: each step of   *)
(* FileMailbox is one whole operation of AtomicMailbox or leaves the       *)
(* directory as it was.                                                    *)
(***************************************************************************)
THEOREM Refinement == Spec => AtomicSpec
<1>1. Init => Atomic!Init
  BY DEF Init, Atomic!Init, Empty
<1>a. /\ Atomic!Command = Command
      /\ \A c, d : Atomic!AfterEnqueue(c, d) = AfterEnqueue(c, d)
      /\ \A c, d : Atomic!AfterRemoveIfCurrent(c, d) = AfterRemoveIfCurrent(c, d)
      /\ \A c, d, e : Atomic!AfterReplaceIfCurrent(c, d, e)
                        = AfterReplaceIfCurrent(c, d, e)
  BY DEF Command, Atomic!Command, AfterEnqueue, Atomic!AfterEnqueue,
         ShouldReplace, Atomic!ShouldReplace, Coalesced, Atomic!Coalesced,
         IsCurrent, Atomic!IsCurrent,
         AfterRemoveIfCurrent, Atomic!AfterRemoveIfCurrent,
         AfterReplaceIfCurrent, Atomic!AfterReplaceIfCurrent
<1>2. ASSUME IInv, [Next]_vars PROVE [Atomic!Next]_file
  <2>1. CASE file' = file
    BY <2>1
  <2>2. ASSUME NEW p \in Procs,
               op[p].kind \in Mutations, WellFormed(op[p]), op[p].key \in Keys,
               file' = [file EXCEPT ![op[p].key] = Outcome(op[p], file[op[p].key])]
        PROVE  Atomic!Next
    <3>. DEFINE k == op[p].key
    <3>1. CASE op[p].kind = "enqueue"
      <4>1. op[p].payload \in Command /\ Atomic!Enqueue(k, op[p].payload)
        BY <1>a, <2>2, <3>1 DEF WellFormed, Outcome, Atomic!Enqueue
      <4>. QED BY <1>a, <2>2, <4>1 DEF Atomic!Next
    <3>2. CASE op[p].kind = "remove"
      <4>1. op[p].expected \in Command /\ Atomic!RemoveIfCurrent(k, op[p].expected)
        BY <1>a, <2>2, <3>2 DEF WellFormed, Outcome, Atomic!RemoveIfCurrent
      <4>. QED BY <1>a, <2>2, <4>1 DEF Atomic!Next
    <3>3. CASE op[p].kind = "replace"
      <4>1. PICK v \in Values : op[p].payload = [op[p].expected EXCEPT !.val = v]
        BY <2>2, <3>3 DEF WellFormed
      <4>2. op[p].expected \in Command
            /\ Atomic!ReplaceIfCurrent(k, op[p].expected, [op[p].expected EXCEPT !.val = v])
        BY <1>a, <2>2, <3>3, <4>1 DEF WellFormed, Outcome, Atomic!ReplaceIfCurrent
      <4>. QED BY <1>a, <2>2, <4>2 DEF Atomic!Next
    <3>. QED BY <2>2, <3>1, <3>2, <3>3 DEF Mutations
  <2>. QED
    BY <1>2, <2>1, <2>2, FileSteps DEF IInv
<1>. QED
  BY <1>1, <1>2, Invariance, PTL DEF Spec, AtomicSpec, Atomic!Spec
=============================================================================
