-------------------------- MODULE MCProgress_proofs --------------------------
(***************************************************************************)
(* Safety of the components whose progress is checked, for every value of  *)
(* their constants: the two publication lanes, the gateway's tick, the     *)
(* supervisor of the auto-input helper and the control writes, each by an  *)
(* invariant of its own, and together as they stand side by side.          *)
(***************************************************************************)
EXTENDS MCProgress, TLAPS, SequenceTheorems, FiniteSetTheorems, WellFoundedInduction

(***************************************************************************)
(* The publication lanes, for any set of fields and any number of          *)
(* publications and crashes.  The invariant speaks of one field at a time; *)
(* one lemma per action, one step per part of the invariant.               *)
(***************************************************************************)
(* A fallback merged into the file: its fields get the newest order. *)
LEMMA Merging ==
    ASSUME TypeOK, IssuedOK, client # NoClient,
           NEW m, m = MergedFile(client)
    PROVE  /\ m \in File /\ m.rev = client.order
           /\ \A f \in Fields : m.orders[f] = IF f \in client.fields THEN client.order
                                              ELSE Stored(f)
           /\ file = NoFile => m.since = client.order /\ m.late = FALSE
           /\ file # NoFile => m.since = file.since /\ m.late = file.late
<1>. USE LanesAssumption DEF TypeOK, Orders, Publication
<1>1. CASE file = NoFile
  BY <1>1 DEF MergedFile, Raise, Nothing, Stored, File, IssuedOK
<1>2. CASE file # NoFile
  <2>1. file \in File /\ FileOK(file) /\ file.rev < client.order
    BY <1>2 DEF IssuedOK
  <2>2. Raise(file.orders, client.fields, client.order)
          = [f \in Fields |-> IF f \in client.fields THEN client.order ELSE file.orders[f]]
    BY <2>1 DEF Raise, File, FileOK
  <2>3. m = [file EXCEPT !.orders = [f \in Fields |-> IF f \in client.fields THEN client.order
                                                     ELSE file.orders[f]],
                         !.rev = client.order]
    BY <1>2, <2>2 DEF MergedFile
  <2>4. client.order \in 0 .. MaxOrders
    OBVIOUS
  <2>5. m.orders = [f \in Fields |-> IF f \in client.fields THEN client.order
                                    ELSE file.orders[f]]
        /\ m.rev = client.order /\ m.since = file.since /\ m.late = file.late
    BY <2>1, <2>3 DEF File
  <2>6. file.late \in BOOLEAN
    BY <2>1, Zenon DEF File
  <2>7. m = [orders |-> m.orders, rev |-> m.rev, since |-> m.since, late |-> m.late]
    BY <2>1, <2>3 DEF File
  <2>8. m.orders \in [Fields -> Orders] /\ m.rev \in Orders /\ m.since \in Orders
    BY <2>1, <2>4, <2>5 DEF File
  <2>9. m \in File
    BY <2>5, <2>6, <2>7, <2>8, Zenon DEF File
  <2>. QED
    BY <1>2, <2>5, <2>9 DEF Stored
<1>. QED
  BY <1>1, <1>2

(* What applying the queued work, or a stored fallback, does to a field. *)
LEMMA FastEffect ==
    ASSUME TypeOK, \A f \in Fields : Reserved(f), ApplyFast
    PROVE  /\ marks' \in [Fields -> Mark] /\ applied' \in [Fields -> Orders]
           /\ journal' \in [Fields -> Orders] /\ guarded' \in [Fields -> Orders]
           /\ \A f \in Fields :
                /\ queue[f] = 0 => applied'[f] = applied[f] /\ marks'[f] = marks[f]
                /\ queue[f] # 0 => /\ applied'[f] = queue[f]
                                   /\ marks[f] = [order |-> queue[f], lane |-> "fast"]
                                   /\ marks'[f] = [order |-> queue[f], lane |-> "durable"]
                /\ \/ journal'[f] = journal[f] /\ guarded'[f] = guarded[f]
                   \/ /\ \/ queue[f] # 0 /\ journal'[f] = queue[f]
                         \/ queue[f] = 0 /\ journal'[f] = journal[f]
                      /\ guarded'[f] = IF guarded[f] > journal'[f]
                                            THEN guarded[f] ELSE journal'[f]
                   \/ /\ journal'[f] = IF marks'[f].lane = "durable" THEN marks'[f].order ELSE 0
                      /\ guarded'[f] = IF marks'[f].lane = "fast" THEN 0
                                       ELSE IF guarded[f] > marks'[f].order THEN guarded[f]
                                       ELSE marks'[f].order
<1>. USE LanesAssumption
<1>. DEFINE F == {f \in Fields : queue[f] # 0}
            C == {f \in F : marks[f] = [order |-> queue[f], lane |-> "fast"]}
<1>1. C = F
  BY DEF Reserved, TypeOK, Mark
<1>2. /\ applied' = [f \in Fields |-> IF f \in F THEN queue[f] ELSE applied[f]]
      /\ marks' = [f \in Fields |-> IF f \in C THEN [marks[f] EXCEPT !.lane = "durable"]
                                    ELSE marks[f]]
      /\ Checkpoint(C, queue, marks')
  BY DEF ApplyFast
<1>3. marks' \in [Fields -> Mark] /\ applied' \in [Fields -> Orders]
  BY <1>2 DEF TypeOK, Mark
<1>4. /\ journal' \in [Fields -> Orders] /\ guarded' \in [Fields -> Orders]
      /\ \A f \in Fields :
            \/ journal'[f] = journal[f] /\ guarded'[f] = guarded[f]
            \/ /\ \/ f \in C /\ journal'[f] = queue[f]
                  \/ f \notin C /\ journal'[f] = journal[f]
               /\ guarded'[f] = IF guarded[f] > journal'[f]
                                     THEN guarded[f] ELSE journal'[f]
            \/ /\ journal'[f] = IF marks'[f].lane = "durable" THEN marks'[f].order ELSE 0
               /\ guarded'[f] = IF marks'[f].lane = "fast" THEN 0
                                ELSE IF guarded[f] > marks'[f].order THEN guarded[f]
                                ELSE marks'[f].order
  <2>3. CASE UNCHANGED <<journal, guarded>>
    BY <2>3 DEF TypeOK
  <2>4. CASE /\ journal' = [f \in Fields |-> IF f \in C THEN queue[f] ELSE journal[f]]
             /\ guarded' = Larger(guarded, journal')
    <3>1. journal' \in [Fields -> Orders]
      BY <1>3, <2>4 DEF TypeOK
    <3>2. guarded' \in [Fields -> Orders]
      BY <2>4, <3>1 DEF Larger, TypeOK, Orders
    <3>. QED
      BY <2>4, <3>1, <3>2 DEF Larger
  <2>5. CASE Compact(marks')
    <3>1. marks' \in [Fields -> Mark] /\ guarded \in [Fields -> Orders]
      BY <1>3 DEF TypeOK
    <3>2. journal' \in [Fields -> Orders] /\ guarded' \in [Fields -> Orders]
      BY <2>5, <3>1 DEF Compact, Mark, Orders
    <3>. QED
      BY <2>5, <3>1, <3>2 DEF Compact, Mark, Orders
  <2>. QED
    BY <1>2, <2>3, <2>4, <2>5 DEF Checkpoint
<1>6. \A f \in Fields :
         /\ queue[f] = 0 => applied'[f] = applied[f] /\ marks'[f] = marks[f]
         /\ queue[f] # 0 => /\ applied'[f] = queue[f]
                            /\ marks[f] = [order |-> queue[f], lane |-> "fast"]
                            /\ marks'[f] = [order |-> queue[f], lane |-> "durable"]
  BY <1>1, <1>2 DEF TypeOK, Mark, Reserved
<1>. QED
  BY <1>1, <1>3, <1>4, <1>6

LEMMA DurableEffect ==
    ASSUME TypeOK, ApplyDurable, NEW F, F = DurableAccepted(seen)
    PROVE  /\ F \in SUBSET Fields /\ seen \in File /\ ~seen.late
           /\ \A f \in Fields : seen.orders[f] # 0 => queue[f] = 0 \/ seen.orders[f] > queue[f]
           /\ \A f \in Fields : f \in F <=>
                 /\ seen.orders[f] # 0
                 /\ \/ seen.orders[f] > marks[f].order
                    \/ seen.orders[f] = marks[f].order /\ marks[f].lane = "durable"
           /\ marks' \in [Fields -> Mark] /\ applied' \in [Fields -> Orders]
           /\ queue' \in [Fields -> Orders] /\ owed' \in [Fields -> Orders]
           /\ journal' \in [Fields -> Orders] /\ guarded' \in [Fields -> Orders]
           /\ \A f \in Fields :
                /\ f \notin F => /\ applied'[f] = applied[f] /\ marks'[f] = marks[f]
                                 /\ queue'[f] = queue[f] /\ owed'[f] = owed[f]
                /\ f \in F => /\ applied'[f] = seen.orders[f] /\ queue'[f] = 0
                              /\ marks'[f] = [order |-> seen.orders[f], lane |-> "durable"]
                              /\ owed'[f] = IF owed[f] <= seen.orders[f] THEN 0 ELSE owed[f]
                /\ \/ journal'[f] = journal[f] /\ guarded'[f] = guarded[f]
                   \/ /\ \/ f \in F /\ journal'[f] = seen.orders[f]
                         \/ f \notin F /\ journal'[f] = journal[f]
                      /\ guarded'[f] = IF guarded[f] > journal'[f]
                                            THEN guarded[f] ELSE journal'[f]
                   \/ /\ journal'[f] = IF marks'[f].lane = "durable" THEN marks'[f].order ELSE 0
                      /\ guarded'[f] = IF marks'[f].lane = "fast" THEN 0
                                       ELSE IF guarded[f] > marks'[f].order THEN guarded[f]
                                       ELSE marks'[f].order
<1>. USE LanesAssumption
<1>1. /\ F \in SUBSET Fields /\ seen \in File /\ ~seen.late
      /\ \A f \in Fields : seen.orders[f] # 0 => queue[f] = 0 \/ ~(seen.orders[f] <= queue[f])
      /\ \A f \in Fields : f \in F <=>
            /\ seen.orders[f] # 0
            /\ \/ seen.orders[f] > marks[f].order
               \/ seen.orders[f] = marks[f].order /\ marks[f].lane = "durable"
  BY DEF ApplyDurable, DurableAccepted, WaitsForFast, Present, TypeOK, Snapshot
<1>2. /\ applied' = [f \in Fields |-> IF f \in F THEN seen.orders[f] ELSE applied[f]]
      /\ marks' = [f \in Fields |-> IF f \in F THEN [order |-> seen.orders[f], lane |-> "durable"]
                                    ELSE marks[f]]
      /\ Checkpoint(F, seen.orders, marks')
      /\ queue' = [f \in Fields |-> IF f \in F THEN 0 ELSE queue[f]]
      /\ owed' = Settle([f \in Fields |-> IF f \in F THEN seen.orders[f] ELSE 0])
  BY DEF ApplyDurable
<1>3. /\ marks' \in [Fields -> Mark] /\ applied' \in [Fields -> Orders]
      /\ queue' \in [Fields -> Orders] /\ seen.orders \in [Fields -> Orders]
  BY <1>1, <1>2 DEF TypeOK, Mark, File, Orders
<1>4. /\ journal' \in [Fields -> Orders] /\ guarded' \in [Fields -> Orders]
      /\ \A f \in Fields :
            \/ journal'[f] = journal[f] /\ guarded'[f] = guarded[f]
            \/ /\ \/ f \in F /\ journal'[f] = seen.orders[f]
                  \/ f \notin F /\ journal'[f] = journal[f]
               /\ guarded'[f] = IF guarded[f] > journal'[f]
                                     THEN guarded[f] ELSE journal'[f]
            \/ /\ journal'[f] = IF marks'[f].lane = "durable" THEN marks'[f].order ELSE 0
               /\ guarded'[f] = IF marks'[f].lane = "fast" THEN 0
                                ELSE IF guarded[f] > marks'[f].order THEN guarded[f]
                                ELSE marks'[f].order
  <2>3. CASE UNCHANGED <<journal, guarded>>
    BY <2>3 DEF TypeOK
  <2>4. CASE /\ journal' = [f \in Fields |-> IF f \in F THEN seen.orders[f] ELSE journal[f]]
             /\ guarded' = Larger(guarded, journal')
    <3>1. journal' \in [Fields -> Orders]
      BY <1>3, <2>4 DEF TypeOK
    <3>2. guarded' \in [Fields -> Orders]
      BY <2>4, <3>1 DEF Larger, TypeOK, Orders
    <3>. QED
      BY <2>4, <3>1, <3>2 DEF Larger
  <2>5. CASE Compact(marks')
    <3>1. marks' \in [Fields -> Mark] /\ guarded \in [Fields -> Orders]
      BY <1>3 DEF TypeOK
    <3>2. journal' \in [Fields -> Orders] /\ guarded' \in [Fields -> Orders]
      BY <2>5, <3>1 DEF Compact, Mark, Orders
    <3>. QED
      BY <2>5, <3>1, <3>2 DEF Compact, Mark, Orders
  <2>. QED
    BY <1>2, <2>3, <2>4, <2>5 DEF Checkpoint
<1>6. \A f \in Fields :
         /\ f \notin F => /\ applied'[f] = applied[f] /\ marks'[f] = marks[f]
                          /\ queue'[f] = queue[f] /\ owed'[f] = owed[f]
         /\ f \in F => /\ applied'[f] = seen.orders[f] /\ queue'[f] = 0
                       /\ marks'[f] = [order |-> seen.orders[f], lane |-> "durable"]
                       /\ owed'[f] = IF owed[f] <= seen.orders[f] THEN 0 ELSE owed[f]
  BY <1>2, <1>3 DEF Settle, TypeOK, Orders
<1>7. owed' \in [Fields -> Orders]
  BY <1>2, <1>3 DEF Settle, TypeOK, Orders
<1>8. \A f \in Fields : seen.orders[f] # 0 => queue[f] = 0 \/ seen.orders[f] > queue[f]
  BY <1>1, <1>3 DEF TypeOK, Orders
<1>. QED
  BY <1>1, <1>3, <1>4, <1>6, <1>7, <1>8
-----------------------------------------------------------------------------
(* The client. *)
LEMMA PublishPreserves ==
    ASSUME IInv, NEW F \in SUBSET Fields, Publish(F)
    PROVE  IInv'
<1>. USE LanesAssumption DEF IInv, TypeOK, Orders, Publication, File, Mark, NoMark, Snapshot, tick, history, Publish
<1>1. TypeOK'
  OBVIOUS
<1>2. IssuedOK'
  BY  DEF IssuedOK, FileOK, SnapshotOK
<1>3. SnapshotOK'
  BY  DEF SnapshotOK, FileOK, IssuedOK
<1>4. ASSUME NEW f \in Fields PROVE FieldOK(f)'
  <2>0. FieldOK(f)
    OBVIOUS
  <2>1. MarkOK(f)'
    BY <2>0 DEF FieldOK, MarkOK, Above, Reserved, Covered, Blocked, JournalOK, IssuedOK, FileOK, SnapshotOK
  <2>2. Reserved(f)'
    BY <2>0 DEF FieldOK, Reserved, Above, MarkOK, Covered, IssuedOK, FileOK, SnapshotOK
  <2>3. Covered(f)'
    BY <2>0 DEF FieldOK, Covered, Blocked, Above, MarkOK, Reserved, JournalOK, Restorable, IssuedOK, FileOK, SnapshotOK
  <2>4. JournalOK(f)'
    BY <2>0 DEF FieldOK, JournalOK, Restorable, MarkOK, Above, Reserved, Covered, Blocked, IssuedOK, FileOK, SnapshotOK
  <2>5. OwedOK(f)'
    BY <2>0 DEF FieldOK, OwedOK, MarkOK, Reserved, Above, Kept, Covered, IssuedOK, FileOK, SnapshotOK
  <2>6. Kept(f)'
    BY <2>0 DEF FieldOK, Kept, Stored, OwedOK, Reserved, MarkOK, IssuedOK, FileOK, SnapshotOK
  <2>. QED
    BY <2>1, <2>2, <2>3, <2>4, <2>5, <2>6 DEF FieldOK
<1>. QED
  BY <1>1, <1>2, <1>3, <1>4

LEMMA FallbackPreserves ==
    ASSUME IInv, Fallback
    PROVE  IInv'
<1>a. /\ file' \in File /\ file'.rev = client.order
      /\ \A f \in Fields : file'.orders[f] = IF f \in client.fields THEN client.order
                                             ELSE Stored(f)
      /\ file = NoFile => file'.since = client.order /\ file'.late = FALSE
      /\ file # NoFile => file'.since = file.since /\ file'.late = file.late
  BY Merging DEF Fallback, IInv
<1>b. /\ client \in Publication /\ client' = NoClient
      /\ owed' = Owe(client.fields, client.order)
      /\ UNCHANGED <<issued, socket, tick, queue, marks, journal, applied,
                     guarded, crashes>>
  BY DEF Fallback, IInv, TypeOK
<1>c. client.order = issued /\ issued \in Nat /\ issued # 0 /\ client # NoClient
  BY LanesAssumption DEF Fallback, IInv, IssuedOK, TypeOK, Orders
<1>. USE LanesAssumption DEF IInv, TypeOK, Orders, Publication, File, Mark, NoMark, Snapshot, tick, history
<1>1. TypeOK'
  <2>1. owed' \in [Fields -> Orders]
    BY <1>b DEF Owe
  <2>. QED
    BY <1>a, <1>b, <2>1
<1>2. IssuedOK'
  <2>1. FileOK(file)'
    <3>1. file # NoFile => /\ file \in File /\ FileOK(file) /\ file.rev < issued
                           /\ file.rev \in Nat /\ file.since \in Nat
      BY <1>c DEF IssuedOK
    <3>2. 0 < file'.since /\ file'.since <= file'.rev /\ file'.rev <= issued
      BY <1>a, <1>c, <3>1 DEF FileOK
    <3>3. ASSUME NEW f \in Fields, file'.orders[f] # 0
          PROVE  file'.since <= file'.orders[f] /\ file'.orders[f] <= file'.rev
      BY <1>a, <1>c, <3>1, <3>3 DEF FileOK, Stored
    <3>. QED
      BY <1>b, <3>2, <3>3 DEF FileOK
  <2>. QED
    BY <1>a, <1>b, <1>c, <2>1 DEF IssuedOK
<1>3. SnapshotOK'
  <2>1. SUFFICES ASSUME Snapshot' PROVE
             /\ FileOK(seen)' /\ file' # NoFile
             /\ file'.since = seen.since /\ file'.late = seen.late
             /\ \A f \in Fields : seen.orders[f] <= file'.orders[f]
             /\ seen.rev < file'.rev
    BY <1>a, <1>b DEF SnapshotOK
  <2>2. /\ FileOK(seen) /\ file # NoFile /\ seen \in File /\ file \in File
        /\ file.since = seen.since /\ file.late = seen.late
        /\ \A f \in Fields : seen.orders[f] <= file.orders[f]
        /\ seen.rev <= file.rev /\ file.rev < client.order
    <3>1. Snapshot
      BY <1>b, <2>1
    <3>. QED
      BY <3>1, <1>c DEF SnapshotOK, IssuedOK
  <2>3. FileOK(seen)' /\ file' # NoFile
    BY <1>a, <1>b, <2>2 DEF FileOK
  <2>4. \A f \in Fields : seen.orders[f] <= file'.orders[f]
    <3>. SUFFICES ASSUME NEW f \in Fields PROVE seen.orders[f] <= file'.orders[f]
      OBVIOUS
    <3>1. seen.orders[f] \in Nat /\ file.orders[f] \in Nat /\ seen.rev \in Nat /\ file.rev \in Nat
      BY <2>2
    <3>2. seen.orders[f] <= client.order
      BY <3>1, <2>2, <1>c DEF FileOK
    <3>. QED
      BY <1>a, <2>2, <3>1, <3>2 DEF Stored
  <2>. QED
    BY <1>a, <2>2, <2>3, <2>4
<1>4. ASSUME NEW f \in Fields PROVE FieldOK(f)'
  <2>n. /\ queue[f] \in Nat /\ marks[f].order \in Nat /\ applied[f] \in Nat
        /\ journal[f] \in Nat /\ guarded[f] \in Nat /\ owed[f] \in Nat
        /\ marks[f].lane \in {"fast", "durable"}
    OBVIOUS
  <2>e. /\ f \in client.fields => file'.orders[f] = issued
        /\ f \notin client.fields => file'.orders[f] = Stored(f)
        /\ owed'[f] = IF f \in client.fields /\ issued > applied[f] /\ issued > owed[f]
                      THEN issued ELSE owed[f]
        /\ Stored(f) \in Nat /\ Stored(f)' = file'.orders[f]
    BY <1>a, <1>b, <1>c DEF Owe, Stored
  <2>0. FieldOK(f)
    OBVIOUS
  <2>1. MarkOK(f)'
    BY <1>b, <2>0 DEF FieldOK, MarkOK, Reserved, Above
  <2>2. Reserved(f)'
    BY <1>b, <2>0 DEF FieldOK, MarkOK, Reserved, Above
  <2>3. Covered(f)'
    <3>1. file'.late \/ Blocked(file, f)'
      BY <1>a, <1>b, <1>c, <2>0, <2>n, <2>e DEF FieldOK, Covered, Blocked, Above, MarkOK, Stored
    <3>. QED
      BY <1>b, <2>0, <3>1 DEF FieldOK, Covered, Blocked, Above
  <2>4. JournalOK(f)'
    <3>1. file'.late \/ Restorable(file, f)'
      BY <1>a, <1>b, <1>c, <2>0, <2>n, <2>e DEF FieldOK, JournalOK, Restorable, MarkOK, Stored
    <3>. QED
      BY <1>b, <2>0, <3>1 DEF FieldOK, JournalOK, Restorable
  <2>5. OwedOK(f)'
    BY <1>b, <1>c, <2>0, <2>n, <2>e DEF FieldOK, OwedOK, MarkOK
  <2>6. Kept(f)'
    <3>1. Stored(f) <= issued
      BY <1>c DEF Stored, IssuedOK, FileOK
    <3>. QED
      BY <1>b, <1>c, <2>0, <2>n, <2>e, <3>1 DEF FieldOK, Kept, MarkOK
  <2>. QED
    BY <2>1, <2>2, <2>3, <2>4, <2>5, <2>6 DEF FieldOK
<1>. QED
  BY <1>1, <1>2, <1>3, <1>4

LEMMA GiveUpPreserves ==
    ASSUME IInv, GiveUp
    PROVE  IInv'
<1>. USE LanesAssumption DEF IInv, TypeOK, Orders, Publication, File, Mark, NoMark, Snapshot, tick, history, GiveUp
<1>1. TypeOK'
  OBVIOUS
<1>2. IssuedOK'
  BY  DEF IssuedOK, FileOK, SnapshotOK
<1>3. SnapshotOK'
  BY  DEF SnapshotOK, FileOK, IssuedOK
<1>4. ASSUME NEW f \in Fields PROVE FieldOK(f)'
  <2>0. FieldOK(f)
    OBVIOUS
  <2>1. MarkOK(f)'
    BY <2>0 DEF FieldOK, MarkOK, Above, Reserved, Covered, Blocked, JournalOK, IssuedOK, FileOK, SnapshotOK
  <2>2. Reserved(f)'
    BY <2>0 DEF FieldOK, Reserved, Above, MarkOK, Covered, IssuedOK, FileOK, SnapshotOK
  <2>3. Covered(f)'
    BY <2>0 DEF FieldOK, Covered, Blocked, Above, MarkOK, Reserved, JournalOK, Restorable, IssuedOK, FileOK, SnapshotOK
  <2>4. JournalOK(f)'
    BY <2>0 DEF FieldOK, JournalOK, Restorable, MarkOK, Above, Reserved, Covered, Blocked, IssuedOK, FileOK, SnapshotOK
  <2>5. OwedOK(f)'
    BY <2>0 DEF FieldOK, OwedOK, MarkOK, Reserved, Above, Kept, Covered, IssuedOK, FileOK, SnapshotOK
  <2>6. Kept(f)'
    BY <2>0 DEF FieldOK, Kept, Stored, OwedOK, Reserved, MarkOK, IssuedOK, FileOK, SnapshotOK
  <2>. QED
    BY <2>1, <2>2, <2>3, <2>4, <2>5, <2>6 DEF FieldOK
<1>. QED
  BY <1>1, <1>2, <1>3, <1>4

LEMMA ResendPreserves ==
    ASSUME IInv, Resend
    PROVE  IInv'
<1>. USE LanesAssumption DEF IInv, TypeOK, Orders, Publication, File, Mark, NoMark, Snapshot, tick, history, Resend
<1>1. TypeOK'
  OBVIOUS
<1>2. IssuedOK'
  BY  DEF IssuedOK, FileOK, SnapshotOK
<1>3. SnapshotOK'
  BY  DEF SnapshotOK, FileOK, IssuedOK
<1>4. ASSUME NEW f \in Fields PROVE FieldOK(f)'
  <2>0. FieldOK(f)
    OBVIOUS
  <2>1. MarkOK(f)'
    BY <2>0 DEF FieldOK, MarkOK, Above, Reserved, Covered, Blocked, JournalOK, IssuedOK, FileOK, SnapshotOK
  <2>2. Reserved(f)'
    BY <2>0 DEF FieldOK, Reserved, Above, MarkOK, Covered, IssuedOK, FileOK, SnapshotOK
  <2>3. Covered(f)'
    BY <2>0 DEF FieldOK, Covered, Blocked, Above, MarkOK, Reserved, JournalOK, Restorable, IssuedOK, FileOK, SnapshotOK
  <2>4. JournalOK(f)'
    BY <2>0 DEF FieldOK, JournalOK, Restorable, MarkOK, Above, Reserved, Covered, Blocked, IssuedOK, FileOK, SnapshotOK
  <2>5. OwedOK(f)'
    BY <2>0 DEF FieldOK, OwedOK, MarkOK, Reserved, Above, Kept, Covered, IssuedOK, FileOK, SnapshotOK
  <2>6. Kept(f)'
    BY <2>0 DEF FieldOK, Kept, Stored, OwedOK, Reserved, MarkOK, IssuedOK, FileOK, SnapshotOK
  <2>. QED
    BY <2>1, <2>2, <2>3, <2>4, <2>5, <2>6 DEF FieldOK
<1>. QED
  BY <1>1, <1>2, <1>3, <1>4

(* The socket and the queue. *)
LEMMA AcceptPreserves ==
    ASSUME IInv, NEW p \in socket, Accept(p)
    PROVE  IInv'
<1>. USE LanesAssumption DEF IInv, TypeOK, Orders, Publication, File, Mark, NoMark, Snapshot, tick, history, Accept, FastAccepted, Answer, Raise, Owe
<1>1. TypeOK'
  OBVIOUS
<1>2. IssuedOK'
  BY  DEF IssuedOK, FileOK, SnapshotOK
<1>3. SnapshotOK'
  BY  DEF SnapshotOK, FileOK, IssuedOK
<1>4. ASSUME NEW f \in Fields PROVE FieldOK(f)'
  <2>0. FieldOK(f)
    OBVIOUS
  <2>1. MarkOK(f)'
    BY <2>0 DEF FieldOK, MarkOK, Above, Reserved, Covered, Blocked, JournalOK, IssuedOK, FileOK, SnapshotOK
  <2>2. Reserved(f)'
    BY <2>0 DEF FieldOK, Reserved, Above, MarkOK, Covered, IssuedOK, FileOK, SnapshotOK
  <2>3. Covered(f)'
    BY <2>0 DEF FieldOK, Covered, Blocked, Above, MarkOK, Reserved, JournalOK, Restorable, IssuedOK, FileOK, SnapshotOK
  <2>4. JournalOK(f)'
    BY <2>0 DEF FieldOK, JournalOK, Restorable, MarkOK, Above, Reserved, Covered, Blocked, IssuedOK, FileOK, SnapshotOK
  <2>5. OwedOK(f)'
    BY <2>0 DEF FieldOK, OwedOK, MarkOK, Reserved, Above, Kept, Covered, IssuedOK, FileOK, SnapshotOK
  <2>6. Kept(f)'
    BY <2>0 DEF FieldOK, Kept, Stored, OwedOK, Reserved, MarkOK, IssuedOK, FileOK, SnapshotOK
  <2>. QED
    BY <2>1, <2>2, <2>3, <2>4, <2>5, <2>6 DEF FieldOK
<1>. QED
  BY <1>1, <1>2, <1>3, <1>4

LEMMA RejectPreserves ==
    ASSUME IInv, NEW p \in socket, Reject(p)
    PROVE  IInv'
<1>. USE LanesAssumption DEF IInv, TypeOK, Orders, Publication, File, Mark, NoMark, Snapshot, tick, history, Reject
<1>1. TypeOK'
  OBVIOUS
<1>2. IssuedOK'
  BY  DEF IssuedOK, FileOK, SnapshotOK
<1>3. SnapshotOK'
  BY  DEF SnapshotOK, FileOK, IssuedOK
<1>4. ASSUME NEW f \in Fields PROVE FieldOK(f)'
  <2>0. FieldOK(f)
    OBVIOUS
  <2>1. MarkOK(f)'
    BY <2>0 DEF FieldOK, MarkOK, Above, Reserved, Covered, Blocked, JournalOK, IssuedOK, FileOK, SnapshotOK
  <2>2. Reserved(f)'
    BY <2>0 DEF FieldOK, Reserved, Above, MarkOK, Covered, IssuedOK, FileOK, SnapshotOK
  <2>3. Covered(f)'
    BY <2>0 DEF FieldOK, Covered, Blocked, Above, MarkOK, Reserved, JournalOK, Restorable, IssuedOK, FileOK, SnapshotOK
  <2>4. JournalOK(f)'
    BY <2>0 DEF FieldOK, JournalOK, Restorable, MarkOK, Above, Reserved, Covered, Blocked, IssuedOK, FileOK, SnapshotOK
  <2>5. OwedOK(f)'
    BY <2>0 DEF FieldOK, OwedOK, MarkOK, Reserved, Above, Kept, Covered, IssuedOK, FileOK, SnapshotOK
  <2>6. Kept(f)'
    BY <2>0 DEF FieldOK, Kept, Stored, OwedOK, Reserved, MarkOK, IssuedOK, FileOK, SnapshotOK
  <2>. QED
    BY <2>1, <2>2, <2>3, <2>4, <2>5, <2>6 DEF FieldOK
<1>. QED
  BY <1>1, <1>2, <1>3, <1>4

LEMMA ExpireFastPreserves ==
    ASSUME IInv, NEW g \in Fields, ExpireFast(g)
    PROVE  IInv'
<1>. USE LanesAssumption DEF IInv, TypeOK, Orders, Publication, File, Mark, NoMark, Snapshot, tick, history, ExpireFast, Outlived, Released, Settle, Nothing, Stored
<1>1. TypeOK'
  OBVIOUS
<1>2. IssuedOK'
  BY  DEF IssuedOK, FileOK, SnapshotOK
<1>3. SnapshotOK'
  BY  DEF SnapshotOK, FileOK, IssuedOK
<1>4. ASSUME NEW f \in Fields PROVE FieldOK(f)'
  <2>0. FieldOK(f)
    OBVIOUS
  <2>1. MarkOK(f)'
    BY <2>0 DEF FieldOK, MarkOK, Above, Reserved, Covered, Blocked, JournalOK, IssuedOK, FileOK, SnapshotOK
  <2>2. Reserved(f)'
    BY <2>0 DEF FieldOK, Reserved, Above, MarkOK, Covered, IssuedOK, FileOK, SnapshotOK
  <2>3. Covered(f)'
    BY <2>0 DEF FieldOK, Covered, Blocked, Above, MarkOK, Reserved, JournalOK, Restorable, IssuedOK, FileOK, SnapshotOK
  <2>4. JournalOK(f)'
    BY <2>0 DEF FieldOK, JournalOK, Restorable, MarkOK, Above, Reserved, Covered, Blocked, IssuedOK, FileOK, SnapshotOK
  <2>5. OwedOK(f)'
    BY <2>0 DEF FieldOK, OwedOK, MarkOK, Reserved, Above, Kept, Covered, IssuedOK, FileOK, SnapshotOK
  <2>6. Kept(f)'
    BY <2>0 DEF FieldOK, Kept, OwedOK, Reserved, MarkOK, IssuedOK, FileOK, SnapshotOK
  <2>. QED
    BY <2>1, <2>2, <2>3, <2>4, <2>5, <2>6 DEF FieldOK
<1>. QED
  BY <1>1, <1>2, <1>3, <1>4

(* The tick. *)
LEMMA BeginTickPreserves ==
    ASSUME IInv, BeginTick
    PROVE  IInv'
<1>. USE LanesAssumption DEF IInv, TypeOK, Orders, Publication, File, Mark, NoMark, Snapshot, tick, history, BeginTick
<1>1. TypeOK'
  OBVIOUS
<1>2. IssuedOK'
  BY  DEF IssuedOK, FileOK, SnapshotOK
<1>3. SnapshotOK'
  BY  DEF SnapshotOK, FileOK, IssuedOK
<1>4. ASSUME NEW f \in Fields PROVE FieldOK(f)'
  <2>0. FieldOK(f)
    OBVIOUS
  <2>1. MarkOK(f)'
    BY <2>0 DEF FieldOK, MarkOK, Above, Reserved, Covered, Blocked, JournalOK, IssuedOK, FileOK, SnapshotOK
  <2>2. Reserved(f)'
    BY <2>0 DEF FieldOK, Reserved, Above, MarkOK, Covered, IssuedOK, FileOK, SnapshotOK
  <2>3. Covered(f)'
    BY <2>0 DEF FieldOK, Covered, Blocked, Above, MarkOK, Reserved, JournalOK, Restorable, IssuedOK, FileOK, SnapshotOK
  <2>4. JournalOK(f)'
    BY <2>0 DEF FieldOK, JournalOK, Restorable, MarkOK, Above, Reserved, Covered, Blocked, IssuedOK, FileOK, SnapshotOK
  <2>5. OwedOK(f)'
    BY <2>0 DEF FieldOK, OwedOK, MarkOK, Reserved, Above, Kept, Covered, IssuedOK, FileOK, SnapshotOK
  <2>6. Kept(f)'
    BY <2>0 DEF FieldOK, Kept, Stored, OwedOK, Reserved, MarkOK, IssuedOK, FileOK, SnapshotOK
  <2>. QED
    BY <2>1, <2>2, <2>3, <2>4, <2>5, <2>6 DEF FieldOK
<1>. QED
  BY <1>1, <1>2, <1>3, <1>4

LEMMA EndTickPreserves ==
    ASSUME IInv, EndTick
    PROVE  IInv'
<1>. USE LanesAssumption DEF IInv, TypeOK, Orders, Publication, File, Mark, NoMark, Snapshot, tick, history, EndTick, Stop
<1>1. TypeOK'
  OBVIOUS
<1>2. IssuedOK'
  BY  DEF IssuedOK, FileOK, SnapshotOK
<1>3. SnapshotOK'
  BY  DEF SnapshotOK, FileOK, IssuedOK
<1>4. ASSUME NEW f \in Fields PROVE FieldOK(f)'
  <2>0. FieldOK(f)
    OBVIOUS
  <2>1. MarkOK(f)'
    BY <2>0 DEF FieldOK, MarkOK, Above, Reserved, Covered, Blocked, JournalOK, IssuedOK, FileOK, SnapshotOK
  <2>2. Reserved(f)'
    BY <2>0 DEF FieldOK, Reserved, Above, MarkOK, Covered, IssuedOK, FileOK, SnapshotOK
  <2>3. Covered(f)'
    BY <2>0 DEF FieldOK, Covered, Blocked, Above, MarkOK, Reserved, JournalOK, Restorable, IssuedOK, FileOK, SnapshotOK
  <2>4. JournalOK(f)'
    BY <2>0 DEF FieldOK, JournalOK, Restorable, MarkOK, Above, Reserved, Covered, Blocked, IssuedOK, FileOK, SnapshotOK
  <2>5. OwedOK(f)'
    BY <2>0 DEF FieldOK, OwedOK, MarkOK, Reserved, Above, Kept, Covered, IssuedOK, FileOK, SnapshotOK
  <2>6. Kept(f)'
    BY <2>0 DEF FieldOK, Kept, Stored, OwedOK, Reserved, MarkOK, IssuedOK, FileOK, SnapshotOK
  <2>. QED
    BY <2>1, <2>2, <2>3, <2>4, <2>5, <2>6 DEF FieldOK
<1>. QED
  BY <1>1, <1>2, <1>3, <1>4

LEMMA CheckpointElsewherePreserves ==
    ASSUME IInv, CheckpointElsewhere
    PROVE  IInv'
<1>. USE LanesAssumption DEF IInv, TypeOK, Orders, Publication, File, Mark, NoMark, Snapshot, tick, history, CheckpointElsewhere, Compact
<1>1. TypeOK'
  OBVIOUS
<1>2. IssuedOK'
  BY  DEF IssuedOK, FileOK, SnapshotOK
<1>3. SnapshotOK'
  BY  DEF SnapshotOK, FileOK, IssuedOK
<1>4. ASSUME NEW f \in Fields PROVE FieldOK(f)'
  <2>0. FieldOK(f)
    OBVIOUS
  <2>1. MarkOK(f)'
    BY <2>0 DEF FieldOK, MarkOK, Above, Reserved, Covered, Blocked, JournalOK, IssuedOK, FileOK, SnapshotOK
  <2>2. Reserved(f)'
    BY <2>0 DEF FieldOK, Reserved, Above, MarkOK, Covered, IssuedOK, FileOK, SnapshotOK
  <2>3. Covered(f)'
    BY <2>0 DEF FieldOK, Covered, Blocked, Above, MarkOK, Reserved, JournalOK, Restorable, IssuedOK, FileOK, SnapshotOK
  <2>4. JournalOK(f)'
    BY <2>0 DEF FieldOK, JournalOK, Restorable, MarkOK, Above, Reserved, Covered, Blocked, IssuedOK, FileOK, SnapshotOK
  <2>5. OwedOK(f)'
    BY <2>0 DEF FieldOK, OwedOK, MarkOK, Reserved, Above, Kept, Covered, IssuedOK, FileOK, SnapshotOK
  <2>6. Kept(f)'
    BY <2>0 DEF FieldOK, Kept, Stored, OwedOK, Reserved, MarkOK, IssuedOK, FileOK, SnapshotOK
  <2>. QED
    BY <2>1, <2>2, <2>3, <2>4, <2>5, <2>6 DEF FieldOK
<1>. QED
  BY <1>1, <1>2, <1>3, <1>4

LEMMA ApplyFastPreserves ==
    ASSUME IInv, ApplyFast
    PROVE  IInv'
<1>a. /\ marks' \in [Fields -> Mark] /\ applied' \in [Fields -> Orders]
      /\ journal' \in [Fields -> Orders] /\ guarded' \in [Fields -> Orders]
  BY FastEffect DEF IInv, FieldOK
<1>b. /\ queue' = Nothing /\ owed' = Settle(queue)
      /\ UNCHANGED <<issued, client, socket, file, tick, crashes>>
  BY DEF ApplyFast
<1>c. \A f \in Fields :
        /\ queue[f] = 0 => applied'[f] = applied[f] /\ marks'[f] = marks[f]
        /\ queue[f] # 0 => /\ applied'[f] = queue[f]
                           /\ marks[f] = [order |-> queue[f], lane |-> "fast"]
                           /\ marks'[f] = [order |-> queue[f], lane |-> "durable"]
        /\ \/ journal'[f] = journal[f] /\ guarded'[f] = guarded[f]
           \/ /\ \/ queue[f] # 0 /\ journal'[f] = queue[f]
                 \/ queue[f] = 0 /\ journal'[f] = journal[f]
              /\ guarded'[f] = IF guarded[f] > journal'[f]
                                    THEN guarded[f] ELSE journal'[f]
           \/ /\ journal'[f] = IF marks'[f].lane = "durable" THEN marks'[f].order ELSE 0
              /\ guarded'[f] = IF marks'[f].lane = "fast" THEN 0
                               ELSE IF guarded[f] > marks'[f].order THEN guarded[f]
                               ELSE marks'[f].order
  BY FastEffect DEF IInv, FieldOK
<1>. USE LanesAssumption DEF IInv, TypeOK, Orders, Publication, File, Mark, NoMark, Snapshot, tick, history
<1>1. TypeOK'
  <2>1. queue' \in [Fields -> Orders] /\ owed' \in [Fields -> Orders]
    BY <1>b DEF Settle, Nothing
  <2>. QED
    BY <1>a, <1>b, <2>1
<1>2. IssuedOK'
  BY <1>a, <1>b DEF IssuedOK, FileOK, SnapshotOK
<1>3. SnapshotOK'
  BY <1>a, <1>b DEF SnapshotOK, FileOK, IssuedOK
<1>4. ASSUME NEW f \in Fields PROVE FieldOK(f)'
  <2>n. /\ queue[f] \in Nat /\ marks[f].order \in Nat /\ applied[f] \in Nat
        /\ journal[f] \in Nat /\ guarded[f] \in Nat /\ owed[f] \in Nat
        /\ marks[f].lane \in {"fast", "durable"}
    OBVIOUS
  <2>e. /\ queue[f] = 0 => applied'[f] = applied[f] /\ marks'[f] = marks[f]
        /\ queue[f] # 0 => /\ applied'[f] = queue[f]
                           /\ marks'[f].order = queue[f] /\ marks'[f].lane = "durable"
        /\ \/ journal'[f] = journal[f] /\ guarded'[f] = guarded[f]
           \/ /\ \/ queue[f] # 0 /\ journal'[f] = queue[f]
                 \/ queue[f] = 0 /\ journal'[f] = journal[f]
              /\ guarded'[f] = IF guarded[f] > journal'[f]
                                    THEN guarded[f] ELSE journal'[f]
           \/ /\ journal'[f] = IF marks'[f].lane = "durable" THEN marks'[f].order ELSE 0
              /\ guarded'[f] = IF marks'[f].lane = "fast" THEN 0
                               ELSE IF guarded[f] > marks'[f].order THEN guarded[f]
                               ELSE marks'[f].order
    <3>. HIDE DEF IInv, TypeOK
    <3>1. queue[f] # 0 => marks'[f] = [order |-> queue[f], lane |-> "durable"]
      BY <1>c
    <3>2. queue[f] # 0 => marks'[f].order = queue[f] /\ marks'[f].lane = "durable"
      BY <3>1
    <3>. QED
      BY <1>c, <3>2
  <2>q. queue'[f] = 0 /\ owed'[f] = IF owed[f] <= queue[f] THEN 0 ELSE owed[f]
    BY <1>b DEF Nothing, Settle
  <2>j. journal'[f] \in Nat /\ guarded'[f] \in Nat /\ applied'[f] \in Nat
        /\ marks'[f].order \in Nat /\ marks'[f].lane \in {"fast", "durable"}
    BY <1>a
  <2>0. FieldOK(f)
    OBVIOUS
  <2>1. MarkOK(f)'
    BY <1>b, <2>0, <2>n, <2>e, <2>q, <2>j DEF FieldOK, IssuedOK, MarkOK, Above, Reserved, Covered, Blocked, JournalOK
  <2>2. Reserved(f)'
    BY <1>b, <2>0, <2>n, <2>e, <2>q, <2>j DEF FieldOK, IssuedOK, Reserved, Above, MarkOK, Covered
  <2>3. Covered(f)'
    BY <1>b, <2>0, <2>n, <2>e, <2>q, <2>j DEF FieldOK, IssuedOK, Covered, Blocked, Above, MarkOK, Reserved, JournalOK, Restorable
  <2>4. JournalOK(f)'
    BY <1>b, <2>0, <2>n, <2>e, <2>q, <2>j DEF FieldOK, IssuedOK, JournalOK, Restorable, MarkOK, Above, Reserved, Covered, Blocked
  <2>5. OwedOK(f)'
    BY <1>b, <2>0, <2>n, <2>e, <2>q, <2>j DEF FieldOK, IssuedOK, OwedOK, MarkOK, Reserved, Above, Kept, Covered
  <2>6. Kept(f)'
    BY <1>b, <2>0, <2>n, <2>e, <2>q, <2>j DEF FieldOK, IssuedOK, Kept, Stored, OwedOK, Reserved, MarkOK
  <2>. QED
    BY <2>1, <2>2, <2>3, <2>4, <2>5, <2>6 DEF FieldOK
<1>. QED
  BY <1>1, <1>2, <1>3, <1>4

LEMMA DropExpiredPreserves ==
    ASSUME IInv, DropExpired
    PROVE  IInv'
<1>. USE LanesAssumption DEF IInv, TypeOK, Orders, Publication, File, Mark, NoMark, Snapshot, tick, history, DropExpired, RemovePending, Stop, Settle
<1>1. TypeOK'
  <2>1. ticking' \in BOOLEAN
    BY Zenon
  <2>2. /\ seen' \in File \cup {NoFile} /\ file' \in File \cup {NoFile}
        /\ queue' \in [Fields -> Orders] /\ marks' \in [Fields -> Mark]
        /\ owed' \in [Fields -> Orders] /\ applied' \in [Fields -> Orders]
    OBVIOUS
  <2>. QED
    BY <2>1, <2>2
<1>2. IssuedOK'
  BY  DEF IssuedOK, FileOK, SnapshotOK
<1>3. SnapshotOK'
  BY  DEF SnapshotOK, FileOK, IssuedOK
<1>4. ASSUME NEW f \in Fields PROVE FieldOK(f)'
  <2>0. FieldOK(f)
    OBVIOUS
  <2>1. MarkOK(f)'
    BY <2>0 DEF FieldOK, MarkOK, Above, Reserved, Covered, Blocked, JournalOK, IssuedOK, FileOK, SnapshotOK
  <2>2. Reserved(f)'
    BY <2>0 DEF FieldOK, Reserved, Above, MarkOK, Covered, IssuedOK, FileOK, SnapshotOK
  <2>3. Covered(f)'
    BY <2>0 DEF FieldOK, Covered, Blocked, Above, MarkOK, Reserved, JournalOK, Restorable, IssuedOK, FileOK, SnapshotOK
  <2>4. JournalOK(f)'
    BY <2>0 DEF FieldOK, JournalOK, Restorable, MarkOK, Above, Reserved, Covered, Blocked, IssuedOK, FileOK, SnapshotOK
  <2>5. OwedOK(f)'
    BY <2>0 DEF FieldOK, OwedOK, MarkOK, Reserved, Above, Kept, Covered, IssuedOK, FileOK, SnapshotOK
  <2>6. Kept(f)'
    BY <2>0 DEF FieldOK, Kept, Stored, OwedOK, Reserved, MarkOK, IssuedOK, FileOK, SnapshotOK
  <2>. QED
    BY <2>1, <2>2, <2>3, <2>4, <2>5, <2>6 DEF FieldOK
<1>. QED
  BY <1>1, <1>2, <1>3, <1>4

LEMMA DropSupersededPreserves ==
    ASSUME IInv, DropSuperseded
    PROVE  IInv'
<1>. USE LanesAssumption DEF IInv, TypeOK, Orders, Publication, File, Mark, NoMark, Snapshot, tick, history, DropSuperseded, RemovePending, Stop, WaitsForFast, DurableAccepted, Present
<1>1. TypeOK'
  OBVIOUS
<1>2. IssuedOK'
  BY  DEF IssuedOK, FileOK, SnapshotOK
<1>3. SnapshotOK'
  BY  DEF SnapshotOK, FileOK, IssuedOK
<1>4. ASSUME NEW f \in Fields PROVE FieldOK(f)'
  <2>n. /\ queue[f] \in Nat /\ marks[f].order \in Nat /\ applied[f] \in Nat
        /\ journal[f] \in Nat /\ guarded[f] \in Nat /\ owed[f] \in Nat
        /\ marks[f].lane \in {"fast", "durable"}
    OBVIOUS
  <2>e. /\ seen \in File /\ seen.orders[f] \in Nat
        /\ seen.orders[f] # 0 =>
              /\ queue[f] = 0 \/ ~(seen.orders[f] <= queue[f])
              /\ ~ \/ seen.orders[f] > marks[f].order
                   \/ seen.orders[f] = marks[f].order /\ marks[f].lane = "durable"
    <3>1. seen \in File /\ seen.orders[f] \in Nat
      OBVIOUS
    <3>2. seen.orders[f] # 0 => f \in Present(seen)
      OBVIOUS
    <3>3. f \notin DurableAccepted(seen) /\ ~WaitsForFast(seen)
      BY Zenon
    <3>4. seen.orders[f] # 0 => queue[f] = 0 \/ ~(seen.orders[f] <= queue[f])
      BY <3>2, <3>3
    <3>5. seen.orders[f] # 0 => ~ \/ seen.orders[f] > marks[f].order
                                  \/ seen.orders[f] = marks[f].order /\ marks[f].lane = "durable"
      BY <3>2, <3>3
    <3>. QED
      BY <3>1, <3>4, <3>5
  <2>0. FieldOK(f)
    OBVIOUS
  <2>1. MarkOK(f)'
    BY <2>0 DEF FieldOK, MarkOK, Above, Reserved, Covered, Blocked, JournalOK, IssuedOK, FileOK, SnapshotOK
  <2>2. Reserved(f)'
    BY <2>0 DEF FieldOK, Reserved, Above, MarkOK, Covered, IssuedOK, FileOK, SnapshotOK
  <2>3. Covered(f)'
    BY <2>0 DEF FieldOK, Covered, Blocked, Above, MarkOK, Reserved, JournalOK, Restorable, IssuedOK, FileOK, SnapshotOK
  <2>4. JournalOK(f)'
    BY <2>0 DEF FieldOK, JournalOK, Restorable, MarkOK, Above, Reserved, Covered, Blocked, IssuedOK, FileOK, SnapshotOK
  <2>5. OwedOK(f)'
    BY <2>0 DEF FieldOK, OwedOK, MarkOK, Reserved, Above, Kept, Covered, IssuedOK, FileOK, SnapshotOK
  <2>6. Kept(f)'
    <3>1. Stored(f) = 0 \/ Stored(f) = file.orders[f]
      BY DEF Stored
    <3>2. CASE file' = file
      BY <3>2, <2>0 DEF FieldOK, Kept, Stored
    <3>3. CASE file' = NoFile /\ file # NoFile /\ file.rev = seen.rev
      <4>1. file.orders[f] = seen.orders[f]
        BY <3>3 DEF SnapshotOK
      <4>2. owed[f] <= queue[f] \/ owed[f] = 0
        <5>1. OwedOK(f) /\ Reserved(f) /\ Kept(f) /\ Stored(f) = seen.orders[f]
          BY <4>1, <3>3, <2>0 DEF FieldOK, Stored
        <5>2. CASE marks[f].lane = "fast"
          BY <5>1, <5>2, <2>n, <2>e DEF Reserved, Kept
        <5>3. CASE marks[f].lane = "durable"
          <6>1. seen.orders[f] # 0 => seen.orders[f] < marks[f].order
            <7>. HIDE DEF DropSuperseded, IInv, TypeOK, RemovePending, DurableAccepted, WaitsForFast
            <7>. QED
              BY <5>3, <2>n, <2>e
          <6>2. owed[f] # 0 => owed[f] >= marks[f].order
            BY <5>1, <5>3 DEF OwedOK
          <6>3. owed[f] <= queue[f] \/ owed[f] <= seen.orders[f]
            BY <5>1 DEF Kept
          <6>. QED
            BY <6>1, <6>2, <6>3, <2>n, <2>e
        <5>. QED
          BY <5>2, <5>3, <2>n
      <4>. QED
        BY <4>2, <3>3, <2>n DEF Kept, Stored
    <3>. QED
      BY <3>2, <3>3
  <2>. QED
    BY <2>1, <2>2, <2>3, <2>4, <2>5, <2>6 DEF FieldOK
<1>. QED
  BY <1>1, <1>2, <1>3, <1>4

LEMMA ApplyDurablePreserves ==
    ASSUME IInv, ApplyDurable
    PROVE  IInv'
<1>. DEFINE F == DurableAccepted(seen)
<1>a. /\ F \in SUBSET Fields /\ seen \in File /\ ~seen.late
      /\ \A f \in Fields : seen.orders[f] # 0 => queue[f] = 0 \/ seen.orders[f] > queue[f]
      /\ \A f \in Fields : f \in F <=>
            /\ seen.orders[f] # 0
            /\ \/ seen.orders[f] > marks[f].order
               \/ seen.orders[f] = marks[f].order /\ marks[f].lane = "durable"
      /\ marks' \in [Fields -> Mark] /\ applied' \in [Fields -> Orders]
      /\ queue' \in [Fields -> Orders] /\ owed' \in [Fields -> Orders]
      /\ journal' \in [Fields -> Orders] /\ guarded' \in [Fields -> Orders]
      /\ \A f \in Fields :
           /\ f \notin F => /\ applied'[f] = applied[f] /\ marks'[f] = marks[f]
                            /\ queue'[f] = queue[f] /\ owed'[f] = owed[f]
           /\ f \in F => /\ applied'[f] = seen.orders[f] /\ queue'[f] = 0
                         /\ marks'[f] = [order |-> seen.orders[f], lane |-> "durable"]
                         /\ owed'[f] = IF owed[f] <= seen.orders[f] THEN 0 ELSE owed[f]
           /\ \/ journal'[f] = journal[f] /\ guarded'[f] = guarded[f]
              \/ /\ \/ f \in F /\ journal'[f] = seen.orders[f]
                    \/ f \notin F /\ journal'[f] = journal[f]
                 /\ guarded'[f] = IF guarded[f] > journal'[f]
                                       THEN guarded[f] ELSE journal'[f]
              \/ /\ journal'[f] = IF marks'[f].lane = "durable" THEN marks'[f].order ELSE 0
                 /\ guarded'[f] = IF marks'[f].lane = "fast" THEN 0
                                  ELSE IF guarded[f] > marks'[f].order THEN guarded[f]
                                  ELSE marks'[f].order
  BY DurableEffect DEF IInv
<1>b. /\ Snapshot /\ seen' = NoFile /\ ticking' = FALSE
      /\ file' = file \/ (file' = NoFile /\ file.rev = seen.rev)
      /\ UNCHANGED <<issued, client, socket, crashes>>
  BY DEF ApplyDurable, RemovePending, Stop
<1>c. /\ FileOK(seen) /\ file # NoFile /\ file \in File /\ file.late = seen.late
      /\ \A f \in Fields : seen.orders[f] <= file.orders[f]
      /\ file.rev = seen.rev => file.orders = seen.orders
  BY <1>b DEF IInv, SnapshotOK, TypeOK
<1>. HIDE DEF F
<1>. USE LanesAssumption DEF IInv, TypeOK, Orders, Publication, File, Mark, NoMark, Snapshot, tick, history
<1>1. TypeOK'
  <2>1. ticking' \in BOOLEAN
    BY <1>b, Zenon
  <2>. QED
    BY <1>a, <1>b, <2>1
<1>2. IssuedOK'
  BY <1>a, <1>b DEF IssuedOK, FileOK, SnapshotOK
<1>3. SnapshotOK'
  BY <1>a, <1>b DEF SnapshotOK, FileOK, IssuedOK
<1>4. ASSUME NEW f \in Fields PROVE FieldOK(f)'
  <2>n. /\ queue[f] \in Nat /\ marks[f].order \in Nat /\ applied[f] \in Nat
        /\ journal[f] \in Nat /\ guarded[f] \in Nat /\ owed[f] \in Nat
        /\ marks[f].lane \in {"fast", "durable"}
    OBVIOUS
  <2>e. /\ seen.orders[f] # 0 => queue[f] = 0 \/ seen.orders[f] > queue[f]
        /\ f \in F <=> /\ seen.orders[f] # 0
                       /\ \/ seen.orders[f] > marks[f].order
                          \/ seen.orders[f] = marks[f].order /\ marks[f].lane = "durable"
        /\ f \notin F => /\ applied'[f] = applied[f] /\ marks'[f] = marks[f]
                         /\ queue'[f] = queue[f] /\ owed'[f] = owed[f]
        /\ f \in F => /\ applied'[f] = seen.orders[f] /\ queue'[f] = 0
                      /\ marks'[f].order = seen.orders[f] /\ marks'[f].lane = "durable"
                      /\ owed'[f] = IF owed[f] <= seen.orders[f] THEN 0 ELSE owed[f]
        /\ \/ journal'[f] = journal[f] /\ guarded'[f] = guarded[f]
           \/ /\ \/ f \in F /\ journal'[f] = seen.orders[f]
                 \/ f \notin F /\ journal'[f] = journal[f]
              /\ guarded'[f] = IF guarded[f] > journal'[f]
                                    THEN guarded[f] ELSE journal'[f]
           \/ /\ journal'[f] = IF marks'[f].lane = "durable" THEN marks'[f].order ELSE 0
              /\ guarded'[f] = IF marks'[f].lane = "fast" THEN 0
                               ELSE IF guarded[f] > marks'[f].order THEN guarded[f]
                               ELSE marks'[f].order
    BY <1>a
  <2>j. /\ journal'[f] \in Nat /\ guarded'[f] \in Nat /\ applied'[f] \in Nat
        /\ marks'[f].order \in Nat /\ marks'[f].lane \in {"fast", "durable"}
        /\ seen.orders[f] \in Nat /\ file.orders[f] \in Nat /\ ~seen.late
        /\ seen.orders[f] <= file.orders[f] /\ seen.orders[f] <= issued
    <3>1. /\ marks'[f] \in Mark /\ applied'[f] \in Orders
          /\ journal'[f] \in Orders /\ guarded'[f] \in Orders
      BY <1>a
    <3>2. /\ seen \in File /\ file \in File /\ ~seen.late /\ issued \in Nat
          /\ seen.orders[f] <= file.orders[f] /\ FileOK(seen)
      BY <1>a, <1>c
    <3>3. seen.orders[f] \in Nat /\ file.orders[f] \in Nat /\ seen.rev \in Nat
      BY <3>2
    <3>. HIDE DEF IInv, TypeOK
    <3>4. seen.orders[f] <= issued
      BY <3>2, <3>3 DEF FileOK
    <3>. QED
      BY <3>1, <3>2, <3>3, <3>4
  <2>0. FieldOK(f)
    OBVIOUS
  <2>g. f \in F => Above(f, seen.orders[f])
    BY <1>b, <2>0, <2>n, <2>e, <2>j DEF FieldOK, MarkOK, Covered, Blocked, Above
  <2>1. MarkOK(f)'
    BY <1>b, <1>c, <2>0, <2>n, <2>e, <2>j, <2>g DEF FieldOK, IssuedOK, MarkOK, Above, Reserved, Covered, Blocked, JournalOK
  <2>2. Reserved(f)'
    BY <1>b, <1>c, <2>0, <2>n, <2>e, <2>j, <2>g DEF FieldOK, IssuedOK, Reserved, Above, MarkOK, Covered
  <2>3. Covered(f)'
    BY <1>b, <1>c, <2>0, <2>n, <2>e, <2>j, <2>g DEF FieldOK, IssuedOK, Covered, Blocked, Above, MarkOK, Reserved, JournalOK, Restorable
  <2>4. JournalOK(f)'
    BY <1>b, <1>c, <2>0, <2>n, <2>e, <2>j, <2>g DEF FieldOK, IssuedOK, JournalOK, Restorable, MarkOK, Above, Reserved, Covered, Blocked
  <2>5. OwedOK(f)'
    BY <1>b, <1>c, <2>0, <2>n, <2>e, <2>j, <2>g DEF FieldOK, IssuedOK, OwedOK, MarkOK, Reserved, Above, Kept, Covered
  <2>6. Kept(f)'
    <3>. HIDE DEF IInv, TypeOK
    <3>k. Kept(f) /\ Reserved(f) /\ OwedOK(f)
      BY <2>0 DEF FieldOK
    <3>s. /\ Stored(f) = file.orders[f]
          /\ Stored(f)' = file.orders[f] \/ (Stored(f)' = 0 /\ file.orders[f] = seen.orders[f])
      BY <1>b, <1>c DEF Stored
    <3>1. CASE f \in F
      BY <3>1, <3>k, <3>s, <2>n, <2>e, <2>j DEF Kept
    <3>2. CASE f \notin F
      BY <3>2, <3>k, <3>s, <2>n, <2>e, <2>j DEF Kept, Reserved, OwedOK
    <3>. QED
      BY <3>1, <3>2
  <2>. QED
    BY <2>1, <2>2, <2>3, <2>4, <2>5, <2>6 DEF FieldOK
<1>. QED
  BY <1>1, <1>2, <1>3, <1>4

(* Time and crashes. *)
LEMMA FileExpiresPreserves ==
    ASSUME IInv, FileExpires
    PROVE  IInv'
<1>. USE LanesAssumption DEF IInv, TypeOK, Orders, Publication, File, Mark, NoMark, Snapshot, tick, history, FileExpires
<1>1. TypeOK'
  OBVIOUS
<1>2. IssuedOK'
  BY  DEF IssuedOK, FileOK, SnapshotOK
<1>3. SnapshotOK'
  BY  DEF SnapshotOK, FileOK, IssuedOK
<1>4. ASSUME NEW f \in Fields PROVE FieldOK(f)'
  <2>0. FieldOK(f)
    OBVIOUS
  <2>1. MarkOK(f)'
    BY <2>0 DEF FieldOK, MarkOK, Above, Reserved, Covered, Blocked, JournalOK, IssuedOK, FileOK, SnapshotOK
  <2>2. Reserved(f)'
    BY <2>0 DEF FieldOK, Reserved, Above, MarkOK, Covered, IssuedOK, FileOK, SnapshotOK
  <2>3. Covered(f)'
    BY <2>0, SMTT(30) DEF FieldOK, Covered, Blocked, Above, MarkOK, Reserved, JournalOK, Restorable, IssuedOK, FileOK, SnapshotOK
  <2>4. JournalOK(f)'
    BY <2>0 DEF FieldOK, JournalOK, Restorable, MarkOK, Above, Reserved, Covered, Blocked, IssuedOK, FileOK, SnapshotOK
  <2>5. OwedOK(f)'
    BY <2>0 DEF FieldOK, OwedOK, MarkOK, Reserved, Above, Kept, Covered, IssuedOK, FileOK, SnapshotOK
  <2>6. Kept(f)'
    BY <2>0 DEF FieldOK, Kept, Stored, OwedOK, Reserved, MarkOK, IssuedOK, FileOK, SnapshotOK
  <2>. QED
    BY <2>1, <2>2, <2>3, <2>4, <2>5, <2>6 DEF FieldOK
<1>. QED
  BY <1>1, <1>2, <1>3, <1>4

LEMMA ForgetMarkPreserves ==
    ASSUME IInv, NEW g \in Fields, ForgetMark(g)
    PROVE  IInv'
<1>. USE LanesAssumption DEF IInv, TypeOK, Orders, Publication, File, Mark, NoMark, Snapshot, tick, history, ForgetMark, Outlived, PastRetry
<1>1. TypeOK'
  OBVIOUS
<1>2. IssuedOK'
  BY  DEF IssuedOK, FileOK, SnapshotOK
<1>3. SnapshotOK'
  BY  DEF SnapshotOK, FileOK, IssuedOK
<1>4. ASSUME NEW f \in Fields PROVE FieldOK(f)'
  <2>0. FieldOK(f)
    OBVIOUS
  <2>1. MarkOK(f)'
    BY <2>0 DEF FieldOK, MarkOK, Above, Reserved, Covered, Blocked, JournalOK, IssuedOK, FileOK, SnapshotOK
  <2>2. Reserved(f)'
    BY <2>0 DEF FieldOK, Reserved, Above, MarkOK, Covered, IssuedOK, FileOK, SnapshotOK
  <2>3. Covered(f)'
    BY <2>0 DEF FieldOK, Covered, Blocked, Above, MarkOK, Reserved, JournalOK, Restorable, IssuedOK, FileOK, SnapshotOK
  <2>4. JournalOK(f)'
    BY <2>0 DEF FieldOK, JournalOK, Restorable, MarkOK, Above, Reserved, Covered, Blocked, IssuedOK, FileOK, SnapshotOK
  <2>5. OwedOK(f)'
    BY <2>0 DEF FieldOK, OwedOK, MarkOK, Reserved, Above, Kept, Covered, IssuedOK, FileOK, SnapshotOK
  <2>6. Kept(f)'
    BY <2>0 DEF FieldOK, Kept, Stored, OwedOK, Reserved, MarkOK, IssuedOK, FileOK, SnapshotOK
  <2>. QED
    BY <2>1, <2>2, <2>3, <2>4, <2>5, <2>6 DEF FieldOK
<1>. QED
  BY <1>1, <1>2, <1>3, <1>4

LEMMA ForgetJournalPreserves ==
    ASSUME IInv, NEW g \in Fields, ForgetJournal(g)
    PROVE  IInv'
<1>. USE LanesAssumption DEF IInv, TypeOK, Orders, Publication, File, Mark, NoMark, Snapshot, tick, history, ForgetJournal, Outlived, PastRetry
<1>1. TypeOK'
  OBVIOUS
<1>2. IssuedOK'
  BY  DEF IssuedOK, FileOK, SnapshotOK
<1>3. SnapshotOK'
  BY  DEF SnapshotOK, FileOK, IssuedOK
<1>4. ASSUME NEW f \in Fields PROVE FieldOK(f)'
  <2>0. FieldOK(f)
    OBVIOUS
  <2>1. MarkOK(f)'
    BY <2>0 DEF FieldOK, MarkOK, Above, Reserved, Covered, Blocked, JournalOK, IssuedOK, FileOK, SnapshotOK
  <2>2. Reserved(f)'
    BY <2>0 DEF FieldOK, Reserved, Above, MarkOK, Covered, IssuedOK, FileOK, SnapshotOK
  <2>3. Covered(f)'
    BY <2>0 DEF FieldOK, Covered, Blocked, Above, MarkOK, Reserved, JournalOK, Restorable, IssuedOK, FileOK, SnapshotOK
  <2>4. JournalOK(f)'
    BY <2>0 DEF FieldOK, JournalOK, Restorable, MarkOK, Above, Reserved, Covered, Blocked, IssuedOK, FileOK, SnapshotOK
  <2>5. OwedOK(f)'
    BY <2>0 DEF FieldOK, OwedOK, MarkOK, Reserved, Above, Kept, Covered, IssuedOK, FileOK, SnapshotOK
  <2>6. Kept(f)'
    BY <2>0 DEF FieldOK, Kept, Stored, OwedOK, Reserved, MarkOK, IssuedOK, FileOK, SnapshotOK
  <2>. QED
    BY <2>1, <2>2, <2>3, <2>4, <2>5, <2>6 DEF FieldOK
<1>. QED
  BY <1>1, <1>2, <1>3, <1>4

LEMMA CrashPreserves ==
    ASSUME IInv, Crash
    PROVE  IInv'
<1>. USE LanesAssumption DEF IInv, TypeOK, Orders, Publication, File, Mark, NoMark, Snapshot, tick, history, Crash, Stop, Settle, Stored, Nothing
<1>1. TypeOK'
  <2>1. ticking' \in BOOLEAN
    BY Zenon
  <2>2. /\ seen' \in File \cup {NoFile} /\ file' \in File \cup {NoFile}
        /\ queue' \in [Fields -> Orders] /\ marks' \in [Fields -> Mark]
        /\ owed' \in [Fields -> Orders] /\ applied' \in [Fields -> Orders]
    OBVIOUS
  <2>. QED
    BY <2>1, <2>2
<1>2. IssuedOK'
  BY  DEF IssuedOK, FileOK, SnapshotOK
<1>3. SnapshotOK'
  BY  DEF SnapshotOK, FileOK, IssuedOK
<1>4. ASSUME NEW f \in Fields PROVE FieldOK(f)'
  <2>0. FieldOK(f)
    OBVIOUS
  <2>1. MarkOK(f)'
    BY <2>0 DEF FieldOK, MarkOK, Above, Reserved, Covered, Blocked, JournalOK, IssuedOK, FileOK, SnapshotOK
  <2>2. Reserved(f)'
    BY <2>0 DEF FieldOK, Reserved, Above, MarkOK, Covered, IssuedOK, FileOK, SnapshotOK
  <2>3. Covered(f)'
    BY <2>0 DEF FieldOK, Covered, Blocked, Above, MarkOK, Reserved, JournalOK, Restorable, IssuedOK, FileOK, SnapshotOK
  <2>4. JournalOK(f)'
    BY <2>0 DEF FieldOK, JournalOK, Restorable, MarkOK, Above, Reserved, Covered, Blocked, IssuedOK, FileOK, SnapshotOK
  <2>5. OwedOK(f)'
    BY <2>0 DEF FieldOK, OwedOK, MarkOK, Reserved, Above, Kept, Covered, IssuedOK, FileOK, SnapshotOK
  <2>6. Kept(f)'
    BY <2>0 DEF FieldOK, Kept, OwedOK, Reserved, MarkOK, IssuedOK, FileOK, SnapshotOK
  <2>. QED
    BY <2>1, <2>2, <2>3, <2>4, <2>5, <2>6 DEF FieldOK
<1>. QED
  BY <1>1, <1>2, <1>3, <1>4

LEMMA InitInv == Init => IInv
<1>. SUFFICES ASSUME Init PROVE IInv
  OBVIOUS
<1>. USE LanesAssumption DEF Init, Nothing, NoMark, Orders, Mark, Snapshot
<1>1. TypeOK
  <2>1. ticking \in BOOLEAN
    BY Zenon
  <2>2. queue \in [Fields -> Orders] /\ marks \in [Fields -> Mark]
    OBVIOUS
  <2>. QED
    BY <2>1, <2>2 DEF TypeOK
<1>2. IssuedOK /\ SnapshotOK
  BY DEF IssuedOK, SnapshotOK
<1>3. ASSUME NEW f \in Fields PROVE FieldOK(f)
  BY DEF FieldOK, MarkOK, Above, Reserved, Covered, JournalOK, OwedOK, Kept
<1>. QED
  BY <1>1, <1>2, <1>3 DEF IInv

LEMMA StutterPreserves ==
    ASSUME IInv, UNCHANGED vars
    PROVE  IInv'
<1>. USE DEF vars
<1>1. TypeOK' /\ IssuedOK' /\ SnapshotOK'
  BY DEF IInv, TypeOK, IssuedOK, SnapshotOK, Snapshot, FileOK
<1>2. ASSUME NEW f \in Fields PROVE FieldOK(f)'
  BY DEF IInv, FieldOK, MarkOK, Above, Reserved, Covered, Blocked, JournalOK,
         Restorable, OwedOK, Kept, Stored, Snapshot
<1>. QED
  BY <1>1, <1>2 DEF IInv

LEMMA NextInv ==
    ASSUME IInv, [Next]_vars
    PROVE  IInv'
<1>1. ASSUME NEW F \in SUBSET Fields, Publish(F) PROVE IInv'
  BY <1>1, PublishPreserves
<1>2. CASE Fallback
  BY <1>2, FallbackPreserves
<1>3. CASE Resend \/ GiveUp
  BY <1>3, ResendPreserves, GiveUpPreserves
<1>4. ASSUME NEW p \in socket, Accept(p) \/ Reject(p) PROVE IInv'
  BY <1>4, AcceptPreserves, RejectPreserves
<1>5. CASE BeginTick \/ EndTick \/ CheckpointElsewhere
  BY <1>5, BeginTickPreserves, EndTickPreserves, CheckpointElsewherePreserves
<1>6. CASE Tick
  BY <1>6, ApplyFastPreserves, DropExpiredPreserves, DropSupersededPreserves,
     ApplyDurablePreserves DEF Tick
<1>7. CASE FileExpires
  BY <1>7, FileExpiresPreserves
<1>8. ASSUME NEW f \in Fields, ExpireFast(f) \/ ForgetMark(f) \/ ForgetJournal(f)
      PROVE  IInv'
  BY <1>8, ExpireFastPreserves, ForgetMarkPreserves, ForgetJournalPreserves
<1>9. CASE Crash
  BY <1>9, CrashPreserves
<1>10. CASE UNCHANGED vars
  BY <1>10, StutterPreserves
<1>. QED
  BY <1>1, <1>2, <1>3, <1>4, <1>5, <1>6, <1>7, <1>8, <1>9, <1>10 DEF Next

(* What a field shows changes only when a publication is applied, and then *)
(* to something not below its floor, or when the gateway dies.             *)
LEMMA ShownMovesUp ==
    ASSUME IInv, [Next]_vars, NEW f \in Fields, applied'[f] # applied[f]
    PROVE  applied'[f] = 0 \/ (applied'[f] > applied[f] /\ applied'[f] >= guarded[f])
<1>. USE LanesAssumption
<1>1. applied[f] \in Nat /\ FieldOK(f)
  BY DEF IInv, TypeOK, Orders
<1>2. CASE ApplyFast
  <2>1. applied'[f] = queue[f] /\ queue[f] # 0 /\ queue[f] \in Nat
    BY <1>2 DEF ApplyFast, IInv, TypeOK, Orders
  <2>2. applied[f] < queue[f] /\ guarded[f] < queue[f]
    BY <1>1, <2>1 DEF FieldOK, Reserved
  <2>3. guarded[f] \in Nat
    BY DEF IInv, TypeOK, Orders
  <2>. QED
    BY <1>1, <2>1, <2>2, <2>3
<1>3. CASE ApplyDurable
  <2>1. /\ Snapshot /\ seen \in File /\ ~seen.late
        /\ applied' = [g \in Fields |-> IF g \in DurableAccepted(seen) THEN seen.orders[g]
                                       ELSE applied[g]]
    BY <1>3 DEF ApplyDurable, IInv, TypeOK, Snapshot
  <2>2. f \in DurableAccepted(seen) /\ applied'[f] = seen.orders[f]
    BY <2>1
  <2>3. /\ seen.orders[f] # 0
        /\ seen.orders[f] > marks[f].order \/ seen.orders[f] = marks[f].order
    BY <2>2 DEF DurableAccepted, Present
  <2>4. seen.orders[f] \in Nat /\ guarded[f] \in Nat /\ marks[f].order \in Nat
    <3>1. seen.orders[f] \in Orders
      BY <2>1 DEF File
    <3>2. guarded[f] \in Orders /\ marks[f].order \in Orders
      BY DEF IInv, TypeOK, Mark
    <3>. QED
      BY <3>1, <3>2 DEF Orders
  <2>5. Above(f, seen.orders[f])
    BY <1>1, <2>1, <2>3, <2>4 DEF FieldOK, MarkOK, Covered, Blocked, Above
  <2>. QED
    BY <1>1, <2>2, <2>3, <2>4, <2>5 DEF Above
<1>4. CASE Crash
  BY <1>4 DEF Crash, Nothing
<1>5. ASSUME ~ApplyFast, ~ApplyDurable, ~Crash PROVE UNCHANGED applied
  BY <1>5 DEF Next, vars, Tick, Publish, Resend, Fallback, GiveUp, Accept, Reject, BeginTick, EndTick,
     CheckpointElsewhere, DropExpired, DropSuperseded, FileExpires, ExpireFast,
     ForgetMark, ForgetJournal
<1>. QED
  BY <1>2, <1>3, <1>4, <1>5
-----------------------------------------------------------------------------
(* The inductive invariant of the two lanes holds for any set of fields    *)
(* and any number of publications and crashes.                             *)
THEOREM LanesInvariance == Spec => []IInv
<1>1. IInv /\ [Next]_vars => IInv'
  BY NextInv
<1>. QED
  BY <1>1, InitInv, PTL DEF Spec

(* The arbitration of the lanes loses no accepted value. *)
THEOREM NewestKeptTheorem == Spec => []NewestKept
<1>1. IInv => NewestKept
  BY DEF IInv, FieldOK, NewestKept
<1>. QED
  BY <1>1, LanesInvariance, PTL

(* No late frame or stored fallback replaces what is shown by an older value. *)
THEOREM NeverRevivedTheorem == Spec => NeverRevived
<1>1. IInv /\ [Next]_vars =>
          [\A f \in Fields :
              applied'[f] \notin {0, applied[f]} => applied'[f] > applied[f]]_vars
  BY ShownMovesUp
<1>. QED
  BY <1>1, LanesInvariance, PTL DEF Spec, NeverRevived

(* Nor does a restart of the gateway, by one older than the last value     *)
(* that was checkpointed for the field and not dropped by a compaction     *)
(* while a newer one was queued (publication_order_state.py).              *)
THEOREM RestartTheorem == Spec => RestartNeverRevives
<1>1. IInv /\ [Next]_vars =>
          [\A f \in Fields : applied'[f] # applied[f] =>
              applied'[f] = 0 \/ applied'[f] >= guarded[f]]_vars
  BY ShownMovesUp
<1>. QED
  BY <1>1, LanesInvariance, PTL DEF Spec, RestartNeverRevives

(***************************************************************************)
(* The tick: no read key is ever forgotten.                                *)
(***************************************************************************)
\* A set of numbers that is not empty has a least one.
LEMMA SmallestIsThere ==
    ASSUME NEW S \in SUBSET Nat, S # {}
    PROVE  \E x \in S : \A y \in S : x <= y
<1>1. PICK x \in S : \A y \in S : ~(<<y, x>> \in OpToRel(<, Nat))
  BY NatLessThanWellFounded, WFMin
<1>2. \A y \in S : ~(y < x)
  BY <1>1 DEF OpToRel
<1> QED BY <1>2

\* A finite set of numbers can be put in order.
LEMMA OrderExists ==
    ASSUME NEW S \in SUBSET Nat, IsFiniteSet(S)
    PROVE  \E s \in [1 .. Cardinality(S) -> S] : \A i, j \in DOMAIN s : i < j => s[i] < s[j]
<1> DEFINE n == Cardinality(S)
           Below(k) == {j \in S : j <= k}
           rank == [k \in S |-> Cardinality(Below(k))]
<1>1. IsFiniteSet(S) /\ n \in Nat /\ \A k \in S : k \in Nat
  BY FS_CardinalityType
<1>2. \A k \in S : rank[k] \in 1 .. n
  <2> SUFFICES ASSUME NEW k \in S PROVE rank[k] \in 1 .. n
    OBVIOUS
  <2>1. Below(k) \in SUBSET S /\ Below(k) # {}
    BY <1>1
  <2> HIDE DEF Below
  <2>2. /\ IsFiniteSet(Below(k)) /\ Cardinality(Below(k)) <= n /\ Cardinality(Below(k)) \in Nat
        /\ Cardinality(Below(k)) # 0
    BY <1>1, <2>1, FS_Subset, FS_CardinalityType, FS_EmptySet
  <2> QED BY <1>1, <2>2
<1>3. \A i, k \in S : i < k => rank[i] < rank[k]
  <2> SUFFICES ASSUME NEW i \in S, NEW k \in S, i < k PROVE rank[i] < rank[k]
    OBVIOUS
  <2>1. Below(k) \in SUBSET S /\ Below(i) \in SUBSET Below(k) /\ Below(i) # Below(k)
    <3>1. k \in Below(k) /\ k \notin Below(i)
      BY <1>1
    <3>2. \A j \in S : j <= i => j <= k
      BY <1>1
    <3> QED BY <3>1, <3>2
  <2> HIDE DEF Below
  <2>2. IsFiniteSet(Below(k))
    BY <1>1, <2>1, FS_Subset
  <2>3. Cardinality(Below(i)) <= Cardinality(Below(k)) /\ Cardinality(Below(i)) # Cardinality(Below(k))
    BY <2>1, <2>2, FS_Subset
  <2>4. Cardinality(Below(i)) \in Nat /\ Cardinality(Below(k)) \in Nat
    BY <2>1, <2>2, FS_Subset, FS_CardinalityType
  <2> QED BY <2>3, <2>4
<1> HIDE DEF rank, Below
<1>4. rank \in Injection(S, 1 .. n)
  <2>1. rank \in [S -> 1 .. n]
    BY <1>2 DEF rank
  <2>2. \A a, b \in S : rank[a] = rank[b] => a = b
    BY <1>1, <1>2, <1>3
  <2> QED BY <2>1, <2>2 DEF Injection, IsInjective
<1>5. IsFiniteSet(1 .. n) /\ Cardinality(1 .. n) = n
  <2>1. 1 \in Int /\ n \in Int
    BY <1>1
  <2>2. Cardinality(1 .. n) = IF 1 > n THEN 0 ELSE n - 1 + 1
    BY <2>1, FS_Interval
  <2>3. IsFiniteSet(1 .. n)
    BY <2>1, FS_Interval
  <2> HIDE DEF n
  <2>4. Cardinality(1 .. n) = n
    BY <1>1, <2>2
  <2> QED BY <2>3, <2>4
<1>6. rank \in Surjection(S, 1 .. n)
  BY <1>1, <1>4, <1>5, FS_Injection
<1>7. \A i \in 1 .. n : \E k \in S : rank[k] = i
  BY <1>6 DEF Surjection
<1> DEFINE s == [i \in 1 .. n |-> CHOOSE k \in S : rank[k] = i]
<1>8. \A i \in 1 .. n : s[i] \in S /\ rank[s[i]] = i
  BY <1>7
<1>9. s \in [1 .. n -> S] /\ DOMAIN s = 1 .. n
  BY <1>8
<1> HIDE DEF s
<1>10. \A i, j \in 1 .. n : i < j => s[i] < s[j]
  <2> SUFFICES ASSUME NEW i \in 1 .. n, NEW j \in 1 .. n, i < j PROVE s[i] < s[j]
    OBVIOUS
  <2>1. s[i] \in S /\ s[j] \in S /\ rank[s[i]] = i /\ rank[s[j]] = j
    BY <1>8
  <2>2. s[i] \in Nat /\ s[j] \in Nat
    BY <1>1, <2>1
  <2>3. i \in Int /\ j \in Int
    OBVIOUS
  <2>4. s[j] < s[i] => j < i
    BY <1>3, <2>1
  <2>5. ~(s[j] < s[i]) /\ s[i] # s[j]
    BY <2>1, <2>3, <2>4
  <2> QED BY <2>2, <2>5
<1> QED BY <1>9, <1>10

LEMMA ListIsSeq ==
    ASSUME NEW S, NEW n \in Nat, NEW s \in [1 .. n -> S]
    PROVE  s \in Seq(S) /\ Len(s) = n /\ DOMAIN s = 1 .. n
OBVIOUS

LEMMA AscendingFacts ==
    ASSUME NEW S \in SUBSET Nat, IsFiniteSet(S)
    PROVE  /\ Ascending(S) \in Seq(S) /\ IsInjective(Ascending(S))
           /\ \A k \in S : \E i \in DOMAIN Ascending(S) : Ascending(S)[i] = k
<1> DEFINE n == Cardinality(S)
<1>1. IsFiniteSet(S) /\ n \in Nat
  BY FS_CardinalityType
<1>2. PICK s : /\ s = Ascending(S) /\ s \in [1 .. n -> S]
               /\ \A i, j \in DOMAIN s : i < j => s[i] < s[j]
  BY <1>1, OrderExists DEF Ascending
<1> HIDE DEF n
<1>3. s \in Seq(S) /\ DOMAIN s = 1 .. n
  BY <1>1, <1>2, ListIsSeq
<1>4. ASSUME NEW a \in 1 .. n, NEW b \in 1 .. n, s[a] = s[b]
      PROVE  a = b
  <2>1. a \in Nat /\ b \in Nat /\ s[a] \in S /\ s[b] \in S
    BY <1>1, <1>2
  <2>2. s[a] \in Nat
    BY <1>1, <2>1
  <2>3. ~(a < b) /\ ~(b < a)
    <3>1. a < b => s[a] < s[b]
      BY <1>2, <1>3
    <3>2. b < a => s[b] < s[a]
      BY <1>2, <1>3
    <3> QED BY <1>4, <2>2, <3>1, <3>2
  <2> QED BY <2>1, <2>3
<1>5. s \in Injection(1 .. n, S)
  BY <1>2, <1>4 DEF Injection, IsInjective
<1>6. IsFiniteSet(1 .. n) /\ Cardinality(1 .. n) = n
  <2>1. 1 \in Int /\ n \in Int
    BY <1>1
  <2>2. Cardinality(1 .. n) = IF 1 > n THEN 0 ELSE n - 1 + 1
    BY <2>1, FS_Interval
  <2>3. IsFiniteSet(1 .. n)
    BY <2>1, FS_Interval
  <2>4. Cardinality(1 .. n) = n
    BY <1>1, <2>2
  <2> QED BY <2>3, <2>4
<1>7. s \in Surjection(1 .. n, S)
  BY <1>1, <1>5, <1>6, FS_Injection DEF n
<1>8. \A k \in S : \E i \in 1 .. n : s[i] = k
  BY <1>7 DEF Surjection
<1>9. IsInjective(s)
  BY <1>3, <1>4 DEF IsInjective
<1> QED BY <1>2, <1>3, <1>8, <1>9

LEMMA OrderFacts ==
    ASSUME NEW S \in SUBSET Reads
    PROVE  /\ Ascending(S) \in Seq(S) /\ IsInjective(Ascending(S))
           /\ \A k \in S : \E i \in DOMAIN Ascending(S) : Ascending(S)[i] = k
<1>1. IsFiniteSet(S) /\ S \in SUBSET Nat
  BY TickAssumption, FS_Subset DEF TickAssumption
<1> QED BY <1>1, AscendingFacts

InQueue(k, q) == \E i \in DOMAIN q : q[i] = k

\* Keys taken out of the queue: the others stay in it, each once.
LEMMA RemovedFacts ==
    ASSUME NEW q \in Seq(Reads), IsInjective(q), NEW ks
    PROVE  /\ Removed(q, ks) \in Seq(Reads) /\ IsInjective(Removed(q, ks))
           /\ \A k \in Reads : InQueue(k, Removed(q, ks)) <=> InQueue(k, q) /\ k \notin ks
<1> DEFINE at == {i \in DOMAIN q : q[i] \notin ks}
           kept == Ascending(at)
           r == [n \in DOMAIN kept |-> q[kept[n]]]
<1>1. Len(q) \in Nat /\ DOMAIN q = 1 .. Len(q) /\ \A i \in DOMAIN q : q[i] \in Reads
  OBVIOUS
<1>2. IsFiniteSet(1 .. Len(q))
  <2>1. 1 \in Int /\ Len(q) \in Int
    BY <1>1
  <2> QED BY <2>1, FS_Interval
<1>3. at \in SUBSET DOMAIN q /\ \A i \in DOMAIN q : i \in at <=> q[i] \notin ks
  OBVIOUS
<1>4. r = Removed(q, ks)
  BY DEF Removed
<1> HIDE DEF at
<1>5. at \in SUBSET Nat /\ IsFiniteSet(at)
  <2>1. at \in SUBSET (1 .. Len(q))
    BY <1>1, <1>3
  <2>2. IsFiniteSet(at)
    BY <1>2, <2>1, FS_Subset
  <2>3. at \in SUBSET Nat
    BY <1>1, <2>1
  <2> QED BY <2>2, <2>3
<1>6. kept \in Seq(at) /\ IsInjective(kept) /\ \A i \in at : \E n \in DOMAIN kept : kept[n] = i
  BY <1>5, AscendingFacts
<1> HIDE DEF kept
<1>7. Len(kept) \in Nat /\ DOMAIN kept = 1 .. Len(kept) /\ \A n \in DOMAIN kept : kept[n] \in at
  BY <1>6
<1>8. r \in [1 .. Len(kept) -> Reads] /\ DOMAIN r = DOMAIN kept /\ \A n \in DOMAIN kept : r[n] = q[kept[n]]
  <2>1. \A n \in DOMAIN kept : q[kept[n]] \in Reads
    BY <1>1, <1>3, <1>7
  <2> QED BY <1>7, <2>1
<1> HIDE DEF r
<1>9. r \in Seq(Reads)
  BY <1>7, <1>8, ListIsSeq
<1>10. IsInjective(r)
  <2>1. ASSUME NEW a \in DOMAIN kept, NEW b \in DOMAIN kept, r[a] = r[b]
        PROVE  a = b
    <3>1. kept[a] \in DOMAIN q /\ kept[b] \in DOMAIN q /\ q[kept[a]] = q[kept[b]]
      BY <1>3, <1>7, <1>8, <2>1
    <3>2. kept[a] = kept[b]
      BY <3>1 DEF IsInjective
    <3> QED BY <1>6, <3>2 DEF IsInjective
  <2> QED BY <1>8, <2>1 DEF IsInjective
<1>11. ASSUME NEW k \in Reads
       PROVE  InQueue(k, r) <=> InQueue(k, q) /\ k \notin ks
  <2>1. ASSUME NEW n \in DOMAIN r, r[n] = k PROVE InQueue(k, q) /\ k \notin ks
    <3>1. kept[n] \in at /\ q[kept[n]] = k
      BY <1>7, <1>8, <2>1
    <3> QED BY <1>3, <3>1 DEF InQueue
  <2>2. ASSUME NEW i \in DOMAIN q, q[i] = k, k \notin ks PROVE InQueue(k, r)
    <3>1. i \in at
      BY <1>3, <2>2
    <3>2. PICK n \in DOMAIN kept : kept[n] = i
      BY <1>6, <3>1
    <3> QED BY <1>8, <2>2, <3>2 DEF InQueue
  <2> QED BY <2>1, <2>2 DEF InQueue
<1> QED BY <1>4, <1>9, <1>10, <1>11

LEMMA JoinedOnce ==
    ASSUME NEW S, NEW s \in Seq(S), NEW t \in Seq(S), IsInjective(s), IsInjective(t),
           \A i \in DOMAIN s, j \in DOMAIN t : s[i] # t[j]
    PROVE  IsInjective(s \o t)
<1> DEFINE u == s \o t
<1>1. /\ Len(s) \in Nat /\ Len(t) \in Nat /\ DOMAIN s = 1 .. Len(s) /\ DOMAIN t = 1 .. Len(t)
      /\ DOMAIN u = 1 .. Len(s) + Len(t)
      /\ \A i \in 1 .. Len(s) + Len(t) : u[i] = IF i <= Len(s) THEN s[i] ELSE t[i - Len(s)]
  OBVIOUS
<1> HIDE DEF u
<1>2. ASSUME NEW a \in DOMAIN u, NEW b \in DOMAIN u, u[a] = u[b]
      PROVE  a = b
  <2>1. CASE a <= Len(s) /\ b <= Len(s)
    <3>1. a \in DOMAIN s /\ b \in DOMAIN s /\ s[a] = s[b]
      BY <1>1, <1>2, <2>1
    <3> QED BY <3>1 DEF IsInjective
  <2>2. CASE a > Len(s) /\ b > Len(s)
    <3>1. /\ a - Len(s) \in DOMAIN t /\ b - Len(s) \in DOMAIN t /\ t[a - Len(s)] = t[b - Len(s)]
          /\ a \in Int /\ b \in Int
      BY <1>1, <1>2, <2>2
    <3>2. a - Len(s) = b - Len(s)
      BY <3>1 DEF IsInjective
    <3> QED BY <1>1, <3>1, <3>2
  <2>3. CASE a <= Len(s) /\ b > Len(s)
    <3>1. a \in DOMAIN s /\ b - Len(s) \in DOMAIN t /\ s[a] = t[b - Len(s)]
      BY <1>1, <1>2, <2>3
    <3> QED BY <3>1
  <2>4. CASE a > Len(s) /\ b <= Len(s)
    <3>1. b \in DOMAIN s /\ a - Len(s) \in DOMAIN t /\ s[b] = t[a - Len(s)]
      BY <1>1, <1>2, <2>4
    <3> QED BY <3>1
  <2>5. a \in Int /\ b \in Int
    BY <1>1
  <2> QED BY <1>1, <2>1, <2>2, <2>3, <2>4, <2>5
<1> QED BY <1>2 DEF IsInjective, u

Classes == {QueueClass[c] : c \in Commands} \cup {"none"}

\* A key waits, or is due in one of the two ways, once.
DueOk(w, q, fr) ==
    /\ w \in [Reads -> 0 .. ReadTicks + RetryTicks]
    /\ q \in Seq(Reads) /\ IsInjective(q) /\ fr \subseteq Reads
    /\ \A k \in Reads : w[k] = 0 <=> InQueue(k, q) \/ k \in fr
    /\ \A k \in fr : ~InQueue(k, q)

FlightOk(f) ==
    /\ f = [op |-> f.op, of |-> f.of]
    /\ f.op \in {"none", "read", "command", "discovery"}
    /\ f.op = "command" => f.of \in Commands
    /\ f.op = "read" => f.of \in Reads

UnreadOk(u) == u \in [Reads -> Nat] /\ \A k \in Reads : u[k] <= Members[k]

AgesOk(a) == a \in [CoreReads -> 0 .. SloTicks]

TickInv ==
    /\ pend \subseteq Commands
    /\ window \in Seq(Classes) /\ Len(window) <= WindowTicks
    /\ DueOk(wait, overdue, front) /\ FlightOk(flight)
    /\ UnreadOk(unread) /\ AgesOk(age)
    /\ failed \subseteq Reads /\ held \subseteq CoreReads

TickNumbers == {WindowTicks, ReadTicks, RetryTicks, ScanTicks, SloTicks} \subseteq Nat \ {0}

LEMMA TickConstants == TickNumbers
BY TickAssumption DEF TickAssumption, TickNumbers

LEMMA FirstIsOne ==
    ASSUME NEW cs \in SUBSET Commands, cs # {}
    PROVE  First(cs) \in cs
<1> DEFINE rank(c) == Ranks[Priority[c]]
           ranks == {rank(c) : c \in cs}
<1>1. \A c \in cs : rank(c) \in Nat
  <2> SUFFICES ASSUME NEW c \in cs PROVE Ranks[Priority[c]] \in Nat
    OBVIOUS
  <2>1. Priority[c] \in {"safety", "user", "publish", "read", "optional", "discovery", "diagnostic"}
    BY TickAssumption DEF TickAssumption
  <2> QED BY <2>1 DEF Ranks
<1> HIDE DEF rank
<1>2. ranks \in SUBSET Nat /\ ranks # {}
  BY <1>1
<1>3. PICK x \in ranks : \A y \in ranks : x <= y
  BY <1>2, SmallestIsThere
<1>4. PICK c \in cs : \A d \in cs : rank(c) <= rank(d)
  BY <1>3
<1> QED BY <1>4 DEF First, rank

LEMMA WindowOk ==
    ASSUME NEW class \in Classes, window \in Seq(Classes), Len(window) <= WindowTicks
    PROVE  Window(class) \in Seq(Classes) /\ Len(Window(class)) <= WindowTicks
<1> DEFINE all == Append(window, class)
<1>1. all \in Seq(Classes) /\ Len(all) = Len(window) + 1 /\ Len(window) \in Nat /\ WindowTicks \in Nat
  BY TickConstants DEF TickNumbers
<1>2. Window(class) = IF Len(all) > WindowTicks THEN Tail(all) ELSE all
  BY DEF Window
<1> HIDE DEF all
<1>3. Tail(all) \in Seq(Classes) /\ Len(Tail(all)) = Len(all) - 1
  BY <1>1
<1> QED BY <1>1, <1>2, <1>3

\* The next read is one of the reads.
LEMMA NextIsRead ==
    ASSUME DueOk(wait, overdue, front), front # {} \/ overdue # <<>>
    PROVE  NextRead \in Reads
<1>1. /\ front \subseteq Reads /\ Reads \subseteq Nat
      /\ overdue \in Seq(Reads)
  BY TickAssumption DEF DueOk, TickAssumption
<1>2. CASE front # {}
  <2>1. \E k \in front : \A j \in front : k <= j
    BY <1>1, <1>2, SmallestIsThere
  <2> QED BY <1>1, <1>2, <2>1 DEF NextRead
<1>3. CASE front = {}
  <2>1. overdue # <<>> /\ NextRead = Head(overdue)
    BY <1>3 DEF NextRead
  <2> QED BY <1>1, <2>1
<1> QED BY <1>2, <1>3

\* What the scheduler picks can be carried out.
LEMMA ChosenOk ==
    ASSUME TickInv
    PROVE  /\ FlightOk(ChosenOp)
           /\ ChosenOp.op = "none" => ChosenOp = NoOp
<1> DEFINE Fits(o) == FlightOk(o) /\ (o.op = "none" => o = NoOp)
<1>1. \A cs \in SUBSET Commands : cs # {} => Fits(CommandOp(cs))
  BY FirstIsOne DEF CommandOp, FlightOk
<1>2. ReadRunnable => Fits(ReadOp)
  <2>1. ReadRunnable => NextRead \in Reads
    BY NextIsRead DEF ReadRunnable, ReadDue, TickInv
  <2> QED BY <2>1 DEF ReadOp, FlightOk
<1>3. Fits(NoOp) /\ Fits([op |-> "discovery", of |-> 0])
  BY DEF NoOp, Idle, FlightOk
<1>4. Register \in pend => Fits([op |-> "command", of |-> Register])
  BY DEF TickInv, FlightOk
<1>5. Selectable \in SUBSET Commands /\ UrgentSelectable \in SUBSET Commands
  BY DEF TickInv, Selectable, UrgentSelectable
<1> HIDE DEF Fits
<1>6. Fits(StandardOp)
  BY <1>1, <1>2, <1>3, <1>5 DEF StandardOp
<1>7. Fits(RegisteredOp)
  BY <1>1, <1>2, <1>5, <1>6 DEF RegisteredOp
<1>8. Fits(ChosenOp)
  BY <1>3, <1>4, <1>7 DEF ChosenOp
<1> QED BY <1>8 DEF Fits

\* Time passes: what becomes due is queued behind what is.
LEMMA DueKeeps ==
    ASSUME TickInv
    PROVE  DueOk(WaitAfterTick, DueAfterTick, front)
<1> DEFINE new == Ascending(NewlyDue)
           due == DueAfterTick
<1>1. /\ wait \in [Reads -> 0 .. ReadTicks + RetryTicks] /\ ReadTicks + RetryTicks \in Nat
      /\ overdue \in Seq(Reads) /\ IsInjective(overdue) /\ front \subseteq Reads
      /\ \A k \in Reads : wait[k] = 0 <=> InQueue(k, overdue) \/ k \in front
      /\ \A k \in front : ~InQueue(k, overdue)
  BY TickConstants DEF TickInv, TickNumbers, DueOk
<1>2. /\ WaitAfterTick \in [Reads -> 0 .. ReadTicks + RetryTicks]
      /\ \A k \in Reads : WaitAfterTick[k] = IF wait[k] > 0 THEN wait[k] - 1 ELSE 0
  <2>1. \A k \in Reads : (IF wait[k] > 0 THEN wait[k] - 1 ELSE 0) \in 0 .. ReadTicks + RetryTicks
    BY <1>1
  <2> QED BY <2>1 DEF WaitAfterTick
<1>3. /\ NewlyDue \in SUBSET Reads /\ \A k \in Reads : k \in NewlyDue <=> wait[k] = 1
  BY DEF NewlyDue
<1>4. new \in Seq(NewlyDue) /\ IsInjective(new) /\ \A k \in NewlyDue : \E i \in DOMAIN new : new[i] = k
  BY <1>3, OrderFacts
<1>5. due = overdue \o new
  BY DEF DueAfterTick
<1> HIDE DEF new, due, WaitAfterTick, NewlyDue
<1>6. new \in Seq(Reads) /\ \A i \in DOMAIN new : new[i] \in NewlyDue
  BY <1>3, <1>4
<1>7. \A i \in DOMAIN overdue : overdue[i] \in Reads /\ wait[overdue[i]] = 0
  <2> SUFFICES ASSUME NEW i \in DOMAIN overdue
               PROVE  overdue[i] \in Reads /\ wait[overdue[i]] = 0
    OBVIOUS
  <2>1. overdue[i] \in Reads /\ InQueue(overdue[i], overdue)
    BY <1>1 DEF InQueue
  <2> QED BY <1>1, <2>1
<1>8. /\ due \in Seq(Reads) /\ DOMAIN overdue = 1 .. Len(overdue) /\ DOMAIN new = 1 .. Len(new)
      /\ Len(overdue) \in Nat /\ Len(new) \in Nat /\ DOMAIN due = 1 .. Len(overdue) + Len(new)
      /\ \A i \in 1 .. Len(overdue) + Len(new) :
            due[i] = IF i <= Len(overdue) THEN overdue[i] ELSE new[i - Len(overdue)]
  BY <1>1, <1>5, <1>6
<1>9. IsInjective(due)
  <2>1. ASSUME NEW i \in DOMAIN overdue, NEW j \in DOMAIN new, overdue[i] = new[j]
        PROVE  FALSE
    <3>1. wait[overdue[i]] = 0 /\ new[j] \in NewlyDue /\ new[j] \in Reads
      BY <1>3, <1>6, <1>7
    <3>2. wait[new[j]] = 1
      BY <1>3, <3>1
    <3> QED BY <2>1, <3>1, <3>2
  <2> QED BY <1>1, <1>4, <1>5, <1>6, <2>1, JoinedOnce
<1>10. \A k \in Reads : InQueue(k, due) <=> InQueue(k, overdue) \/ k \in NewlyDue
  <2> SUFFICES ASSUME NEW k \in Reads
               PROVE  InQueue(k, due) <=> InQueue(k, overdue) \/ k \in NewlyDue
    OBVIOUS
  <2>1. ASSUME NEW i \in DOMAIN due, due[i] = k PROVE InQueue(k, overdue) \/ k \in NewlyDue
    <3>1. CASE i <= Len(overdue)
      BY <1>8, <2>1, <3>1 DEF InQueue
    <3>2. CASE i > Len(overdue)
      <4>1. i - Len(overdue) \in DOMAIN new /\ due[i] = new[i - Len(overdue)]
        BY <1>8, <2>1, <3>2
      <4> QED BY <1>6, <2>1, <4>1
    <3>3. i \in Nat
      BY <1>8, <2>1
    <3> QED BY <1>8, <3>1, <3>2, <3>3
  <2>2. ASSUME NEW j \in DOMAIN overdue, overdue[j] = k PROVE InQueue(k, due)
    <3>1. j \in DOMAIN due /\ due[j] = overdue[j]
      BY <1>8, <2>2
    <3> QED BY <2>2, <3>1 DEF InQueue
  <2>3. ASSUME k \in NewlyDue PROVE InQueue(k, due)
    <3>1. PICK j \in DOMAIN new : new[j] = k
      BY <1>4, <2>3
    <3>2. j + Len(overdue) \in DOMAIN due /\ due[j + Len(overdue)] = new[j]
      BY <1>8
    <3> QED BY <3>1, <3>2 DEF InQueue
  <2> QED BY <2>1, <2>2, <2>3 DEF InQueue
<1>11. ASSUME NEW k \in Reads PROVE WaitAfterTick[k] = 0 <=> InQueue(k, due) \/ k \in front
  <2>1. WaitAfterTick[k] = 0 <=> wait[k] = 0 \/ wait[k] = 1
    BY <1>1, <1>2
  <2> QED BY <1>1, <1>3, <1>10, <2>1
<1>12. ASSUME NEW k \in front PROVE ~InQueue(k, due)
  <2>1. k \in Reads /\ wait[k] = 0
    BY <1>1
  <2> QED BY <1>1, <1>3, <1>10, <2>1
<1> QED BY <1>1, <1>2, <1>8, <1>9, <1>11, <1>12 DEF DueOk, due

\* Keys forced due: they leave the queue for the front.
LEMMA PassKeeps ==
    ASSUME TickInv, NEW forced \in SUBSET Reads, TickPasses(forced)
    PROVE  DueOk(wait', overdue', front') /\ AgesOk(age')
<1> DEFINE due == DueAfterTick
<1>1. DueOk(WaitAfterTick, due, front)
  BY DueKeeps
<1>2. /\ front' = front \cup forced /\ overdue' = Removed(due, forced)
      /\ wait' = [k \in Reads |-> IF k \in forced THEN 0 ELSE WaitAfterTick[k]]
      /\ age' = [k \in CoreReads |-> IF age[k] < SloTicks THEN age[k] + 1 ELSE age[k]]
  BY DEF TickPasses
<1> HIDE DEF due
<1> DEFINE w == WaitAfterTick
<1> HIDE DEF w
<1>3. /\ w \in [Reads -> 0 .. ReadTicks + RetryTicks] /\ due \in Seq(Reads) /\ IsInjective(due)
      /\ front \subseteq Reads /\ \A k \in front : ~InQueue(k, due)
      /\ \A k \in Reads : w[k] = 0 <=> InQueue(k, due) \/ k \in front
      /\ 0 \in 0 .. ReadTicks + RetryTicks
  BY <1>1, TickConstants DEF DueOk, TickNumbers, w
<1>4. wait' \in [Reads -> 0 .. ReadTicks + RetryTicks]
      /\ \A k \in Reads : wait'[k] = IF k \in forced THEN 0 ELSE w[k]
  BY <1>2, <1>3 DEF w
<1>5. /\ overdue' \in Seq(Reads) /\ IsInjective(overdue')
      /\ \A k \in Reads : InQueue(k, overdue') <=> InQueue(k, due) /\ k \notin forced
  BY <1>2, <1>3, RemovedFacts
<1>6. /\ front' \subseteq Reads
      /\ \A k \in Reads : wait'[k] = 0 <=> InQueue(k, overdue') \/ k \in front'
      /\ \A k \in front' : ~InQueue(k, overdue')
  BY <1>2, <1>3, <1>4, <1>5
<1>7. AgesOk(age')
  <2>1. age \in [CoreReads -> 0 .. SloTicks] /\ SloTicks \in Nat
    BY TickConstants DEF TickInv, TickNumbers, AgesOk
  <2>2. \A k \in CoreReads : (IF age[k] < SloTicks THEN age[k] + 1 ELSE age[k]) \in 0 .. SloTicks
    BY <2>1
  <2> QED BY <1>2, <2>2 DEF AgesOk
<1> QED BY <1>4, <1>5, <1>6, <1>7 DEF DueOk

\* A read is recorded: its key leaves both queues and waits for its next time.
LEMMA RecordKeeps ==
    ASSUME TickInv, NEW k \in Reads, NEW ticks \in 1 .. ReadTicks + RetryTicks, Recorded(k, ticks)
    PROVE  DueOk(wait', overdue', front') /\ UnreadOk(unread')
<1>1. /\ wait' = [wait EXCEPT ![k] = ticks] /\ overdue' = Removed(overdue, {k})
      /\ front' = front \ {k} /\ unread' = [unread EXCEPT ![k] = 0]
  BY DEF Recorded
<1>2. /\ wait \in [Reads -> 0 .. ReadTicks + RetryTicks] /\ overdue \in Seq(Reads)
      /\ IsInjective(overdue) /\ front \subseteq Reads /\ \A j \in front : ~InQueue(j, overdue)
      /\ \A j \in Reads : wait[j] = 0 <=> InQueue(j, overdue) \/ j \in front
      /\ ticks \in 0 .. ReadTicks + RetryTicks /\ ticks > 0
  BY TickConstants DEF TickInv, DueOk, TickNumbers
<1>3. /\ wait' \in [Reads -> 0 .. ReadTicks + RetryTicks] /\ wait'[k] = ticks
      /\ \A j \in Reads \ {k} : wait'[j] = wait[j]
  BY <1>1, <1>2
<1>4. /\ overdue' \in Seq(Reads) /\ IsInjective(overdue')
      /\ \A j \in Reads : InQueue(j, overdue') <=> InQueue(j, overdue) /\ j \notin {k}
  BY <1>1, <1>2, RemovedFacts
<1>5. ASSUME NEW j \in Reads PROVE wait'[j] = 0 <=> InQueue(j, overdue') \/ j \in front'
  <2>1. CASE j = k
    <3>1. wait'[j] # 0 /\ j \notin front'
      BY <1>1, <1>2, <1>3, <2>1
    <3>2. ~InQueue(j, overdue')
      BY <1>4, <2>1
    <3> QED BY <3>1, <3>2
  <2>2. CASE j # k
    BY <1>1, <1>2, <1>3, <1>4, <2>2
  <2> QED BY <2>1, <2>2
<1>6. UnreadOk(unread')
  <2>1. Members \in [Reads -> Nat]
    BY TickAssumption DEF TickAssumption
  <2>2. unread \in [Reads -> Nat] /\ \A j \in Reads : unread[j] <= Members[j]
    BY DEF TickInv, UnreadOk
  <2> QED BY <1>1, <2>1, <2>2 DEF UnreadOk
<1> QED BY <1>1, <1>2, <1>3, <1>4, <1>5, <1>6 DEF DueOk

LEMMA TickStepKeeps == TickInv /\ TickStep => TickInv'
<1> SUFFICES ASSUME TickInv, TickStep PROVE TickInv'
  OBVIOUS
<1>1. PICK op \in {IF flight = Idle THEN ChosenOp ELSE NoOp} :
      LET command == op.op = "command"
          runs == command /\ CommandRuns(op.of)
          refreshed == runs /\ op.of = Refresh
          starts == op # NoOp /\ (command => runs /\ ~refreshed)
          ordinary == command /\ op.of # Register /\ UrgentSelectable = {}
          kept == IF refreshed THEN pend \ {Refresh} ELSE pend
          ticked == IF scan > 0 THEN scan - 1 ELSE 0
      IN  \E regulated \in BOOLEAN, rescan \in {FALSE, refreshed},
             refresh \in SUBSET (IF refreshed THEN Refreshable ELSE {}) :
          /\ flight' = IF starts THEN op ELSE flight
          /\ rested' = ~starts
          /\ unread' = UnreadAfterTry
          /\ preferRead' = IF op.op = "read" THEN preferRead /\ (ReadsNeedPriority \/ unread'[op.of] > 0)
                           ELSE IF ordinary THEN refreshed
                           ELSE preferRead
          /\ window' = Window(IF command /\ ~starts /\ op.of # Register THEN QueueClass[op.of] ELSE "none")
          /\ TickPasses(refresh \cup IF regulated THEN Expedited ELSE {})
          /\ pend' = IF regulated THEN Suspended(kept, IF starts /\ command THEN {op.of} ELSE InFlight) ELSE kept
          /\ scan' = IF rescan THEN 0 ELSE IF regulated THEN SuspendedScan(ticked) ELSE ticked
          /\ UNCHANGED <<failed, held, circuit, registered, services>>
  BY DEF TickStep
<1> DEFINE command == op.op = "command"
           runs == command /\ CommandRuns(op.of)
           refreshed == runs /\ op.of = Refresh
           starts == op # NoOp /\ (command => runs /\ ~refreshed)
           kept == IF refreshed THEN pend \ {Refresh} ELSE pend
           added(regulated, refresh) == refresh \cup IF regulated THEN Expedited ELSE {}
           remains(regulated) ==
               IF regulated THEN Suspended(kept, IF starts /\ command THEN {op.of} ELSE InFlight) ELSE kept
<1>2. /\ flight' = IF starts THEN op ELSE flight
      /\ unread' = UnreadAfterTry
      /\ window' = Window(IF command /\ ~starts /\ op.of # Register THEN QueueClass[op.of] ELSE "none")
      /\ \E regulated \in BOOLEAN, refresh \in SUBSET Refreshable : TickPasses(added(regulated, refresh))
      /\ \E regulated \in BOOLEAN : pend' = remains(regulated)
      /\ UNCHANGED <<failed, held>>
  BY <1>1
<1>3. FlightOk(op)
  BY ChosenOk DEF NoOp, Idle, FlightOk
<1>4. pend' \subseteq Commands
  <2>1. kept \subseteq Commands
    BY DEF TickInv
  <2> HIDE DEF kept, starts, command
  <2> QED BY <1>2, <2>1 DEF Suspended
<1>5. window' \in Seq(Classes) /\ Len(window') <= WindowTicks
  <2>1. (IF command /\ ~starts /\ op.of # Register THEN QueueClass[op.of] ELSE "none") \in Classes
    BY <1>3 DEF Classes, FlightOk
  <2>2. window \in Seq(Classes) /\ Len(window) <= WindowTicks
    BY DEF TickInv
  <2> QED BY <1>2, <2>1, <2>2, WindowOk
<1>6. FlightOk(flight')
  <2> HIDE DEF starts
  <2> QED BY <1>2, <1>3, Zenon DEF TickInv
<1>7. DueOk(wait', overdue', front') /\ AgesOk(age')
  <2>1. CoreReads \subseteq Reads
    BY TickAssumption DEF TickAssumption
  <2>2. Refreshable \subseteq Reads /\ Expedited \subseteq Reads
    BY <2>1 DEF Refreshable, Expedited, Aged, TickInv
  <2>3. PICK regulated \in BOOLEAN, refresh \in SUBSET Refreshable : TickPasses(added(regulated, refresh))
    BY <1>2
  <2>4. added(regulated, refresh) \in SUBSET Reads
    BY <2>2
  <2> QED BY <2>3, <2>4, PassKeeps
<1>8. UnreadOk(unread')
  <2>1. Members \in [Reads -> Nat]
    BY TickAssumption DEF TickAssumption
  <2>2. unread \in [Reads -> Nat] /\ \A k \in Reads : unread[k] <= Members[k]
    BY DEF TickInv, UnreadOk
  <2>3. CASE ReadTried /\ unread[NextRead] = 0
    <3>1. NextRead \in Reads
      BY <2>3, NextIsRead DEF ReadTried, ReadDue, TickInv
    <3>2. unread' = [unread EXCEPT ![NextRead] = Members[NextRead]]
      BY <1>2, <2>3 DEF UnreadAfterTry
    <3> DEFINE n == NextRead
    <3> HIDE DEF n
    <3>3. n \in Reads /\ unread' = [unread EXCEPT ![n] = Members[n]]
      BY <3>1, <3>2 DEF n
    <3> QED BY <2>1, <2>2, <3>3 DEF UnreadOk
  <2>4. CASE ~(ReadTried /\ unread[NextRead] = 0)
    BY <1>2, <2>2, <2>4 DEF UnreadAfterTry, UnreadOk
  <2> QED BY <2>3, <2>4
<1>9. failed' \subseteq Reads /\ held' \subseteq CoreReads
  BY <1>2 DEF TickInv
<1> QED BY <1>4, <1>5, <1>6, <1>7, <1>8, <1>9 DEF TickInv

LEMMA TickKeeps == TickInv /\ [TickNext]_tickVars => TickInv'
<1> SUFFICES ASSUME TickInv, [TickNext]_tickVars PROVE TickInv'
  OBVIOUS
<1>0. FlightOk(Idle)
  BY DEF FlightOk, Idle
<1>1. CASE Enqueue
  BY <1>1 DEF Enqueue, readVars, TickInv
<1>2. CASE TickStep
  BY <1>2, TickStepKeeps
<1>3. CASE ReadFinishes
  <2> DEFINE k == flight.of
  <2>1. /\ flight.op = "read" /\ flight' = Idle /\ UNCHANGED <<pend, window>>
        /\ MemberAnswers(k) \/ ReadApplied(k) \/ ReadFails(k)
    BY <1>3 DEF ReadFinishes
  <2>2. k \in Reads
    BY <2>1 DEF TickInv, FlightOk
  <2> HIDE DEF k
  <2>3. /\ ReadTicks \in 1 .. ReadTicks + RetryTicks /\ RetryTicks \in 1 .. ReadTicks + RetryTicks
        /\ SloTicks \in Nat
    BY TickConstants DEF TickNumbers
  <2>4. CASE MemberAnswers(k)
    <3>1. /\ unread[k] > 1 /\ unread' = [unread EXCEPT ![k] = unread[k] - 1]
          /\ UNCHANGED <<wait, overdue, front, failed, age, held>>
      BY <2>4 DEF MemberAnswers
    <3>2. unread \in [Reads -> Nat] /\ Members \in [Reads -> Nat] /\ \A j \in Reads : unread[j] <= Members[j]
      BY TickAssumption DEF TickAssumption, TickInv, UnreadOk
    <3>3. UnreadOk(unread')
      BY <2>2, <3>1, <3>2 DEF UnreadOk
    <3>4. DueOk(wait', overdue', front') /\ AgesOk(age') /\ failed' \subseteq Reads /\ held' \subseteq CoreReads
      BY <3>1 DEF TickInv
    <3> QED BY <1>0, <2>1, <3>3, <3>4 DEF TickInv
  <2>5. CASE ReadApplied(k)
    <3>1. /\ Recorded(k, ReadTicks) /\ failed' = failed \ {k}
          /\ age' = [j \in CoreReads |-> IF j = k THEN 0 ELSE age[j]]
          /\ held' \subseteq held \cup ({k} \cap CoreReads)
      BY <2>5 DEF ReadApplied
    <3>2. DueOk(wait', overdue', front') /\ UnreadOk(unread')
      BY <2>2, <2>3, <3>1, RecordKeeps
    <3>3. AgesOk(age') /\ failed' \subseteq Reads /\ held' \subseteq CoreReads
      <4>1. 0 \in 0 .. SloTicks
        BY <2>3
      <4> QED BY <3>1, <4>1 DEF AgesOk, TickInv
    <3> QED BY <1>0, <2>1, <3>2, <3>3 DEF TickInv
  <2>6. CASE ReadFails(k)
    <3>1. Recorded(k, RetryTicks) /\ failed' = failed \cup {k} /\ UNCHANGED <<age, held>>
      BY <2>6 DEF ReadFails
    <3>2. DueOk(wait', overdue', front') /\ UnreadOk(unread')
      BY <2>2, <2>3, <3>1, RecordKeeps
    <3> QED BY <1>0, <2>1, <2>2, <3>1, <3>2 DEF TickInv
  <2> QED BY <2>1, <2>4, <2>5, <2>6
<1>4. CASE CommandFinishes
  <2>1. PICK outcome \in {"retired", "deferred"} :
          pend' = IF outcome = "retired" THEN pend \ {flight.of} ELSE pend
    BY <1>4 DEF CommandFinishes
  <2>2. /\ flight.op = "command" /\ flight' = Idle /\ UNCHANGED readVars
        /\ window' = IF flight.of = Register \/ window = <<>> THEN window
                     ELSE [window EXCEPT ![Len(window)] = QueueClass[flight.of]]
    BY <1>4 DEF CommandFinishes
  <2>3. QueueClass[flight.of] \in Classes
    BY <2>2 DEF TickInv, FlightOk, Classes
  <2>4. window' \in Seq(Classes) /\ Len(window') <= WindowTicks
    BY <2>2, <2>3 DEF TickInv
  <2>5. pend' \subseteq Commands
    BY <2>1 DEF TickInv
  <2> QED BY <1>0, <2>2, <2>4, <2>5 DEF TickInv, readVars
<1>5. CASE DiscoveryFinishes
  BY <1>0, <1>5 DEF DiscoveryFinishes, readVars, TickInv
<1>6. CASE CircuitChanges
  BY <1>6 DEF CircuitChanges, readVars, TickInv
<1>7. CASE UNCHANGED tickVars
  BY <1>7 DEF tickVars, readVars, TickInv
<1> QED BY <1>1, <1>2, <1>3, <1>4, <1>5, <1>6, <1>7 DEF TickNext, Finishes

LEMMA TickStarts == TickInit => TickInv
<1> SUFFICES ASSUME TickInit PROVE TickInv
  OBVIOUS
<1>1. /\ pend = {} /\ window = <<>> /\ wait = [k \in Reads |-> 0] /\ overdue = <<>> /\ front = Reads
      /\ age = [k \in CoreReads |-> SloTicks] /\ flight = Idle /\ unread = [k \in Reads |-> 0]
      /\ failed = {} /\ held = {}
  BY DEF TickInit
<1>2. /\ SloTicks \in Nat /\ WindowTicks \in Nat /\ ReadTicks + RetryTicks \in Nat
      /\ Members \in [Reads -> Nat]
  BY TickConstants, TickAssumption DEF TickNumbers, TickAssumption
<1>3. window \in Seq(Classes) /\ Len(window) = 0
  BY <1>1
<1>4. DueOk(wait, overdue, front)
  <2>1. wait \in [Reads -> 0 .. ReadTicks + RetryTicks] /\ overdue \in Seq(Reads) /\ DOMAIN overdue = {}
    BY <1>1, <1>2
  <2>2. IsInjective(overdue) /\ \A k \in Reads : ~InQueue(k, overdue)
    BY <2>1 DEF IsInjective, InQueue
  <2> QED BY <1>1, <2>1, <2>2 DEF DueOk
<1>5. FlightOk(flight)
  BY <1>1 DEF FlightOk, Idle
<1>6. UnreadOk(unread) /\ AgesOk(age)
  BY <1>1, <1>2 DEF UnreadOk, AgesOk
<1> QED BY <1>1, <1>2, <1>3, <1>4, <1>5, <1>6 DEF TickInv

LEMMA TickTyped == TickInv => TickTypeOK
<1> SUFFICES ASSUME TickInv PROVE TickTypeOK
  OBVIOUS
<1>1. /\ wait \in [Reads -> 0 .. ReadTicks + RetryTicks]
      /\ overdue \in Seq(Reads) /\ IsInjective(overdue) /\ front \subseteq Reads
      /\ \A k \in Reads : wait[k] = 0 <=> InQueue(k, overdue) \/ k \in front
      /\ \A k \in front : ~InQueue(k, overdue)
  BY DEF TickInv, DueOk
<1>2. /\ ToSet(overdue) \subseteq Reads
      /\ \A k \in Reads : InQueue(k, overdue) <=> k \in ToSet(overdue)
  BY <1>1 DEF ToSet, InQueue
<1>3. window \in SeqOf(Classes, WindowTicks)
  <2>1. window \in [1 .. Len(window) -> Classes] /\ Len(window) \in Nat /\ Len(window) <= WindowTicks
    BY DEF TickInv
  <2>2. Len(window) \in 0 .. WindowTicks
    BY <2>1, TickConstants DEF TickNumbers
  <2> QED BY <2>1, <2>2 DEF SeqOf
<1>4. \A k \in Reads : unread[k] \in 0 .. Members[k]
  <2>1. Members \in [Reads -> Nat]
    BY TickAssumption DEF TickAssumption
  <2> QED BY <2>1 DEF TickInv, UnreadOk
<1>5. /\ \A k \in Reads : wait[k] = 0 <=> k \in ToSet(overdue) \cup front
      /\ ToSet(overdue) \cap front = {}
  BY <1>1, <1>2
<1>6. ToSet(overdue) \cup front \cup failed \subseteq Reads
  BY <1>1, <1>2 DEF TickInv
<1> HIDE DEF ToSet
<1>7. /\ pend \subseteq Commands /\ held \subseteq CoreReads /\ age \in [CoreReads -> 0 .. SloTicks]
      /\ flight.op \in {"none", "read", "command", "discovery"}
  BY DEF TickInv, FlightOk, AgesOk
<1> QED BY <1>1, <1>3, <1>4, <1>5, <1>6, <1>7 DEF TickTypeOK, Classes

TickSpec == TickInit /\ [][TickNext]_tickVars

\* For any reads, aggregates, commands, budgets and delays: a read key waits for
\* its next time or is due, once, in its turn or ahead of it; none is forgotten,
\* whatever is forced due while it is read (scheduling.py).
THEOREM NoReadForgotten == TickSpec => []TickTypeOK
BY TickStarts, TickKeeps, TickTyped, PTL DEF TickSpec

(***************************************************************************)
(* The helper's supervisor: only the helper started last vouches for what  *)
(* is read.                                                                *)
(***************************************************************************)
SupFields == {"proc", "started", "asked", "seen", "lastSeen", "seq", "mine", "valued"}
SnapshotFields == {"mine", "seq", "beat", "fresh", "flaw"}
Times == Nat \cup {NoValue}

\* What was seen is the heartbeat of the helper itself, and its time is known.
SupOk(s) ==
    /\ DOMAIN s = SupFields /\ s = [f \in SupFields |-> s[f]]
    /\ s.lastSeen \in Times
    /\ s.seen => s.mine /\ s.lastSeen # NoValue

SnapshotOk(f) ==
    f # NoValue => DOMAIN f = SnapshotFields /\ f = [n \in SnapshotFields |-> f[n]] /\ f.beat \in Nat

VouchInv ==
    /\ helper \in {"none", "ok", "stuck", "hung", "dead"}
    /\ signal \in {"none", "term", "kill"}
    /\ seqno \in 0 .. MaxSequence /\ aiFlight \in [Threads -> 0 .. MaxSequence]
    /\ SupOk(sup) /\ SnapshotOk(aiFile)

LEMMA TimesGrow ==
    /\ NoValue \notin Nat /\ MaxSequence \in Nat
    /\ \A a \in Nat : AiOlder(a) \in Nat
    /\ \A a \in Times : AiOlder(a) \in Times /\ (a # NoValue => AiOlder(a) # NoValue)
<1>1. NoValue \notin Nat /\ MaxSequence \in Nat
  BY AiAssumption DEF AiAssumption
<1>2. \A a \in Nat : AiOlder(a) \in Nat
  BY <1>1 DEF AiOlder
<1>3. AiOlder(NoValue) = NoValue
  BY DEF AiOlder
<1> QED BY <1>1, <1>2, <1>3 DEF Times

\* A field that says nothing of what was seen may take any value.
LEMMA OtherFields ==
    ASSUME NEW s, SupOk(s), NEW v
    PROVE  /\ SupOk([s EXCEPT !.proc = v]) /\ SupOk([s EXCEPT !.asked = v])
           /\ SupOk([s EXCEPT !.started = v])
BY DEF SupOk, SupFields

LEMMA ReadVouches ==
    ASSUME NEW s, SupOk(s), NEW pressure, SnapshotOk(aiFile)
    PROVE  SupOk(FileRead(s, pressure))
<1> DEFINE stale == aiFile.beat > Limit(StaleTicks, pressure)
           vouched == ~stale /\ aiFile.mine
           last == IF vouched THEN aiFile.beat ELSE IF ~s.seen THEN NoValue ELSE s.lastSeen
           valued == ~stale
<1>1. CASE ~Acceptable(s)
  BY <1>1 DEF FileRead
<1>2. CASE Acceptable(s)
  <2>1. aiFile # NoValue /\ aiFile.beat \in Nat
    BY <1>2 DEF Acceptable, SnapshotOk
  <2>2. FileRead(s, pressure) = [s EXCEPT !.seen = vouched, !.lastSeen = last, !.seq = aiFile.seq,
                                          !.mine = aiFile.mine, !.valued = valued]
    BY <1>2 DEF FileRead, Applied
  <2>3. last \in Times /\ (vouched => aiFile.mine /\ last # NoValue)
    <3>1. aiFile.beat \in Times /\ aiFile.beat # NoValue /\ NoValue \in Times /\ s.lastSeen \in Times
      BY <2>1, TimesGrow DEF SupOk, Times
    <3> HIDE DEF stale
    <3> QED BY <3>1
  <2> HIDE DEF vouched, last, stale, valued
  <2> DEFINE t == FileRead(s, pressure)
  <2>4. /\ DOMAIN t = SupFields /\ t = [f \in SupFields |-> t[f]]
        /\ t.lastSeen = last /\ t.mine = aiFile.mine /\ t.seen = vouched
    BY <2>2 DEF SupOk, SupFields
  <2> HIDE DEF t
  <2>5. SupOk(t)
    BY <2>3, <2>4 DEF SupOk
  <2> QED BY <2>5 DEF t
<1> QED BY <1>1, <1>2

LEMMA SnapshotFresh ==
    ASSUME SnapshotOk(aiFile), NEW v
    PROVE  aiFile # NoValue => /\ SnapshotOk([aiFile EXCEPT !.fresh = v]) /\ SnapshotOk([aiFile EXCEPT !.mine = v])
                               /\ SnapshotOk([aiFile EXCEPT !.mine = v, !.fresh = TRUE])
BY DEF SnapshotOk, SnapshotFields

LEMMA VouchKeeps == VouchInv /\ [AiNext]_aiVars => VouchInv'
<1> SUFFICES ASSUME VouchInv, [AiNext]_aiVars PROVE VouchInv'
  OBVIOUS
<1> USE DEF VouchInv
<1>0. 0 \in 0 .. MaxSequence /\ [t \in Threads |-> 0] \in [Threads -> 0 .. MaxSequence]
  BY TimesGrow
<1>1. ASSUME NEW t \in Threads, BeginWrite(t) PROVE VouchInv'
  <2>1. PICK n \in {seqno + 1} \cup ({aiFlight[u] : u \in Threads \ {t}} \ {0}) :
          aiFlight' = [aiFlight EXCEPT ![t] = n] /\ seqno' = n
    BY <1>1 DEF BeginWrite
  <2>2. n \in 0 .. MaxSequence
    BY <1>1, <2>1, TimesGrow DEF BeginWrite
  <2>3. UNCHANGED <<helper, signal, aiFile, sup>>
    BY <1>1 DEF BeginWrite
  <2> QED BY <2>1, <2>2, <2>3
<1>2. ASSUME NEW t \in Threads, EndWrite(t) PROVE VouchInv'
  <2>1. SnapshotOk(aiFile')
    BY <1>2 DEF EndWrite, SnapshotOk, SnapshotFields
  <2> QED BY <1>0, <1>2, <2>1 DEF EndWrite
<1>3. CASE OrphanWrites
  <2>1. SnapshotOk(aiFile')
    BY <1>3 DEF OrphanWrites, SnapshotOk, SnapshotFields
  <2> QED BY <1>3, <2>1 DEF OrphanWrites
<1>4. CASE OrphanEnds
  BY <1>4 DEF OrphanEnds
<1>5. CASE HelperFails \/ SignalTaken
  BY <1>0, <1>5 DEF HelperFails, SignalTaken
<1>6. ASSUME NEW pressure \in BOOLEAN, SuperviseRunning(pressure) PROVE VouchInv'
  <2> DEFINE read == FileRead(sup, pressure)
             handled == SilentHandled(read, pressure)
  <2>1. /\ sup' = handled.sup /\ signal' = handled.signal
        /\ aiFile' = IF Acceptable(sup) THEN [aiFile EXCEPT !.fresh = FALSE] ELSE aiFile
        /\ UNCHANGED <<helper, seqno, aiFlight>>
    BY <1>6 DEF SuperviseRunning
  <2>2. SupOk(read)
    BY ReadVouches
  <2> HIDE DEF read
  <2>3. SupOk(handled.sup) /\ handled.signal \in {"none", "term", "kill"}
    BY <2>2, OtherFields DEF SilentHandled
  <2>4. SnapshotOk(aiFile')
    BY <2>1, SnapshotFresh DEF Acceptable
  <2> QED BY <2>1, <2>3, <2>4
<1>7. ASSUME NEW pressure \in BOOLEAN, SuperviseWaiting(pressure) PROVE VouchInv'
  <2>1. /\ sup' = FileRead([sup EXCEPT !.proc = FALSE, !.asked = NoValue], pressure)
        /\ aiFile' = IF Acceptable(sup) THEN [aiFile EXCEPT !.fresh = FALSE] ELSE aiFile
        /\ UNCHANGED <<helper, signal, seqno, aiFlight>>
    BY <1>7 DEF SuperviseWaiting
  <2>2. SupOk([sup EXCEPT !.proc = FALSE, !.asked = NoValue])
    BY DEF SupOk, SupFields
  <2>3. SupOk(sup')
    BY <2>1, <2>2, ReadVouches
  <2>4. SnapshotOk(aiFile')
    BY <2>1, SnapshotFresh DEF Acceptable
  <2> QED BY <2>1, <2>3, <2>4
<1>8. CASE Spawn \/ SpawnFails
  <2>1. /\ seqno' = 0 /\ aiFlight' = [t \in Threads |-> 0] /\ signal' = "none" /\ helper' \in {"ok", "none"}
        /\ aiFile' = NoValue \/ (aiFile # NoValue /\ aiFile' = [aiFile EXCEPT !.mine = FALSE])
    BY <1>8 DEF Spawn, SpawnFails, SpawnReset
  <2>2. SnapshotOk(aiFile')
    <3>1. SnapshotOk(NoValue)
      BY DEF SnapshotOk
    <3> QED BY <2>1, <3>1, SnapshotFresh
  <2>3. SupOk([sup EXCEPT !.seen = FALSE, !.lastSeen = NoValue, !.seq = 0, !.mine = FALSE])
    BY DEF SupOk, SupFields, Times
  <2>4. SupOk(LivenessReset(sup))
    BY <2>3 DEF LivenessReset
  <2>5. SupOk([LivenessReset(sup) EXCEPT !.proc = TRUE, !.started = 0, !.asked = NoValue])
        /\ SupOk([LivenessReset(sup) EXCEPT !.proc = FALSE, !.asked = NoValue])
    BY <2>4 DEF SupOk, SupFields
  <2>6. SupOk(sup')
    BY <1>8, <2>5 DEF Spawn, SpawnFails
  <2> QED BY <1>0, <2>1, <2>2, <2>6
<1>9. CASE AiTick
  <2>1. /\ sup' = [sup EXCEPT !.started = AiOlder(@), !.asked = AiOlder(@), !.lastSeen = AiOlder(@)]
        /\ aiFile' = IF aiFile = NoValue \/ ~Validated(aiFile) THEN aiFile
                     ELSE [aiFile EXCEPT !.beat = AiOlder(@)]
        /\ UNCHANGED <<helper, signal, seqno, aiFlight>>
    BY <1>9 DEF AiTick
  <2>2. ASSUME NEW a, NEW b, NEW c \in Times, sup.lastSeen # NoValue => c # NoValue
        PROVE  SupOk([sup EXCEPT !.started = a, !.asked = b, !.lastSeen = c])
    BY <2>2 DEF SupOk, SupFields
  <2>3. SupOk(sup')
    <3>1. AiOlder(sup.lastSeen) \in Times /\ (sup.lastSeen # NoValue => AiOlder(sup.lastSeen) # NoValue)
      BY TimesGrow DEF SupOk
    <3> QED BY <2>1, <2>2, <3>1
  <2>4. ASSUME NEW a \in Nat, aiFile # NoValue PROVE SnapshotOk([aiFile EXCEPT !.beat = a])
    BY <2>4 DEF SnapshotOk, SnapshotFields
  <2>5. SnapshotOk(aiFile')
    <3>1. CASE aiFile' = aiFile
      BY <3>1
    <3>2. CASE aiFile # NoValue /\ aiFile' = [aiFile EXCEPT !.beat = AiOlder(aiFile.beat)]
      <4>1. AiOlder(aiFile.beat) \in Nat
        BY <3>2, TimesGrow DEF SnapshotOk
      <4> QED BY <2>4, <3>2, <4>1
    <3> QED BY <2>1, <3>1, <3>2
  <2> QED BY <2>1, <2>3, <2>5
<1>s. SupOk(NewSupervisor)
  BY DEF NewSupervisor, SupOk, SupFields, Times
<1>10. CASE ServiceRestarts
  <2>1. SnapshotOk(aiFile')
    BY <1>10, SnapshotFresh DEF ServiceRestarts
  <2>2. SupOk(sup')
    BY <1>10, <1>s DEF ServiceRestarts
  <2> QED BY <1>0, <1>10, <2>1, <2>2 DEF ServiceRestarts
<1>11. CASE UNCHANGED aiVars
  BY <1>11 DEF aiVars
<1> QED BY <1>1, <1>2, <1>3, <1>4, <1>5, <1>6, <1>7, <1>8, <1>9, <1>10, <1>11 DEF AiNext, Supervise

LEMMA VouchStarts == AiInit => VouchInv
<1>1. SupOk(NewSupervisor) /\ SnapshotOk(NoValue)
  BY DEF NewSupervisor, SupOk, SupFields, Times, SnapshotOk
<1>2. 0 \in 0 .. MaxSequence /\ [t \in Threads |-> 0] \in [Threads -> 0 .. MaxSequence]
  BY TimesGrow
<1> QED BY <1>1, <1>2 DEF AiInit, VouchInv

LEMMA VouchTyped == VouchInv => AiTypeOK /\ HelperVouches
BY DEF VouchInv, SupOk, AiTypeOK, HelperVouches

\* For any delays and stretch, any number of restarts and any orphan: what the
\* supervisor takes for a sign of life was written by the helper it started
\* last (inputs/supervisor_process.py).
THEOREM OnlyItselfVouches == AiSpec => [](AiTypeOK /\ HelperVouches)
BY VouchTyped, VouchStarts, VouchKeeps, PTL DEF AiSpec

(***************************************************************************)
(* The control writes: what is kept of a setting outside the memory.       *)
(***************************************************************************)
CellFields == {"mode", "enable", "on", "requested", "active", "staged", "setting", "pending", "expected", "reading"}
IsCell(c) == DOMAIN c = CellFields /\ c = [f \in CellFields |-> c[f]]
TxnFields == {"step", "origin", "command", "saved", "effect"}
IsTxn(t) == DOMAIN t = TxnFields /\ t = [f \in TxnFields |-> t[f]]

\* What a restart would bring back once the staged values are written.
KeptSetting == IF staging.value # NoOrder THEN staging.value ELSE disk.overrides

CellShape ==
    /\ IsCell(cell) /\ IsTxn(txn)
    /\ txn.step # "idle" => IsCell(txn.saved)
    /\ DOMAIN staging = {"value", "due"} /\ staging = [f \in {"value", "due"} |-> staging[f]]
    /\ DOMAIN disk = {"state", "overrides"} /\ disk = [f \in {"state", "overrides"} |-> disk[f]]
    /\ lane \in Seq(Commands_) /\ batch \in Seq(Commands_)
    /\ txn.step # "idle" => txn.command \in Commands_

\* No value that counts is the mark for none.
SettingsReal ==
    /\ cell.setting # NoOrder /\ disk.overrides # NoOrder
    /\ txn.step # "idle" => txn.saved.setting # NoOrder

\* Until a transaction saves, the setting it found is what is kept; once it has
\* saved, so is the setting in the cell.
SettingFollows ==
    /\ written = disk.overrides
    /\ ~unsaved =>
         /\ flush # NoOrder => staging.value = flush
         /\ txn.step \in {"idle", "execute", "commit", "inflight"} => cell.setting = KeptSetting
         /\ txn.step \in {"execute", "save", "overrides", "reject"} => txn.saved.setting = KeptSetting

SettingInv == CellShape /\ SettingsReal /\ SettingFollows

LEMMA WithoutShape ==
    ASSUME NEW q \in Seq(Commands_), NEW target
    PROVE  WithoutTarget(q, target) \in Seq(Commands_)
<1> DEFINE places == {i \in DOMAIN q : q[i].target = target}
<1>1. CASE places = {}
  BY <1>1 DEF WithoutTarget
<1>2. CASE places # {}
  <2>1. (CHOOSE i \in places : TRUE) \in 1 .. Len(q)
    BY <1>2
  <2> DEFINE k == CHOOSE i \in places : TRUE
  <2>2. k \in 1 .. Len(q)
    BY <2>1
  <2>3. WithoutTarget(q, target) = SubSeq(q, 1, k - 1) \o SubSeq(q, k + 1, Len(q))
    BY <1>2 DEF WithoutTarget, RemoveAt
  <2> HIDE DEF k, places
  <2>4. SubSeq(q, 1, k - 1) \in Seq(Commands_) /\ SubSeq(q, k + 1, Len(q)) \in Seq(Commands_)
    BY <2>2
  <2> QED
    BY <2>3, <2>4
<1> QED BY <1>1, <1>2

LEMMA EnqueuedShape ==
    ASSUME NEW q \in Seq(Commands_), NEW command \in Commands_
    PROVE  Enqueued(q, command) \in Seq(Commands_)
<1> DEFINE all == Append(WithoutTarget(q, command.target), command)
<1>1. all \in Seq(Commands_)
  BY WithoutShape
<1>2. Enqueued(q, command) = SubSeq(all, IF Len(all) > QueueMax THEN 2 ELSE 1, Len(all))
  BY DEF Enqueued
<1> HIDE DEF all
<1>3. \A a \in {1, 2} : SubSeq(all, a, Len(all)) \in Seq(Commands_)
  BY <1>1
<1> QED
  BY <1>2, <1>3

\* A handler leaves a cell with a setting that counts.
RealCell(c) == IsCell(c) /\ c.setting # NoOrder

\* What the relay is asked to do does not touch the setting.
LEMMA QueuedKeeps ==
    ASSUME NEW c, IsCell(c), NEW on
    PROVE  IsCell(Queued(c, on)) /\ Queued(c, on).setting = c.setting
BY DEF Queued, IsCell, CellFields

LEMMA HandledKeeps ==
    ASSUME NEW command \in Commands_, RealCell(cell), NEW r \in Handled(command)
    PROVE  RealCell(r.cell)
<1>q. ASSUME NEW c, RealCell(c), NEW on PROVE RealCell(Queued(c, on))
  BY <1>q, QueuedKeeps DEF RealCell
<1>1. ASSUME NEW c, RealCell(c), NEW on, NEW s \in ManualRequest(c, on)
      PROVE  RealCell(s.cell)
  <2>1. RealCell([c EXCEPT !.on = on, !.enable = on])
    BY <1>1 DEF RealCell, IsCell, CellFields
  <2> QED
    BY <1>1, <1>q, <2>1 DEF ManualRequest, ChargerWrite, Outcome, Failure
<1>2. CASE command.target = "mode"
  <2>1. r \in ModeWrite(command.value)
    BY <1>2 DEF Handled
  <2>2. RealCell([cell EXCEPT !.mode = command.value])
    BY DEF RealCell, IsCell, CellFields
  <2>3. RealCell([[cell EXCEPT !.mode = command.value] EXCEPT !.enable = 1, !.on = 0])
    BY DEF RealCell, IsCell, CellFields
  <2> QED
    BY <1>1, <1>q, <2>1, <2>2, <2>3 DEF ModeWrite, Outcome
<1>3. CASE command.target = "enable"
  <2>1. r \in EnableWrite(command.value)
    BY <1>3 DEF Handled
  <2>2. RealCell([cell EXCEPT !.enable = 1]) /\ RealCell([cell EXCEPT !.enable = 0, !.on = 0])
    BY DEF RealCell, IsCell, CellFields
  <2> QED
    BY <1>1, <1>q, <2>1, <2>2 DEF EnableWrite, Outcome
<1>4. CASE command.target = "phase_selection"
  <2>1. r \in PhaseWrite(command.value)
    BY <1>4 DEF Handled
  <2> DEFINE p == command.value
  <2>2. /\ RealCell([cell EXCEPT !.requested = p, !.staged = p])
        /\ RealCell([cell EXCEPT !.requested = p, !.active = p])
    BY DEF RealCell, IsCell, CellFields
  <2> QED
    BY <1>q, <2>1, <2>2 DEF PhaseWrite, Outcome, Failure
<1>5. CASE command.target \notin {"mode", "enable", "phase_selection"}
  <2>1. r \in SettingWrite(command.value) \cup CurrentWrite(command.value) /\ command.value # NoOrder
    BY <1>5, CwConstants DEF Handled, CwConstants
  <2>2. RealCell([cell EXCEPT !.setting = command.value])
    BY <2>1 DEF RealCell, IsCell, CellFields
  <2> QED BY <2>1, <2>2 DEF SettingWrite, CurrentWrite, Outcome, Failure
<1> QED BY <1>2, <1>3, <1>4, <1>5

\* The cycle switches the output without touching the setting.
SameSetting(c) == IsCell(c) /\ c.setting = cell.setting

LEMMA SwitchedKeeps ==
    ASSUME NEW c, SameSetting(c), NEW on, NEW r \in Switched(c, on)
    PROVE  SameSetting(r.cell)
<1>1. SameSetting([c EXCEPT !.on = on])
  BY DEF SameSetting, IsCell, CellFields
<1>2. SameSetting(Queued([c EXCEPT !.on = on], on))
  BY <1>1, QueuedKeeps DEF SameSetting
<1> QED
  BY <1>1, <1>2 DEF Switched

LEMMA ExpectedKeeps ==
    ASSUME NEW c, SameSetting(c)
    PROVE  SameSetting(Unexpected(c))
BY DEF SameSetting, Unexpected, IsCell, CellFields

LEMMA CycleKeeps == IsCell(cell) /\ (CwCycle \/ CwStagedPhase) => SameSetting(cell')
<1> SUFFICES ASSUME IsCell(cell), CwCycle \/ CwStagedPhase PROVE SameSetting(cell')
  OBVIOUS
<1>1. SameSetting(cell)
  BY DEF SameSetting
<1>2. ASSUME NEW on, NEW r \in Decided(on) PROVE SameSetting(r.cell)
  BY <1>1, <1>2, SwitchedKeeps DEF Decided
<1>3. CASE CwCycle
  <2>1. PICK r \in IF MustSwitch THEN Decided(Wanted) ELSE [cell : {cell}, output : {output}] :
          cell' \in {r.cell} \cup IF r.cell.pending = NoOrder THEN {Unexpected(r.cell)} ELSE {}
    BY <1>3 DEF CwCycle
  <2>2. SameSetting(r.cell)
    BY <1>1, <1>2, <2>1
  <2> QED
    BY <2>1, <2>2, ExpectedKeeps
<1>4. CASE CwStagedPhase
  <2> DEFINE phased == [cell EXCEPT !.active = cell.staged, !.requested = cell.staged, !.staged = NoPhase]
  <2>1. SameSetting(phased)
    BY DEF SameSetting, IsCell, CellFields
  <2>2. PICK r \in IF cell.reading = 1 THEN Decided(0)
                   ELSE IF cell.mode = "manual" /\ cell.enable = 1 THEN Switched(phased, 1)
                   ELSE [cell : {phased}, output : {output}] :
          cell' \in {r.cell} \cup IF r.cell.pending = NoOrder THEN {Unexpected(r.cell)} ELSE {}
    BY <1>4 DEF CwStagedPhase
  <2> HIDE DEF phased
  <2>3. SameSetting(r.cell)
    BY <1>2, <2>1, <2>2, SwitchedKeeps
  <2> QED
    BY <2>2, <2>3, ExpectedKeeps
<1> QED BY <1>3, <1>4

\* A step of the worker or the cycle that changes no setting and nothing that is kept.
LEMMA SettingIdles ==
    ASSUME SettingInv, IsCell(cell'), cell'.setting = cell.setting,
           txn' = txn, lane' = lane, batch' = batch,
           DOMAIN disk' = {"state", "overrides"},
           disk' = [f \in {"state", "overrides"} |-> disk'[f]], disk'.overrides = disk.overrides,
           UNCHANGED <<written, staging, flush, unsaved>>
    PROVE  SettingInv'
BY DEF SettingInv, CellShape, SettingsReal, SettingFollows, KeptSetting

LEMMA SettingStep == SettingInv /\ [CwNext]_cwVars => SettingInv'
<1> SUFFICES ASSUME SettingInv, [CwNext]_cwVars PROVE SettingInv'
  OBVIOUS
<1>0. /\ IsCell(cell) /\ IsTxn(txn) /\ cell.setting # NoOrder
      /\ disk = [f \in {"state", "overrides"} |-> disk[f]] /\ DOMAIN disk = {"state", "overrides"}
  BY DEF SettingInv, CellShape, SettingsReal
<1> DEFINE Disks == {disk, [disk EXCEPT !.state = Durable(cell)], [disk EXCEPT !.state = Durable(cell')]}
<1>d. ASSUME NEW d, NEW state, d = disk \/ d = [disk EXCEPT !.state = state]
      PROVE  /\ DOMAIN d = {"state", "overrides"} /\ d = [f \in {"state", "overrides"} |-> d[f]]
             /\ d.overrides = disk.overrides
  BY <1>0, <1>d
<1>1. ASSUME NEW command \in Commands_, CwEnqueue(command) PROVE SettingInv'
  <2>1. lane' \in Seq(Commands_)
    BY <1>1, EnqueuedShape DEF CwEnqueue, SettingInv, CellShape
  <2> QED
    BY <1>1, <2>1 DEF CwEnqueue, SettingInv, CellShape, SettingsReal, SettingFollows, KeptSetting
<1>2. ASSUME NEW command \in Commands_, NEW origin, Begin(command, origin),
             lane' = lane, batch' \in Seq(Commands_),
             UNCHANGED <<cell, disk, written, staging, flush, unsaved>>
      PROVE  SettingInv'
  <2>1. /\ IsTxn(txn') /\ txn'.step = "execute" /\ txn'.saved = cell /\ txn'.command = command
    BY <1>2 DEF Begin, IsTxn, TxnFields
  <2>2. txn.step = "idle"
    BY <1>2 DEF Begin
  <2>3. CellShape'
    BY <1>2, <2>1 DEF SettingInv, CellShape
  <2>4. SettingsReal'
    BY <1>2, <2>1 DEF SettingInv, SettingsReal
  <2>5. SettingFollows'
    BY <1>2, <2>1, <2>2 DEF SettingInv, SettingFollows, KeptSetting
  <2> QED BY <2>3, <2>4, <2>5 DEF SettingInv
<1>3. CASE CwDrain
  BY <1>3 DEF CwDrain, SettingInv, CellShape, SettingsReal, SettingFollows, KeptSetting
<1>4. CASE CwBeginQueued
  <2>1. Head(batch) \in Commands_ /\ Tail(batch) \in Seq(Commands_)
    BY <1>4 DEF CwBeginQueued, SettingInv, CellShape
  <2> QED
    BY <1>2, <1>4, <2>1 DEF CwBeginQueued
<1>5. ASSUME NEW command \in Commands_, CwBeginHttp(command) PROVE SettingInv'
  <2>1. batch' \in Seq(Commands_) /\ lane' = lane
    BY <1>5 DEF CwBeginHttp, SettingInv, CellShape
  <2> QED
    BY <1>2, <1>5, <2>1 DEF CwBeginHttp
<1>6. CASE CwExecute
  <2>1. PICK r \in Handled(txn.command) :
           /\ cell' = r.cell
           /\ txn' = [txn EXCEPT !.step = IF r.ok THEN "save" ELSE "reject", !.effect = r.effect]
    BY <1>6 DEF CwExecute
  <2>2. txn.step = "execute" /\ UNCHANGED <<lane, batch, disk, written, staging, flush, unsaved>>
    BY <1>6 DEF CwExecute
  <2>3. txn.command \in Commands_
    BY <2>2 DEF SettingInv, CellShape
  <2>4. IsCell(cell') /\ cell'.setting # NoOrder
    BY <1>0, <2>1, <2>3, HandledKeeps DEF RealCell
  <2>5. /\ IsTxn(txn') /\ txn'.step \in {"save", "reject"} /\ txn'.effect = r.effect
        /\ txn'.saved = txn.saved /\ txn'.command = txn.command
    BY <1>0, <2>1 DEF IsTxn, TxnFields
  <2>6. CellShape'
    BY <2>2, <2>4, <2>5 DEF SettingInv, CellShape
  <2>7. SettingsReal'
    BY <2>2, <2>4, <2>5 DEF SettingInv, SettingsReal
  <2>8. SettingFollows'
    BY <2>2, <2>4, <2>5 DEF SettingInv, SettingFollows, KeptSetting
  <2> QED BY <2>6, <2>7, <2>8 DEF SettingInv
\* a step of the transaction that only moves it on
<1>7. ASSUME NEW next, txn' = [txn EXCEPT !.step = next], txn.step # "idle",
             UNCHANGED <<lane, batch, cell, written, staging, flush>>,
             ~unsaved' => ~unsaved,
             DOMAIN disk' = {"state", "overrides"},
             disk' = [f \in {"state", "overrides"} |-> disk'[f]], disk'.overrides = disk.overrides,
             \/ txn.step = "save" /\ next = "overrides"
             \/ txn.step = "save" /\ next = "inflight" /\ (~unsaved' => cell.setting = txn.saved.setting)
             \/ txn.step = "save" /\ next = "reject"
             \/ txn.step = "commit" /\ next = "inflight"
      PROVE  SettingInv'
  <2>1. /\ IsTxn(txn') /\ txn'.step = next /\ txn'.effect = txn.effect
        /\ txn'.saved = txn.saved /\ txn'.command = txn.command
    BY <1>0, <1>7 DEF IsTxn, TxnFields
  <2>2. CellShape'
    BY <1>7, <2>1 DEF SettingInv, CellShape
  <2>3. SettingsReal'
    BY <1>7, <2>1 DEF SettingInv, SettingsReal
  <2>4. SettingFollows'
    BY <1>7, <2>1 DEF SettingInv, SettingFollows, KeptSetting
  <2> QED BY <2>2, <2>3, <2>4 DEF SettingInv
<1>8. CASE CwSave
  <2>1. disk' = disk \/ disk' = [disk EXCEPT !.state = Durable(cell)]
    BY <1>8 DEF CwSave
  <2>2. /\ DOMAIN disk' = {"state", "overrides"} /\ disk' = [f \in {"state", "overrides"} |-> disk'[f]]
        /\ disk'.overrides = disk.overrides
    BY <1>d, <2>1
  <2> QED BY <1>7, <1>8, <2>2 DEF CwSave
<1>9. CASE CwSaveRaises
  <2>1. CASE txn.effect
    BY <1>0, <1>7, <1>9, <2>1 DEF CwSaveRaises
  <2>2. CASE ~txn.effect
    BY <1>0, <1>7, <1>9, <2>2 DEF CwSaveRaises
  <2> QED BY <2>1, <2>2
<1>10. CASE CwOverrides
  <2>1. /\ txn.step = "overrides" /\ txn' = [txn EXCEPT !.step = "commit"]
        /\ unsaved' = (flush # NoOrder)
        /\ UNCHANGED <<cell, lane, batch, flush>>
    BY <1>10 DEF CwOverrides
  <2>2. /\ IsTxn(txn') /\ txn'.step = "commit"
        /\ txn'.saved = txn.saved /\ txn'.command = txn.command
    BY <1>0, <2>1 DEF IsTxn, TxnFields
  <2>3. \/ cell.setting = written /\ SaveUnchanged
        \/ \E due : StageOverrides(cell.setting, due)
        \/ WriteOverrides(cell.setting)
    BY <1>10 DEF CwOverrides
  <2>4. /\ staging' = [f \in {"value", "due"} |-> staging'[f]] /\ DOMAIN staging' = {"value", "due"}
        /\ disk' = [f \in {"state", "overrides"} |-> disk'[f]] /\ DOMAIN disk' = {"state", "overrides"}
        /\ written' = disk'.overrides /\ disk'.overrides # NoOrder
        /\ cell.setting = IF staging'.value # NoOrder THEN staging'.value ELSE disk'.overrides
    BY <1>0, <2>3 DEF SaveUnchanged, StageOverrides, WriteOverrides, Unstaged, SettingInv, SettingsReal, SettingFollows
  <2>5. CellShape'
    BY <2>1, <2>2, <2>4 DEF SettingInv, CellShape
  <2>6. SettingsReal'
    BY <2>1, <2>2, <2>4 DEF SettingInv, SettingsReal
  <2>7. SettingFollows'
    BY <2>1, <2>2, <2>4 DEF SettingInv, SettingFollows, KeptSetting
  <2> QED BY <2>5, <2>6, <2>7 DEF SettingInv
<1>e. ASSUME txn' = IdleTxn, UNCHANGED <<lane, batch, disk, written, staging, flush, unsaved>>,
             \/ UNCHANGED cell /\ txn.step \in {"commit", "inflight"}
             \/ cell' = txn.saved /\ txn.step = "reject"
      PROVE  SettingInv'
  <2>1. IsTxn(txn') /\ txn'.step = "idle"
    BY <1>e DEF IdleTxn, IsTxn, TxnFields
  <2>2. CellShape'
    BY <1>e, <2>1 DEF SettingInv, CellShape
  <2>3. SettingsReal'
    BY <1>e, <2>1 DEF SettingInv, SettingsReal
  <2>4. SettingFollows'
    BY <1>e, <2>1 DEF SettingInv, SettingFollows, KeptSetting
  <2> QED BY <2>2, <2>3, <2>4 DEF SettingInv
<1>11. CASE CwCommit
  <2>1. CASE txn' = IdleTxn
    BY <1>e, <1>11, <2>1 DEF CwCommit
  <2>2. CASE txn' = [txn EXCEPT !.step = "inflight"]
    BY <1>0, <1>7, <1>11, <2>2 DEF CwCommit
  <2> QED BY <1>11, <2>1, <2>2 DEF CwCommit
<1>12. CASE CwInFlight
  BY <1>e, <1>12 DEF CwInFlight
<1>13. CASE CwReject
  BY <1>e, <1>13 DEF CwReject
<1>14. CASE CwWorker
  <2>1. cell' = [cell EXCEPT !.pending = NoOrder, !.reading = cell.pending]
    BY <1>14 DEF CwWorker
  <2>2. IsCell(cell') /\ cell'.setting = cell.setting
    BY <1>0, <2>1 DEF IsCell, CellFields
  <2> QED
    BY <1>0, <1>14, <2>2, SettingIdles DEF CwWorker
<1>15. CASE CwPoll
  <2>1. cell' = [cell EXCEPT !.reading = output]
    BY <1>15 DEF CwPoll
  <2>2. IsCell(cell') /\ cell'.setting = cell.setting
    BY <1>0, <2>1 DEF IsCell, CellFields
  <2> QED
    BY <1>0, <1>15, <2>2, SettingIdles DEF CwPoll
<1>16. CASE CwCycle
  <2>1. disk' = disk \/ disk' = [disk EXCEPT !.state = Durable(cell')]
    BY <1>16 DEF CwCycle
  <2>2. /\ DOMAIN disk' = {"state", "overrides"} /\ disk' = [f \in {"state", "overrides"} |-> disk'[f]]
        /\ disk'.overrides = disk.overrides
    BY <1>d, <2>1
  <2>3. IsCell(cell') /\ cell'.setting = cell.setting
    BY <1>0, <1>16, CycleKeeps DEF SameSetting
  <2> QED
    BY <1>16, <2>2, <2>3, SettingIdles DEF CwCycle
<1>17. CASE CwStagedPhase
  <2>1. disk' = disk \/ disk' = [disk EXCEPT !.state = Durable(cell')]
    BY <1>17 DEF CwStagedPhase
  <2>2. /\ DOMAIN disk' = {"state", "overrides"} /\ disk' = [f \in {"state", "overrides"} |-> disk'[f]]
        /\ disk'.overrides = disk.overrides
    BY <1>d, <2>1
  <2>3. IsCell(cell') /\ cell'.setting = cell.setting
    BY <1>0, <1>17, CycleKeeps DEF SameSetting
  <2> QED
    BY <1>17, <2>2, <2>3, SettingIdles DEF CwStagedPhase
<1>18. CASE CwFlushRead
  <2>1. /\ flush' = staging.value
        /\ UNCHANGED <<cell, txn, lane, batch, disk, written, staging, unsaved>>
    BY <1>18 DEF CwFlushRead
  <2> QED
    BY <2>1 DEF SettingInv, CellShape, SettingsReal, SettingFollows, KeptSetting
<1>19. CASE CwFlushWrite
  <2>1. /\ flush # NoOrder /\ flush' = NoOrder
        /\ UNCHANGED <<cell, txn, lane, batch, unsaved>>
    BY <1>19 DEF CwFlushWrite
  <2>2. CASE WriteOverrides(flush)
    <3>1. /\ disk' = [disk EXCEPT !.overrides = flush] /\ written' = flush
          /\ staging' = [value |-> NoOrder, due |-> 0]
      BY <2>2 DEF WriteOverrides, Unstaged
    <3>2. /\ disk' = [f \in {"state", "overrides"} |-> disk'[f]] /\ DOMAIN disk' = {"state", "overrides"}
          /\ disk'.overrides = flush
      BY <1>0, <3>1
    <3>3. /\ staging' = [f \in {"value", "due"} |-> staging'[f]] /\ DOMAIN staging' = {"value", "due"}
          /\ staging'.value = NoOrder
      BY <3>1
    <3>4. CellShape'
      BY <2>1, <3>2, <3>3 DEF SettingInv, CellShape
    <3>5. SettingsReal'
      BY <2>1, <3>2 DEF SettingInv, SettingsReal
    <3>6. SettingFollows'
      BY <2>1, <3>1, <3>2, <3>3 DEF SettingInv, SettingFollows, KeptSetting
    <3> QED BY <3>4, <3>5, <3>6 DEF SettingInv
  <2>3. CASE staging' = [staging EXCEPT !.due = MinInterval] /\ UNCHANGED <<disk, written, sinceSave>>
    <3>1. /\ staging' = [f \in {"value", "due"} |-> staging'[f]] /\ DOMAIN staging' = {"value", "due"}
          /\ staging'.value = staging.value
      BY <2>3 DEF SettingInv, CellShape
    <3> QED
      BY <2>1, <2>3, <3>1 DEF SettingInv, CellShape, SettingsReal, SettingFollows, KeptSetting
  <2> QED BY <1>19, <2>2, <2>3 DEF CwFlushWrite
<1>20. CASE CwClock
  <2>1. /\ staging' = [f \in {"value", "due"} |-> staging'[f]] /\ DOMAIN staging' = {"value", "due"}
        /\ staging'.value = staging.value
    BY <1>20 DEF CwClock, SettingInv, CellShape
  <2>2. UNCHANGED <<cell, txn, lane, batch, disk, written, flush, unsaved>>
    BY <1>20 DEF CwClock
  <2> QED
    BY <2>1, <2>2 DEF SettingInv, CellShape, SettingsReal, SettingFollows, KeptSetting
<1>21. CASE CwRestart
  <2>1. /\ cell' = CwRestored(disk) /\ txn' = IdleTxn /\ lane' = <<>> /\ batch' = <<>>
        /\ written' = disk.overrides /\ staging' = [value |-> NoOrder, due |-> 0]
        /\ flush' = NoOrder /\ unsaved' = FALSE /\ disk' = disk
    BY <1>21 DEF CwRestart, Unstaged
  <2>2. IsCell(cell') /\ cell'.setting = disk.overrides
    BY <2>1 DEF CwRestored, IsCell, CellFields
  <2>3. IsTxn(txn') /\ txn'.step = "idle"
    BY <2>1 DEF IdleTxn, IsTxn, TxnFields
  <2>4. /\ staging' = [f \in {"value", "due"} |-> staging'[f]] /\ DOMAIN staging' = {"value", "due"}
        /\ staging'.value = NoOrder
    BY <2>1
  <2>5. CellShape'
    BY <2>1, <2>2, <2>3, <2>4 DEF SettingInv, CellShape
  <2>6. SettingsReal'
    BY <2>1, <2>2, <2>3 DEF SettingInv, SettingsReal
  <2>7. SettingFollows'
    BY <2>1, <2>2, <2>3, <2>4 DEF SettingInv, SettingFollows, KeptSetting
  <2> QED BY <2>5, <2>6, <2>7 DEF SettingInv
<1>22. CASE UNCHANGED cwVars
  BY <1>22 DEF cwVars, SettingInv, CellShape, SettingsReal, SettingFollows, KeptSetting
<1> QED
  BY <1>1, <1>3, <1>4, <1>5, <1>6, <1>8, <1>9, <1>10, <1>11, <1>12, <1>13, <1>14, <1>15,
     <1>16, <1>17, <1>18, <1>19, <1>20, <1>21, <1>22 DEF CwNext, CwRun

(***************************************************************************)
(* The control writes: what the fields of the cell may be.                 *)
(***************************************************************************)
OnOff == {0, 1}
CellTyped(c) ==
    /\ IsCell(c)
    /\ c.pending \in {0, 1, NoOrder} /\ c.expected \in {0, 1, NoOrder} /\ c.reading \in {0, 1, NoOrder}
    /\ c.mode \in {"manual", "auto"} /\ c.enable \in OnOff /\ c.on \in OnOff

\* The saved state is that of some cell.
DiskTyped(d) ==
    /\ DOMAIN d = {"state", "overrides"} /\ d = [f \in {"state", "overrides"} |-> d[f]]
    /\ d.state.mode \in {"manual", "auto"} /\ d.state.enable \in OnOff /\ d.state.on \in OnOff

WriteTyped ==
    /\ CellShape /\ CellTyped(cell) /\ DiskTyped(disk)
    /\ txn.step \in {"idle", "execute", "save", "overrides", "commit", "inflight", "reject"}
    /\ txn.step # "idle" => CellTyped(txn.saved)
    /\ output \in OnOff /\ cwWish \in OnOff
    /\ Len(lane) <= QueueMax
    /\ staging.due \in 0 .. MinInterval /\ sinceSave \in 0 .. MinInterval

WriteNumbers == QueueMax \in Nat \ {0} /\ MinInterval \in Nat

LEMMA WriteConstants ==
    /\ WriteNumbers
    /\ \A c \in Commands_ : /\ c.target = "mode" => c.value \in {"manual", "auto"}
                            /\ c.target = "enable" => c.value \in OnOff
BY CwConstants DEF CwConstants, WriteNumbers, OnOff

LEMMA QueuedTyped ==
    ASSUME NEW c, CellTyped(c), NEW on \in OnOff
    PROVE  CellTyped(Queued(c, on)) /\ CellTyped([c EXCEPT !.on = on]) /\ CellTyped(Unexpected(c))
BY DEF Queued, Unexpected, CellTyped, IsCell, CellFields, OnOff

LEMMA HandledTyped ==
    ASSUME NEW command \in Commands_, CellTyped(cell), output \in OnOff, NEW r \in Handled(command)
    PROVE  CellTyped(r.cell) /\ r.output \in OnOff
<1> DEFINE Fine(o) == CellTyped(o.cell) /\ o.output \in OnOff
<1>1. \A c, o, e : CellTyped(c) /\ o \in OnOff => Fine(Outcome(c, o, e)) /\ Fine(Failure(c, o))
  BY DEF Outcome, Failure
<1> HIDE DEF Fine
<1>2. ASSUME NEW c, CellTyped(c), NEW on \in OnOff, NEW s \in ManualRequest(c, on)
      PROVE  Fine(s)
  <2>1. CellTyped([c EXCEPT !.on = on, !.enable = on])
    BY <1>2 DEF CellTyped, IsCell, CellFields
  <2>2. CellTyped(Queued([c EXCEPT !.on = on, !.enable = on], on))
    BY <1>2, <2>1, QueuedTyped
  <2> QED
    BY <1>1, <1>2, <2>1, <2>2 DEF ManualRequest, ChargerWrite
<1>3. CASE command.target = "mode"
  <2>1. command.value \in {"manual", "auto"} /\ r \in ModeWrite(command.value)
    BY <1>3, WriteConstants DEF Handled
  <2> DEFINE c == [cell EXCEPT !.mode = command.value]
  <2>2. CellTyped(c) /\ cell.enable \in OnOff
    BY <2>1 DEF CellTyped, IsCell, CellFields
  <2>0. CellTyped([c EXCEPT !.enable = 1, !.on = 0]) /\ 0 \in OnOff
    BY <2>2 DEF CellTyped, IsCell, CellFields, OnOff
  <2>3. CellTyped(Queued([c EXCEPT !.enable = 1, !.on = 0], 0))
    BY <2>0, QueuedTyped
  <2>4. r \in {Outcome(Queued([c EXCEPT !.enable = 1, !.on = 0], 0), output, TRUE)}
             \cup ManualRequest(c, cell.enable) \cup {Outcome(c, output, FALSE)}
    BY <2>1 DEF ModeWrite
  <2> HIDE DEF c
  <2>5. Fine(r)
    BY <1>1, <1>2, <2>2, <2>3, <2>4
  <2> QED BY <2>5 DEF Fine
<1>4. CASE command.target = "enable"
  <2>1. command.value \in OnOff /\ r \in EnableWrite(command.value)
    BY <1>4, WriteConstants DEF Handled
  <2>2. /\ CellTyped([cell EXCEPT !.enable = 1])
        /\ CellTyped([cell EXCEPT !.enable = 0, !.on = 0]) /\ 0 \in OnOff
    BY DEF CellTyped, IsCell, CellFields, OnOff
  <2>q. CellTyped(Queued([cell EXCEPT !.enable = 0, !.on = 0], 0))
    BY <2>2, QueuedTyped
  <2>3. r \in ManualRequest(cell, command.value) \cup {Outcome([cell EXCEPT !.enable = 1], output, FALSE)}
             \cup {Outcome(Queued([cell EXCEPT !.enable = 0, !.on = 0], 0), output, TRUE)}
    BY <2>1 DEF EnableWrite
  <2>4. Fine(r)
    BY <1>1, <1>2, <2>1, <2>2, <2>q, <2>3
  <2> QED BY <2>4 DEF Fine
<1>5. CASE command.target = "phase_selection"
  <2> DEFINE p == command.value
  <2>1. r \in PhaseWrite(p)
    BY <1>5 DEF Handled
  <2>2. /\ CellTyped([cell EXCEPT !.requested = p, !.staged = p]) /\ 0 \in OnOff
        /\ CellTyped([cell EXCEPT !.requested = p, !.active = p])
    BY DEF CellTyped, IsCell, CellFields, OnOff
  <2>q. CellTyped(Queued([cell EXCEPT !.requested = p, !.staged = p], 0))
    BY <2>2, QueuedTyped
  <2> HIDE DEF p
  <2>3. Fine(r)
    BY <1>1, <2>1, <2>2, <2>q DEF PhaseWrite
  <2> QED BY <2>3 DEF Fine
<1>6. CASE command.target \notin {"mode", "enable", "phase_selection"}
  <2>1. r \in SettingWrite(command.value) \cup CurrentWrite(command.value)
    BY <1>6 DEF Handled
  <2>2. CellTyped([cell EXCEPT !.setting = command.value])
    BY DEF CellTyped, IsCell, CellFields
  <2>3. Fine(r)
    BY <1>1, <2>1, <2>2 DEF SettingWrite, CurrentWrite
  <2> QED BY <2>3 DEF Fine
<1> QED BY <1>3, <1>4, <1>5, <1>6

\* The cycle switches the output, or queues, what a relay can be.
FineSwitch(r) == CellTyped(r.cell) /\ r.output \in OnOff

LEMMA SwitchedTyped ==
    ASSUME NEW c, CellTyped(c), output \in OnOff, NEW on \in OnOff, NEW r \in Switched(c, on)
    PROVE  FineSwitch(r)
<1>1. CellTyped([c EXCEPT !.on = on])
  BY QueuedTyped
<1>2. CellTyped(Queued([c EXCEPT !.on = on], on))
  BY <1>1, QueuedTyped
<1> QED BY <1>1, <1>2 DEF Switched, FineSwitch

LEMMA CycleTyped == WriteTyped /\ (CwCycle \/ CwStagedPhase) => CellTyped(cell') /\ output' \in OnOff
<1> SUFFICES ASSUME WriteTyped, CwCycle \/ CwStagedPhase PROVE CellTyped(cell') /\ output' \in OnOff
  OBVIOUS
<1>1. CellTyped(cell) /\ output \in OnOff /\ cwWish \in OnOff /\ {0, 1} \subseteq OnOff
  BY DEF WriteTyped, OnOff
<1>2. ASSUME NEW on \in OnOff, NEW r \in Decided(on) PROVE FineSwitch(r)
  BY <1>1, <1>2, SwitchedTyped DEF Decided, FineSwitch
<1>3. ASSUME NEW c, CellTyped(c) PROVE CellTyped(Unexpected(c))
  BY <1>1, <1>3, QueuedTyped
<1>4. CASE CwCycle
  <2>1. Wanted \in OnOff
    BY <1>1 DEF Wanted, OnOff
  <2>2. PICK r \in IF MustSwitch THEN Decided(Wanted) ELSE [cell : {cell}, output : {output}] :
          /\ output' = r.output
          /\ cell' \in {r.cell} \cup IF r.cell.pending = NoOrder THEN {Unexpected(r.cell)} ELSE {}
    BY <1>4 DEF CwCycle
  <2>3. FineSwitch(r)
    BY <1>1, <1>2, <2>1, <2>2 DEF FineSwitch
  <2> QED
    BY <1>3, <2>2, <2>3 DEF FineSwitch
<1>5. CASE CwStagedPhase
  <2> DEFINE phased == [cell EXCEPT !.active = cell.staged, !.requested = cell.staged, !.staged = NoPhase]
  <2>1. CellTyped(phased)
    BY <1>1 DEF CellTyped, IsCell, CellFields
  <2>2. PICK r \in IF cell.reading = 1 THEN Decided(0)
                   ELSE IF cell.mode = "manual" /\ cell.enable = 1 THEN Switched(phased, 1)
                   ELSE [cell : {phased}, output : {output}] :
          /\ output' = r.output
          /\ cell' \in {r.cell} \cup IF r.cell.pending = NoOrder THEN {Unexpected(r.cell)} ELSE {}
    BY <1>5 DEF CwStagedPhase
  <2> HIDE DEF phased
  <2>3. FineSwitch(r)
    BY <1>1, <1>2, <2>1, <2>2, SwitchedTyped DEF FineSwitch
  <2> QED
    BY <1>3, <2>2, <2>3 DEF FineSwitch
<1> QED BY <1>4, <1>5

LEMMA WithoutShorter ==
    ASSUME NEW q \in Seq(Commands_), NEW target
    PROVE  Len(WithoutTarget(q, target)) <= Len(q)
<1> DEFINE places == {i \in DOMAIN q : q[i].target = target}
<1>1. CASE places = {}
  BY <1>1 DEF WithoutTarget
<1>2. CASE places # {}
  <2> DEFINE k == CHOOSE i \in places : TRUE
  <2>1. k \in 1 .. Len(q)
    BY <1>2
  <2>2. WithoutTarget(q, target) = SubSeq(q, 1, k - 1) \o SubSeq(q, k + 1, Len(q))
    BY <1>2 DEF WithoutTarget, RemoveAt
  <2> HIDE DEF k, places
  <2> DEFINE s == SubSeq(q, 1, k - 1)
             t == SubSeq(q, k + 1, Len(q))
  <2>3. Len(s) = k - 1 /\ Len(t) = Len(q) - k /\ s \in Seq(Commands_) /\ t \in Seq(Commands_)
    BY <2>1
  <2>4. WithoutTarget(q, target) = s \o t
    BY <2>2
  <2>5. Len(q) \in Nat /\ k \in Int
    BY <2>1
  <2> HIDE DEF s, t
  <2>6. Len(s \o t) = Len(s) + Len(t)
    BY <2>3
  <2> QED BY <2>3, <2>4, <2>5, <2>6
<1> QED BY <1>1, <1>2

LEMMA EnqueuedFits ==
    ASSUME NEW q \in Seq(Commands_), Len(q) <= QueueMax, NEW command \in Commands_
    PROVE  Len(Enqueued(q, command)) <= QueueMax
<1> DEFINE rest == WithoutTarget(q, command.target)
           all == Append(rest, command)
<1>1. rest \in Seq(Commands_) /\ Len(rest) <= Len(q) /\ Len(rest) \in Nat /\ Len(q) \in Nat
  BY WithoutShape, WithoutShorter
<1> HIDE DEF rest
<1>2. all \in Seq(Commands_) /\ Len(all) = Len(rest) + 1
  BY <1>1
<1>3. Enqueued(q, command) = SubSeq(all, IF Len(all) > QueueMax THEN 2 ELSE 1, Len(all))
  BY DEF Enqueued, rest
<1> HIDE DEF all
<1>4. QueueMax \in Nat \ {0}
  BY WriteConstants DEF WriteNumbers
<1>5. CASE Len(all) > QueueMax
  <2>1. Len(SubSeq(all, 2, Len(all))) = Len(all) - 1
    BY <1>1, <1>2, <1>4, <1>5
  <2> QED BY <1>1, <1>2, <1>3, <1>4, <1>5, <2>1
<1>6. CASE Len(all) <= QueueMax
  <2>1. Len(SubSeq(all, 1, Len(all))) = Len(all)
    BY <1>1, <1>2
  <2> QED BY <1>1, <1>2, <1>3, <1>4, <1>6, <2>1
<1> QED BY <1>1, <1>2, <1>4, <1>5, <1>6

LEMMA WriteTypesKept == WriteTyped /\ SettingInv /\ [CwNext]_cwVars => WriteTyped'
<1> SUFFICES ASSUME WriteTyped, SettingInv, [CwNext]_cwVars PROVE WriteTyped'
  OBVIOUS
<1>0. CellShape'
  BY SettingStep DEF SettingInv
<1> DEFINE Steps == {"idle", "execute", "save", "overrides", "commit", "inflight", "reject"}
           Counters == /\ staging'.due \in 0 .. MinInterval /\ sinceSave' \in 0 .. MinInterval
<1>i. /\ IsTxn(txn) /\ IsCell(cell) /\ DiskTyped(disk) /\ MinInterval \in Nat
      /\ staging.due \in 0 .. MinInterval /\ sinceSave \in 0 .. MinInterval
  BY WriteConstants DEF WriteTyped, CellShape, CellTyped, WriteNumbers
\* the counters of the overrides
<1>c. /\ UNCHANGED <<staging, sinceSave>> => Counters
      /\ SaveUnchanged => Counters
      /\ \A v : WriteOverrides(v) => Counters
      /\ \A v, due : due \in 0 .. MinInterval /\ StageOverrides(v, due) => Counters
  BY <1>i DEF SaveUnchanged, WriteOverrides, StageOverrides, Unstaged
\* what a save leaves on disk
<1>d. ASSUME NEW c, CellTyped(c), NEW d, d = disk \/ d = [disk EXCEPT !.state = Durable(c)]
      PROVE  DiskTyped(d)
  BY <1>i, <1>d DEF DiskTyped, Durable, CellTyped
<1>o. ASSUME NEW v, disk' = [disk EXCEPT !.overrides = v]
      PROVE  DiskTyped(disk')
  BY <1>i, <1>o DEF DiskTyped
\* the transaction moves on
<1>t. ASSUME NEW next \in Steps, txn' = [txn EXCEPT !.step = next], txn.step # "idle"
      PROVE  txn'.step \in Steps /\ (txn'.step # "idle" => CellTyped(txn'.saved))
  BY <1>i, <1>t DEF IsTxn, TxnFields, WriteTyped
<1>n. ASSUME txn' = IdleTxn PROVE txn'.step = "idle"
  BY <1>n DEF IdleTxn
<1>1. ASSUME NEW command \in Commands_, CwEnqueue(command) PROVE WriteTyped'
  <2>1. lane \in Seq(Commands_) /\ Len(lane) <= QueueMax /\ lane' = Enqueued(lane, command)
    BY <1>1 DEF CwEnqueue, WriteTyped, CellShape
  <2>2. Len(lane') <= QueueMax
    BY <2>1, EnqueuedFits
  <2> QED BY <1>0, <1>1, <2>2 DEF CwEnqueue, WriteTyped
<1>2. ASSUME NEW command \in Commands_, NEW origin, Begin(command, origin),
             UNCHANGED <<cell, output, cwWish, lane, disk, staging, sinceSave>>
      PROVE  WriteTyped'
  <2>1. txn'.step = "execute" /\ txn'.saved = cell
    BY <1>2 DEF Begin
  <2> QED BY <1>0, <1>2, <2>1 DEF WriteTyped
<1>3. CASE CwDrain
  <2>1. Len(lane') <= QueueMax
    BY <1>3, WriteConstants DEF CwDrain, WriteNumbers
  <2> QED BY <1>0, <1>3, <2>1 DEF CwDrain, WriteTyped
<1>4. CASE CwBeginQueued
  <2>1. Head(batch) \in Commands_
    BY <1>4 DEF CwBeginQueued, SettingInv, CellShape
  <2> QED BY <1>2, <1>4, <2>1 DEF CwBeginQueued
<1>5. ASSUME NEW command \in Commands_, CwBeginHttp(command) PROVE WriteTyped'
  BY <1>2, <1>5 DEF CwBeginHttp
<1>6. CASE CwExecute
  <2>1. PICK r \in Handled(txn.command) :
           /\ cell' = r.cell /\ output' = r.output
           /\ txn' = [txn EXCEPT !.step = IF r.ok THEN "save" ELSE "reject", !.effect = r.effect]
    BY <1>6 DEF CwExecute
  <2>2. txn.step = "execute" /\ UNCHANGED <<cwWish, lane, disk, staging, sinceSave>>
    BY <1>6 DEF CwExecute
  <2>3. txn.command \in Commands_ /\ CellTyped(txn.saved)
    BY <2>2 DEF SettingInv, CellShape, WriteTyped
  <2>4. CellTyped(cell') /\ output' \in OnOff
    BY <2>1, <2>3, HandledTyped DEF WriteTyped
  <2>5. txn'.step \in {"save", "reject"} /\ txn'.saved = txn.saved
    BY <1>i, <2>1 DEF IsTxn, TxnFields
  <2> QED BY <1>0, <2>2, <2>3, <2>4, <2>5 DEF WriteTyped
<1>7. CASE CwSave
  <2>1. DiskTyped(disk')
    BY <1>7, <1>d DEF CwSave, WriteTyped
  <2>2. txn'.step \in Steps /\ (txn'.step # "idle" => CellTyped(txn'.saved))
    BY <1>7, <1>t DEF CwSave
  <2> QED BY <1>0, <1>7, <2>1, <2>2 DEF CwSave, WriteTyped
<1>8. CASE CwSaveRaises
  <2>1. txn'.step \in Steps /\ (txn'.step # "idle" => CellTyped(txn'.saved))
    BY <1>8, <1>t DEF CwSaveRaises
  <2> QED BY <1>0, <1>8, <2>1 DEF CwSaveRaises, WriteTyped
<1>9. CASE CwOverrides
  <2>1. txn'.step \in Steps /\ (txn'.step # "idle" => CellTyped(txn'.saved))
    BY <1>9, <1>t DEF CwOverrides
  <2>2. UNCHANGED <<cell, output, cwWish, lane>>
    BY <1>9 DEF CwOverrides
  <2>3. DueIn \in 0 .. MinInterval /\ MinInterval \in 0 .. MinInterval
    BY <1>i DEF DueIn
  <2>4. SaveUnchanged \/ (\E due \in 0 .. MinInterval : StageOverrides(cell.setting, due))
        \/ WriteOverrides(cell.setting)
    BY <1>9, <2>3 DEF CwOverrides
  <2>5. Counters
    BY <1>c, <2>4
  <2>6. DiskTyped(disk')
    <3>1. disk' = disk \/ disk' = [disk EXCEPT !.overrides = cell.setting]
      BY <2>4 DEF SaveUnchanged, StageOverrides, WriteOverrides
    <3> QED BY <1>i, <1>o, <3>1
  <2> QED BY <1>0, <2>1, <2>2, <2>5, <2>6 DEF WriteTyped
<1>10. CASE CwCommit
  <2>1. txn'.step \in Steps /\ (txn'.step # "idle" => CellTyped(txn'.saved))
    BY <1>10, <1>n, <1>t DEF CwCommit
  <2> QED BY <1>0, <1>10, <2>1 DEF CwCommit, WriteTyped
<1>11. CASE CwInFlight
  BY <1>0, <1>11, <1>n DEF CwInFlight, WriteTyped
<1>12. CASE CwReject
  BY <1>0, <1>12, <1>n DEF CwReject, WriteTyped
<1>13. CASE CwWorker
  <2>1. cell.pending \in OnOff /\ output' = cell.pending
    BY <1>13 DEF CwWorker, WriteTyped, CellTyped, OnOff
  <2>2. CellTyped([cell EXCEPT !.pending = NoOrder, !.reading = cell.pending])
    BY <2>1 DEF WriteTyped, CellTyped, IsCell, CellFields, OnOff
  <2> QED BY <1>0, <1>13, <2>1, <2>2 DEF CwWorker, WriteTyped
<1>14. CASE CwPoll
  <2>1. CellTyped([cell EXCEPT !.reading = output])
    BY DEF WriteTyped, CellTyped, IsCell, CellFields, OnOff
  <2> QED BY <1>0, <1>14, <2>1 DEF CwPoll, WriteTyped
<1>15. CASE CwCycle
  <2>1. CellTyped(cell') /\ output' \in OnOff
    BY <1>15, CycleTyped
  <2>2. DiskTyped(disk')
    BY <1>15, <1>d, <2>1 DEF CwCycle
  <2> QED BY <1>0, <1>15, <2>1, <2>2 DEF CwCycle, WriteTyped
<1>16. CASE CwStagedPhase
  <2>1. CellTyped(cell') /\ output' \in OnOff
    BY <1>16, CycleTyped
  <2>2. DiskTyped(disk')
    BY <1>16, <1>d, <2>1 DEF CwStagedPhase
  <2> QED BY <1>0, <1>16, <2>1, <2>2 DEF CwStagedPhase, WriteTyped
<1>17. CASE CwFlushRead
  BY <1>0, <1>17 DEF CwFlushRead, WriteTyped
<1>18. CASE CwFlushWrite
  <2>1. UNCHANGED <<cell, output, cwWish, txn, lane>>
    BY <1>18 DEF CwFlushWrite
  <2>2. CASE WriteOverrides(flush)
    <3>1. disk' = [disk EXCEPT !.overrides = flush]
      BY <2>2 DEF WriteOverrides
    <3>2. Counters /\ DiskTyped(disk')
      BY <1>c, <1>o, <2>2, <3>1
    <3> QED BY <1>0, <2>1, <3>2 DEF WriteTyped
  <2>3. CASE staging' = [staging EXCEPT !.due = MinInterval] /\ UNCHANGED <<disk, written, sinceSave>>
    <3>1. Counters
      BY <1>i, <2>3 DEF WriteTyped, CellShape
    <3> QED BY <1>0, <2>1, <2>3, <3>1 DEF WriteTyped
  <2> QED BY <1>18, <2>2, <2>3 DEF CwFlushWrite
<1>19. CASE CwClock
  <2>1. Counters
    BY <1>19, <1>i DEF CwClock, WriteTyped, CellShape
  <2> QED BY <1>0, <1>19, <2>1 DEF CwClock, WriteTyped
<1>20. CASE CwRestart
  <2>1. /\ cell' = CwRestored(disk) /\ txn' = IdleTxn /\ lane' = <<>> /\ UNCHANGED <<output, cwWish, disk>>
        /\ staging' = [value |-> NoOrder, due |-> 0] /\ sinceSave' = MinInterval
    BY <1>20 DEF CwRestart, Unstaged
  <2>2. CellTyped(cell')
    BY <1>i, <2>1 DEF CwRestored, DiskTyped, CellTyped, IsCell, CellFields
  <2>3. Len(lane') <= QueueMax
    BY <2>1, WriteConstants DEF WriteNumbers
  <2>4. Counters
    BY <1>i, <2>1
  <2> QED BY <1>0, <1>n, <2>1, <2>2, <2>3, <2>4 DEF WriteTyped
<1>21. CASE UNCHANGED cwVars
  BY <1>0, <1>21 DEF cwVars, WriteTyped
<1> QED
  BY <1>1, <1>3, <1>4, <1>5, <1>6, <1>7, <1>8, <1>9, <1>10, <1>11, <1>12, <1>13, <1>14, <1>15,
     <1>16, <1>17, <1>18, <1>19, <1>20, <1>21 DEF CwNext, CwRun

LEMMA WriteStarts == CwInit => SettingInv /\ WriteTyped
<1> SUFFICES ASSUME CwInit PROVE SettingInv /\ WriteTyped
  OBVIOUS
<1>1. /\ CellTyped(cell) /\ cell.setting = 0 /\ output \in OnOff /\ cwWish \in OnOff
      /\ cell.mode \in {"manual", "auto"} /\ cell.enable = output /\ cell.on = output
  BY DEF CwInit, CellTyped, IsCell, CellFields, OnOff
<1>2. IsTxn(txn) /\ txn.step = "idle"
  BY DEF CwInit, IdleTxn, IsTxn, TxnFields
<1>3. /\ staging = [value |-> NoOrder, due |-> 0] /\ written = 0 /\ lane = <<>> /\ batch = <<>>
      /\ disk = [state |-> Durable(cell), overrides |-> 0] /\ flush = NoOrder /\ sinceSave = MinInterval
  BY DEF CwInit
<1>4. /\ DOMAIN staging = {"value", "due"} /\ staging = [f \in {"value", "due"} |-> staging[f]]
      /\ staging.value = NoOrder /\ staging.due = 0
  BY <1>3
<1>5. DiskTyped(disk) /\ disk.overrides = 0
  BY <1>1, <1>3 DEF DiskTyped, Durable
<1>6. MinInterval \in Nat /\ QueueMax \in Nat \ {0} /\ NoOrder # 0
  BY WriteConstants DEF WriteNumbers, NoOrder
<1>7. CellShape
  BY <1>1, <1>2, <1>3, <1>4, <1>5 DEF CellShape, CellTyped, DiskTyped
<1>8. SettingInv
  BY <1>1, <1>2, <1>3, <1>4, <1>5, <1>6, <1>7 DEF SettingInv, SettingsReal, SettingFollows, KeptSetting
<1>9. Len(lane) <= QueueMax /\ staging.due \in 0 .. MinInterval /\ sinceSave \in 0 .. MinInterval
  BY <1>3, <1>4, <1>6
<1> QED BY <1>1, <1>2, <1>5, <1>7, <1>8, <1>9 DEF WriteTyped

LEMMA WriteIsTyped == WriteTyped => CwTypeOK
BY DEF WriteTyped, CellTyped, CwTypeOK, OnOff

\* For any commands, intervals, failures and restarts: the cell, its snapshot and
\* what is saved of it hold values of their kind (update/control_write*.py).
THEOREM WritesAreTyped == CwSpec => []CwTypeOK
BY WriteIsTyped, WriteStarts, WriteTypesKept, SettingStep, PTL DEF CwSpec

\* For any commands, intervals and restarts: between commands a setting is in the
\* overrides file or staged for it (state_runtime_overrides.py).
THEOREM SettingsReachDisk == CwSpec => []SettingReachesDisk
<1>1. CwInit => SettingInv
  BY WriteStarts
<1>2. SettingInv /\ [CwNext]_cwVars => SettingInv'
  BY SettingStep
<1>3. SettingInv => SettingReachesDisk
  BY DEF SettingInv, SettingFollows, KeptSetting, SettingReachesDisk
<1> QED BY <1>1, <1>2, <1>3, PTL DEF CwSpec

(***************************************************************************)
(* The components side by side.                                            *)
(***************************************************************************)
ProgressIInv ==
    part \in Parts /\ TickInv /\ VouchInv /\ SettingInv /\ WriteTyped

\* One component moves, the others stand still.
LEMMA ProgressSteps ==
    ASSUME [BundleNext]_bundleVars
    PROVE  /\ part' = part
           /\ [Next]_vars /\ [TickNext]_tickVars /\ [AiNext]_aiVars /\ [CwNext]_cwVars
<1>1. CASE part = "publication" /\ Next /\ Others("publication")
  BY <1>1 DEF Others
<1>2. CASE part = "tick" /\ TickNext /\ Others("tick")
  BY <1>2 DEF Others
<1>3. CASE part = "helper" /\ AiNext /\ Others("helper")
  BY <1>3 DEF Others
<1>4. CASE part = "write" /\ CwNext /\ Others("write")
  BY <1>4 DEF Others
<1>5. CASE UNCHANGED bundleVars
  BY <1>5 DEF bundleVars
<1> QED BY <1>1, <1>2, <1>3, <1>4, <1>5 DEF BundleNext

\* For every value of the constants: no read is forgotten, only the running helper
\* vouches for itself, and the control writes keep their types.
THEOREM ProgressKeeps == ProgressSpec => []ProgressInv
<1>1. BundleInit => ProgressIInv
  BY TickStarts, VouchStarts, WriteStarts DEF BundleInit, ProgressIInv
<1>2. ProgressIInv /\ [BundleNext]_bundleVars => ProgressIInv'
  BY ProgressSteps, TickKeeps, VouchKeeps, SettingStep, WriteTypesKept DEF ProgressIInv
<1>3. ProgressIInv => ProgressInv
  <2> SUFFICES ASSUME ProgressIInv PROVE ProgressInv
    OBVIOUS
  <2>1. TickTypeOK /\ AiTypeOK /\ HelperVouches /\ CwTypeOK
    BY TickTyped, VouchTyped, WriteIsTyped DEF ProgressIInv
  <2> QED BY <2>1 DEF ProgressIInv, ProgressInv, Parts
<1> QED BY <1>1, <1>2, <1>3, PTL DEF ProgressSpec
=============================================================================
