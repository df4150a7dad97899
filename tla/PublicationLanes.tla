-------------------------- MODULE PublicationLanes --------------------------
(***************************************************************************)
(* Publication of transient fields (live GUI values) from the core to the  *)
(* gateway, for one coalesce key.  A publication is sent over the socket;  *)
(* without an acknowledgement the client stores it in the command mailbox, *)
(* so the same values may arrive twice, late and over two lanes.  Every    *)
(* publication carries an order; FastPublicationQueue and                  *)
(* PublicationOrderHistory arbitrate field by field.                       *)
(*                                                                         *)
(* A field's value is represented by the order of its publication (0: no   *)
(* value).  Publications of a key are issued one after the other.  The     *)
(* gateway is one GLib thread: between two of its actions only the client  *)
(* moves.                                                                  *)
(***************************************************************************)
EXTENDS Integers

CONSTANTS
    Fields,
    NoFile, NoClient,
    MaxOrders,    \* bound: publications issued
    MaxCrashes    \* bound: gateway crashes

Orders == 0 .. MaxOrders
Publication == [order : Orders, fields : SUBSET Fields]
File == [orders : [Fields -> Orders], rev : Orders,
         since : Orders,     \* the publication that created the file
         late : BOOLEAN]     \* more than 30 s ago
Mark == [order : Orders, lane : {"fast", "durable"}]
NoMark == [order |-> 0, lane |-> "durable"]

ASSUME LanesAssumption ==
    /\ MaxOrders \in Nat /\ MaxCrashes \in Nat
    /\ NoFile \notin File /\ NoClient \notin Publication

VARIABLES
    issued,     \* transport orders drawn
    client,     \* the publication waiting for its acknowledgement
    socket,     \* frames on their way to the gateway
    file,       \* the mailbox file of the key
    ticking,    \* inside a tick of the gateway
    seen,       \* the file as loaded by this tick
    queue,      \* FastPublicationQueue: the queued value of each field
    marks,      \* PublicationOrderHistory in memory
    journal,    \* its durable marks on tmpfs
    applied,    \* the values of the DBus service
    guarded,    \* history: the highest order written to the journal and not
                \* dropped since by a compaction
    owed,       \* history: the newest accepted value of each field that was
                \* neither shown since nor lost to its deadline or a crash
    crashes

vars == <<issued, client, socket, file, ticking, seen, queue, marks, journal, applied,
          guarded, owed, crashes>>
history == <<guarded, owed>>

tick == <<ticking, seen>>
Snapshot == seen # NoFile

Nothing == [f \in Fields |-> 0]
Raise(orders, F, n) == [f \in Fields |-> IF f \in F /\ n > orders[f] THEN n
                                         ELSE orders[f]]
(* A field is owed what was accepted for it and is newer than what it shows. *)
Owe(F, n) == [f \in Fields |-> IF f \in F /\ n > applied[f] /\ n > owed[f] THEN n
                               ELSE owed[f]]
Settle(orders) == [f \in Fields |-> IF owed[f] <= orders[f] THEN 0 ELSE owed[f]]
Stored(f) == IF file = NoFile THEN 0 ELSE file.orders[f]
Larger(a, b) == [f \in Fields |-> IF a[f] > b[f] THEN a[f] ELSE b[f]]

Init ==
    /\ issued = 0 /\ client = NoClient /\ socket = {}
    /\ file = NoFile /\ ticking = FALSE /\ seen = NoFile
    /\ queue = Nothing /\ marks = [f \in Fields |-> NoMark] /\ journal = Nothing
    /\ applied = Nothing
    /\ guarded = Nothing /\ owed = Nothing
    /\ crashes = 0

-----------------------------------------------------------------------------
(* The client: enqueue_command and _send_fast_publication. *)
Publish(F) ==
    LET p == [order |-> issued + 1, fields |-> F] IN
    /\ client = NoClient /\ issued < MaxOrders
    /\ issued' = issued + 1
    /\ client' = p
    /\ socket' = socket \cup {p}
    /\ UNCHANGED <<file, tick, queue, marks, journal, applied, history, crashes>>

(* A live publication is sent a second time when the first attempt was not *)
(* acknowledged: _enqueue_live_before_backpressure, then                   *)
(* _enqueue_admitted_command, with the same order.                         *)
Resend ==
    /\ client # NoClient
    /\ socket' = socket \cup {client}
    /\ UNCHANGED <<issued, client, file, tick, queue, marks, journal, applied, history,
                   crashes>>

(* merge_coalesced: newer fields win; the file keeps its creation time. *)
MergedFile(p) ==
    IF file = NoFile
    THEN [orders |-> Raise(Nothing, p.fields, p.order), rev |-> p.order,
          since |-> p.order, late |-> FALSE]
    ELSE [file EXCEPT !.orders = Raise(@, p.fields, p.order), !.rev = p.order]

(* _enqueue_durable_command after a timeout or a refusal of the socket. *)
Fallback ==
    /\ client # NoClient
    /\ file' = MergedFile(client)
    /\ owed' = Owe(client.fields, client.order)
    /\ client' = NoClient
    /\ UNCHANGED <<issued, socket, tick, queue, marks, journal, applied,
                   guarded, crashes>>

(* Refused as well: backpressure, mailbox lock; or the core died. *)
GiveUp ==
    /\ client # NoClient
    /\ client' = NoClient
    /\ UNCHANGED <<issued, socket, file, tick, queue, marks, journal, applied,
                   history, crashes>>

-----------------------------------------------------------------------------
Mutant_FastAny(p) == p.fields   \* mutant: the marks are not consulted

(* The gateway's socket: _fast_order_claim_blocked, _with_claimed_marks    *)
(* and _merged_work.                                                       *)
FastAccepted(p) == {f \in p.fields : p.order > marks[f].order}

Answer(p) == client' \in {client} \cup (IF client = p THEN {NoClient} ELSE {})

Accept(p) ==
    LET F == FastAccepted(p) IN
    /\ ~ticking
    /\ socket' = socket \ {p}
    /\ queue' = Raise(queue, F, p.order)
    /\ marks' = [f \in Fields |-> IF f \in F THEN [order |-> p.order, lane |-> "fast"]
                                  ELSE marks[f]]
    /\ owed' = Owe(F, p.order)
    /\ Answer(p)
    /\ UNCHANGED <<issued, file, tick, journal, applied, guarded, crashes>>

(* queue-full, order-history-full, payload limits, or the frame is lost. *)
Reject(p) ==
    /\ ~ticking
    /\ socket' = socket \ {p}
    /\ UNCHANGED <<issued, client, file, tick, queue, marks, journal, applied,
                   history, crashes>>

(* release_fast: only a fast mark of exactly this order is released. *)
Released(f, n) == IF marks[f] = [order |-> n, lane |-> "fast"] THEN NoMark ELSE marks[f]

(***************************************************************************)
(* When the deadline of publication n, or a longer one, has passed, older  *)
(* publications have left the client (0.5 s) and the socket, and a file    *)
(* they created is past its 30 s.                                          *)
(***************************************************************************)
Outlived(n) ==
    /\ file # NoFile /\ file.since < n => file.late
    /\ client # NoClient => client.order > n
    /\ \A p \in socket : p.order > n

(* _prune_expired: the 30 s of a queued field are over. *)
ExpireFast(f) ==
    /\ queue[f] # 0
    /\ Outlived(queue[f])
    /\ queue' = [queue EXCEPT ![f] = 0]
    /\ marks' = [marks EXCEPT ![f] = Released(f, queue[f])]
    /\ owed' = IF Stored(f) < queue[f]
               THEN Settle([Nothing EXCEPT ![f] = queue[f]]) ELSE owed
    /\ UNCHANGED <<issued, client, socket, file, tick, journal, applied,
                   guarded, crashes>>

-----------------------------------------------------------------------------
(* The gateway's tick. *)
BeginTick ==
    /\ ~ticking
    /\ ticking' = TRUE /\ seen' = file
    /\ UNCHANGED <<issued, client, socket, file, queue, marks, journal, applied,
                   history, crashes>>

Stop == ticking' = FALSE /\ seen' = NoFile

EndTick ==
    /\ ticking
    /\ Stop
    /\ UNCHANGED <<issued, client, socket, file, queue, marks, journal, applied,
                   history, crashes>>

(***************************************************************************)
(* _compact_state, once the journal has outgrown its 64 KiB: a new base of *)
(* the durable marks in m replaces base and journal.  A field that a       *)
(* queued newer value has reserved carries a fast mark: the durable one it *)
(* had is not written, and nothing guards the field until the queued value *)
(* is shown.                                                               *)
(***************************************************************************)
Compact(m) ==
    /\ journal' = [f \in Fields |-> IF m[f].lane = "durable" THEN m[f].order ELSE 0]
    /\ guarded' = [f \in Fields |-> IF m[f].lane = "fast" THEN 0
                                    ELSE IF guarded[f] > m[f].order THEN guarded[f]
                                    ELSE m[f].order]

(***************************************************************************)
(* checkpoint_publication_order_marks for the confirmed fields F, m being  *)
(* all marks: append, and compact when the journal has grown.  The write   *)
(* may fail; the marks in memory are kept.                                 *)
(***************************************************************************)
Checkpoint(F, orders, m) ==
    \/ UNCHANGED <<journal, guarded>>
    \/ /\ journal' = [f \in Fields |-> IF f \in F THEN orders[f] ELSE journal[f]]
       /\ guarded' = Larger(guarded, journal')
    \/ Compact(m)

(* The same for the fields of another key: only a compaction matters here. *)
CheckpointElsewhere ==
    /\ ticking
    /\ Compact(marks)
    /\ UNCHANGED <<issued, client, socket, file, tick, queue, marks, applied,
                   owed, crashes>>

(* pop_next, the publication, and confirm_fast_applied for the marks that  *)
(* still carry the applied order.                                          *)
ApplyFast ==
    LET F == {f \in Fields : queue[f] # 0}
        confirmed == {f \in F : marks[f] = [order |-> queue[f], lane |-> "fast"]}
    IN
    /\ ticking /\ F # {}
    /\ applied' = [f \in Fields |-> IF f \in F THEN queue[f] ELSE applied[f]]
    /\ marks' = [f \in Fields |-> IF f \in confirmed THEN [marks[f] EXCEPT !.lane = "durable"]
                                  ELSE marks[f]]
    /\ Checkpoint(confirmed, queue, marks')
    /\ queue' = Nothing
    /\ owed' = Settle(queue)
    /\ UNCHANGED <<issued, client, socket, file, tick, crashes>>

Mutant_RemoveByName(s) == file' = NoFile   \* mutant: unlink without the revision

(* remove_if_current *)
RemovePending(s) == file' = IF file # NoFile /\ file.rev = s.rev THEN NoFile ELSE file

(* _drop_expired_command *)
DropExpired ==
    LET s == seen IN
    /\ Snapshot /\ s.late
    /\ RemovePending(s)
    /\ Stop
    /\ owed' = Settle([f \in Fields |-> IF s.orders[f] = queue[f] THEN 0 ELSE s.orders[f]])
    /\ UNCHANGED <<issued, client, socket, queue, marks, journal, applied,
                   guarded, crashes>>

Present(s) == {f \in Fields : s.orders[f] # 0}

Mutant_WaitsForMark(s) ==   \* mutant: waits for the mark, not for queued work
    \E f \in Present(s) : s.orders[f] <= marks[f].order

(* _durable_waits_for_fast *)
WaitsForFast(s) == \E f \in Present(s) : queue[f] # 0 /\ s.orders[f] <= queue[f]

(* _durable_order_claim_blocked *)
DurableAccepted(s) ==
    {f \in Present(s) : \/ s.orders[f] > marks[f].order
                        \/ s.orders[f] = marks[f].order /\ marks[f].lane = "durable"}

(* prepare_durable accepts nothing: _drop_superseded_publication. *)
DropSuperseded ==
    LET s == seen IN
    /\ Snapshot /\ ~s.late /\ ~WaitsForFast(s)
    /\ DurableAccepted(s) = {}
    /\ RemovePending(s)
    /\ Stop
    /\ UNCHANGED <<issued, client, socket, queue, marks, journal, applied,
                   history, crashes>>

(* The fallback is published; record_durable_outcome, then retirement. *)
ApplyDurable ==
    LET s == seen
        F == DurableAccepted(s)
    IN
    /\ Snapshot /\ ~s.late /\ ~WaitsForFast(s)
    /\ F # {}
    /\ applied' = [f \in Fields |-> IF f \in F THEN s.orders[f] ELSE applied[f]]
    /\ marks' = [f \in Fields |-> IF f \in F THEN [order |-> s.orders[f], lane |-> "durable"]
                                  ELSE marks[f]]
    /\ Checkpoint(F, s.orders, marks')
    /\ queue' = [f \in Fields |-> IF f \in F THEN 0 ELSE queue[f]]
    /\ owed' = Settle([f \in Fields |-> IF f \in F THEN s.orders[f] ELSE 0])
    /\ RemovePending(s)
    /\ Stop
    /\ UNCHANGED <<issued, client, socket, crashes>>

-----------------------------------------------------------------------------
(* Time.  The deadline of the file passes ... *)
FileExpires ==
    /\ file # NoFile /\ ~file.late
    /\ file' = [file EXCEPT !.late = TRUE]
    /\ seen' = IF Snapshot THEN [seen EXCEPT !.late = TRUE] ELSE seen
    /\ UNCHANGED <<issued, client, socket, ticking, queue, marks, journal, applied,
                   history, crashes>>

(* ... and the 60 s of an inactive mark, by which time a fallback of the   *)
(* marked publication itself is past its 30 s.                             *)
PastRetry(n) == file # NoFile /\ file.since = n => file.late

Mutant_ForgetActive(f) ==   \* mutant: marks of queued fields are pruned too
    /\ marks[f] # NoMark
    /\ Outlived(marks[f].order) /\ PastRetry(marks[f].order)
    /\ marks' = [marks EXCEPT ![f] = NoMark]
    /\ UNCHANGED <<issued, client, socket, file, tick, queue, journal, applied,
                   history, crashes>>

ForgetMark(f) ==
    /\ marks[f] # NoMark /\ queue[f] = 0
    /\ Outlived(marks[f].order) /\ PastRetry(marks[f].order)
    /\ marks' = [marks EXCEPT ![f] = NoMark]
    /\ UNCHANGED <<issued, client, socket, file, tick, queue, journal, applied,
                   history, crashes>>

ForgetJournal(f) ==
    /\ journal[f] # 0
    /\ Outlived(journal[f]) /\ PastRetry(journal[f])
    /\ journal' = [journal EXCEPT ![f] = 0]
    /\ UNCHANGED <<issued, client, socket, file, tick, queue, marks, applied,
                   history, crashes>>

Mutant_CrashForgets ==   \* mutant: the journal is not read back
    /\ crashes < MaxCrashes
    /\ crashes' = crashes + 1
    /\ socket' = {} /\ Stop /\ queue' = Nothing /\ applied' = Nothing
    /\ marks' = [f \in Fields |-> NoMark]
    /\ owed' = Settle([f \in Fields |-> IF Stored(f) < queue[f] THEN queue[f] ELSE 0])
    /\ UNCHANGED <<issued, client, file, journal, guarded>>

(* The gateway and its DBus service die; load_publication_order_marks. *)
Crash ==
    /\ crashes < MaxCrashes
    /\ crashes' = crashes + 1
    /\ socket' = {} /\ Stop /\ queue' = Nothing /\ applied' = Nothing
    /\ marks' = [f \in Fields |-> [order |-> journal[f], lane |-> "durable"]]
    /\ owed' = Settle([f \in Fields |-> IF Stored(f) < queue[f] THEN queue[f] ELSE 0])
    /\ UNCHANGED <<issued, client, file, journal, guarded>>

Tick == ApplyFast \/ DropExpired \/ DropSuperseded \/ ApplyDurable

Next ==
    \/ \E F \in (SUBSET Fields) \ {{}} : Publish(F)
    \/ Resend \/ Fallback \/ GiveUp
    \/ \E p \in socket : Accept(p) \/ Reject(p)
    \/ BeginTick \/ EndTick \/ Tick \/ CheckpointElsewhere
    \/ FileExpires
    \/ \E f \in Fields : ExpireFast(f) \/ ForgetMark(f) \/ ForgetJournal(f)
    \/ Crash

(***************************************************************************)
(* The client does not wait for ever, the gateway keeps ticking, and the   *)
(* scheduler's budget does not deny the same publication for ever.         *)
(***************************************************************************)
Fairness ==
    /\ WF_vars(Fallback \/ GiveUp)
    /\ WF_vars(BeginTick) /\ WF_vars(EndTick \/ Tick)
    /\ SF_vars(ApplyFast) /\ SF_vars(DropExpired \/ DropSuperseded \/ ApplyDurable)

Spec == Init /\ [][Next]_vars /\ Fairness

-----------------------------------------------------------------------------
(* The types of the variables. *)
TypeOK ==
    /\ issued \in Orders
    /\ client \in Publication \cup {NoClient}
    /\ socket \subseteq Publication
    /\ file \in File \cup {NoFile}
    /\ ticking \in BOOLEAN /\ seen \in File \cup {NoFile}
    /\ queue \in [Fields -> Orders]
    /\ marks \in [Fields -> Mark]
    /\ journal \in [Fields -> Orders]
    /\ applied \in [Fields -> Orders]
    /\ guarded \in [Fields -> Orders] /\ owed \in [Fields -> Orders]
    /\ crashes \in 0 .. MaxCrashes

(***************************************************************************)
(* The inductive invariant.  Every order is one that was issued, and the   *)
(* client waits for the newest one; a field of a file is not older than    *)
(* the file.                                                               *)
(***************************************************************************)
FileOK(s) ==
    /\ 0 < s.since /\ s.since <= s.rev /\ s.rev <= issued
    /\ \A f \in Fields : s.orders[f] # 0 => s.since <= s.orders[f] /\ s.orders[f] <= s.rev

IssuedOK ==
    /\ client # NoClient => client.order = issued /\ issued # 0
    /\ \A p \in socket : 0 < p.order /\ p.order <= issued
    /\ file # NoFile => FileOK(file)
    /\ file # NoFile /\ client # NoClient => file.rev < client.order

(* The snapshot of a tick is the file, or the file before a later merge. *)
SnapshotOK ==
    Snapshot =>
        /\ FileOK(seen)
        /\ file # NoFile
        /\ file.since = seen.since /\ file.late = seen.late /\ seen.rev <= file.rev
        /\ \A f \in Fields : seen.orders[f] <= file.orders[f]
        /\ file.rev = seen.rev => file.orders = seen.orders

(***************************************************************************)
(* The rest speaks of one field.  What must not come back is the value     *)
(* shown, and the one the journal holds or held as long as no compaction   *)
(* dropped it.                                                             *)
(***************************************************************************)
Above(f, n) == n >= applied[f] /\ n >= guarded[f]

MarkOK(f) ==
    /\ marks[f].order <= issued /\ applied[f] <= issued
    /\ journal[f] <= guarded[f] /\ guarded[f] <= issued
    /\ marks[f].order # 0 => Above(f, marks[f].order)

(* A fast mark and a queued value are one reservation, newer than anything shown. *)
Reserved(f) ==
    /\ queue[f] # 0 => marks[f].order = queue[f] /\ marks[f].lane = "fast"
    /\ marks[f].lane = "fast" =>
          /\ queue[f] = marks[f].order /\ queue[f] # 0
          /\ applied[f] < queue[f] /\ guarded[f] < queue[f]

(* Whatever can still arrive is newer, or a mark blocks it ... *)
Blocked(s, f) == s.orders[f] = 0 \/ Above(f, s.orders[f]) \/ s.orders[f] < marks[f].order
Covered(f) ==
    /\ \A p \in socket : f \in p.fields =>
          (applied[f] < p.order /\ guarded[f] < p.order) \/ p.order <= marks[f].order
    /\ client # NoClient /\ f \in client.fields =>
          \/ applied[f] < client.order /\ guarded[f] < client.order
          \/ client.order <= marks[f].order
    /\ file # NoFile => file.late \/ Blocked(file, f)
    /\ Snapshot => seen.late \/ Blocked(seen, f)

(* ... and a restart finds the same protection in the journal. *)
Restorable(s, f) == \/ s.orders[f] = 0 \/ s.orders[f] >= guarded[f]
                    \/ s.orders[f] < journal[f]
JournalOK(f) ==
    /\ journal[f] = 0 \/ journal[f] = guarded[f]
    /\ client # NoClient /\ f \in client.fields =>
          guarded[f] < client.order \/ client.order <= journal[f]
    /\ file # NoFile => file.late \/ Restorable(file, f)
    /\ Snapshot => seen.late \/ Restorable(seen, f)

(* What is owed is not older than what was shown or recorded, and it is kept. *)
OwedOK(f) ==
    owed[f] # 0 => /\ owed[f] >= journal[f]
                   /\ marks[f].lane = "durable" => owed[f] >= marks[f].order
Kept(f) == owed[f] <= queue[f] \/ owed[f] <= Stored(f)

FieldOK(f) == MarkOK(f) /\ Reserved(f) /\ Covered(f) /\ JournalOK(f) /\ OwedOK(f) /\ Kept(f)

IInv == TypeOK /\ IssuedOK /\ SnapshotOK /\ \A f \in Fields : FieldOK(f)

(***************************************************************************)
(* No value is revived: what the service shows for a field is never        *)
(* replaced by an older publication, whichever lane it came by.            *)
(***************************************************************************)
NeverRevived ==
    [][\A f \in Fields :
          applied'[f] \notin {0, applied[f]} => applied'[f] > applied[f]]_vars

(***************************************************************************)
(* Nor by a restart: a gateway that finds the marks of its predecessor     *)
(* shows nothing older than the last value that was checkpointed for the   *)
(* field, whatever was appended, compacted or forgotten in between.        *)
(* "Its protective high-water mark always outlives the fallback it guards" *)
(* (DBUS_GATEWAY.md) says more than the code keeps: a compaction while a   *)
(* newer value of the field is queued drops its mark, after which a crash  *)
(* leaves the field unguarded.  guarded is 0 from there to the next        *)
(* checkpoint of the field.                                                *)
(***************************************************************************)
RestartNeverRevives ==
    [][\A f \in Fields : applied'[f] # applied[f] =>
          applied'[f] = 0 \/ applied'[f] >= guarded[f]]_vars

(***************************************************************************)
(* No accepted value is lost by the arbitration: until the newest one of a *)
(* field is shown it, or a newer one, is queued or stored, unless its      *)
(* deadline passed or only a gateway that crashed knew it.  "Durable fall- *)
(* backs therefore remain authoritative after a gateway crash before       *)
(* apply" (fast_publication.py).                                           *)
(***************************************************************************)
NewestKept == \A f \in Fields : Kept(f)

(***************************************************************************)
(* The lanes do not wait for each other for ever: a stored fallback is     *)
(* eventually applied or dropped.                                          *)
(***************************************************************************)
FallbackResolved ==
    \A n \in 1 .. MaxOrders :
        (file # NoFile /\ file.rev = n) ~> (file = NoFile \/ file.rev # n)
=============================================================================
