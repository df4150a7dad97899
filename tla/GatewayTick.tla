---------------------------- MODULE GatewayTick ----------------------------
(***************************************************************************)
(* The work tick of the DBus gateway: at most one bus operation is started *)
(* per tick (dbus_adapter/process/loop.py), chosen among durable commands  *)
(* (write/core.py), scheduled reads (scheduling.py) and service discovery. *)
(* What protects a read from a command that is deferred over and over is   *)
(* the budget per queue class and one-second window, and the priority of   *)
(* reads whose core values have become too old. Due reads are taken in the *)
(* order of their due times, but keys forced due come before all others,   *)
(* and an aggregate read takes one operation for each member.              *)
(* Time is counted in ticks: a budget window is WindowTicks ticks long.    *)
(***************************************************************************)
EXTENDS Integers, Sequences, SequencesExt, FiniteSets

CONSTANTS
    Reads,          \* scheduled read keys, numbered in configuration order
    CoreReads,      \* CORE_ENERGY_READ_KEYS: reads whose age is watched
    Members,        \* [Reads -> members of an aggregate read, 0 of a direct one]
    OptionalReads,  \* reads that survive an error of a member or of themselves
    Commands,       \* durable commands that may be pending
    Priority,       \* [Commands -> name of PRIORITY_RANKS]
    QueueClass,     \* [Commands -> queue class]
    Budget,         \* [queue class -> operations per window]
    WindowTicks,    \* ticks in the one-second budget window
    ReadTicks,      \* a successful read is due again after so many ticks
    RetryTicks,     \* a failed one after so many
    ScanTicks,      \* a discovery is due again after so many
    SloTicks,       \* age in ticks at which a core read has priority
    Refresh         \* the refresh_energy_inputs command

ASSUME TickAssumption ==
    /\ Reads \subseteq Nat /\ IsFiniteSet(Reads)
    /\ CoreReads \subseteq Reads /\ OptionalReads \subseteq Reads /\ Members \in [Reads -> Nat]
    /\ Priority \in [Commands -> {"safety", "user", "publish", "read", "optional", "discovery", "diagnostic"}]
    /\ {WindowTicks, ReadTicks, RetryTicks, ScanTicks, SloTicks} \subseteq Nat \ {0}

VARIABLES
    pend,        \* commands in the mailbox
    window,      \* queue class recorded in each of the last ticks
    wait,        \* ticks until a read key is due
    overdue,     \* the due read keys, longest due first
    front,       \* keys whose next_read_at is 0.0: due before the others
    failed,      \* keys whose failure_counts is not 0
    unread,      \* members of a pending aggregate still to be read
    age,         \* ticks since each core read was last updated
    held,        \* core reads whose value is an estimate (status "stale")
    preferRead,  \* _prefer_read_next
    flight,      \* the operation of the broker
    rested,      \* the rate limiter admits an operation again
    circuit,     \* DbusCircuitBreaker.state
    registered,  \* the EVCS service is registered
    services,    \* the cache holds a service list
    scan         \* ticks until service discovery is due

readVars == <<wait, overdue, front, failed, unread, age, held>>
tickVars == <<pend, window, readVars, preferRead, flight, rested,
              circuit, registered, services, scan>>

Idle == [op |-> "none", of |-> 0]
Ranks == [safety |-> 0, user |-> 1, publish |-> 2, read |-> 3,
          optional |-> 4, discovery |-> 5, diagnostic |-> 6]
Register == "register_evcs"

(***************************************************************************)
(* Guards of the scheduler                                                 *)
(***************************************************************************)
AllowsPriority(p) ==
    CASE circuit = "protective" -> Ranks[p] <= Ranks["read"]
      [] circuit = "degraded"   -> Ranks[p] <= Ranks["optional"]
      [] circuit = "ok"         -> TRUE

IsUrgent(c) == Priority[c] \in {"safety", "user"}

BudgetAvailable(c) ==
    Cardinality({i \in DOMAIN window : window[i] = QueueClass[c]}) < Budget[QueueClass[c]]

\* prioritized_commands: by rank, then queue class, then age; here by rank
First(cs) == CHOOSE c \in cs : \A d \in cs : Ranks[Priority[c]] <= Ranks[Priority[d]]

Selectable == {c \in pend \ {Register} : BudgetAvailable(c)}
UrgentSelectable == {c \in Selectable : IsUrgent(c)}

\* next_due: only the first key by due time and configuration order
ReadDue == (front # {} \/ overdue # <<>>) /\ AllowsPriority("read")
NextRead == IF front # {} THEN CHOOSE k \in front : \A j \in front : k <= j ELSE Head(overdue)
DiscoveryDue == scan = 0 /\ AllowsPriority("discovery")

\* core_reads_stale
Aged == {k \in CoreReads : age[k] >= SloTicks}
\* mutant: only a pending aggregate asks for priority
Mutant_NoReadPriority == \E k \in Reads : unread[k] > 0
\* a pending aggregate asks for the same priority
ReadsNeedPriority == Aged # {} \/ \E k \in Reads : unread[k] > 0

(***************************************************************************)
(* What one tick starts. The broker refuses an operation while the rate    *)
(* limiter rests: a read then does not count as performed, a command does  *)
(* and is recorded as deferred.                                            *)
(***************************************************************************)
NoOp == Idle
ReadOp == [op |-> "read", of |-> NextRead]
CommandOp(cs) == [op |-> "command", of |-> First(cs)]
ReadRunnable == ReadDue /\ rested

\* try_read_then_write, try_write_then_read, then discovery
StandardOp ==
    IF preferRead /\ ReadRunnable THEN ReadOp
    ELSE IF Selectable # {} THEN CommandOp(Selectable)
    ELSE IF ReadRunnable THEN ReadOp
    ELSE IF DiscoveryDue /\ rested THEN [op |-> "discovery", of |-> 0] ELSE NoOp

\* _process_registered_operation: urgent, priority read, standard
RegisteredOp ==
    IF UrgentSelectable # {} THEN CommandOp(UrgentSelectable)
    ELSE IF ReadsNeedPriority /\ ReadRunnable THEN ReadOp
    ELSE StandardOp

\* _startup_operation_outcome: registration first, then a service list
ReachesReads == registered /\ (services \/ UrgentSelectable # {} \/ ~DiscoveryDue \/ ~rested)
ChosenOp ==
    IF ReachesReads THEN RegisteredOp
    ELSE IF registered THEN [op |-> "discovery", of |-> 0]
    ELSE IF Register \in pend THEN [op |-> "command", of |-> Register] ELSE NoOp

\* poll_one_due_read_once is called, even if the limiter then refuses
ReadTried ==
    /\ flight = Idle /\ ReachesReads /\ ReadDue /\ UrgentSelectable = {}
    /\ ReadsNeedPriority \/ preferRead \/ Selectable = {}

\* AggregateStore.state_for: the aggregate is pending from the first try
UnreadAfterTry ==
    IF ReadTried /\ unread[NextRead] = 0 THEN [unread EXCEPT ![NextRead] = Members[NextRead]] ELSE unread

\* _command_blocked, or the limiter refuses: deferred at once; a refresh
\* needs no bus operation
CommandRuns(c) == (rested \/ c = Refresh) /\ AllowsPriority(Priority[c])

(***************************************************************************)
(* Regulation at the end of a tick, once per control snapshot. A snapshot  *)
(* lives at most a second, and a health request makes a new one, so that   *)
(* any tick may regulate and none has to.                                  *)
(***************************************************************************)
Pressured == circuit # "ok" \/ Aged # {}
Advisory == {"diagnostic", "discovery", "introspection"}

InFlight == IF flight.op = "command" THEN {flight.of} ELSE {}

\* suspend_advisory_work: advisory commands are dropped unless in flight, and
\* a due scan is put off once a first one has succeeded (defer_for)
Suspended(cs, busy) ==
    {c \in cs : ~Pressured \/ c \in busy \cup {Register} \/ QueueClass[c] \notin Advisory}
SuspendedScan(due) == IF due = 0 /\ Pressured /\ services THEN ScanTicks ELSE due

\* expedite_healthy(stale_core_reads): old or estimated, and not in backoff
Expedited == (Aged \cup held) \ failed

(***************************************************************************)
(* Time of the read scheduler                                              *)
(***************************************************************************)
\* a finite set of numbers as a sequence, in order
Ascending(ns) ==
    CHOOSE s \in [1 .. Cardinality(ns) -> ns] : \A i, j \in DOMAIN s : i < j => s[i] < s[j]

\* one tick passes: waits run down, keys that become due queue up behind the
\* ones that are, in configuration order
WaitAfterTick == [k \in Reads |-> IF wait[k] > 0 THEN wait[k] - 1 ELSE 0]
NewlyDue == {k \in Reads : wait[k] = 1}
DueAfterTick == overdue \o Ascending(NewlyDue)

\* force_due: the keys go before all that are due by their time
Removed(due, ks) ==
    LET kept == Ascending({i \in DOMAIN due : due[i] \notin ks})
    IN  [n \in DOMAIN kept |-> due[kept[n]]]
TickPasses(forced) ==
    /\ front' = front \cup forced
    /\ \E due \in {DueAfterTick} : overdue' = Removed(due, forced)
    /\ wait' = [k \in Reads |-> IF k \in forced THEN 0 ELSE WaitAfterTick[k]]
    /\ age' = [k \in CoreReads |-> IF age[k] < SloTicks THEN age[k] + 1 ELSE age[k]]

Window(class) == LET all == Append(window, class)
                 IN  IF Len(all) > WindowTicks THEN Tail(all) ELSE all

(***************************************************************************)
(* Actions                                                                 *)
(***************************************************************************)
Enqueue ==
    \E c \in Commands \ pend :
        /\ c = Register => ~registered
        /\ pend' = pend \cup {c}
        /\ UNCHANGED <<window, readVars, preferRead, flight, rested,
                       circuit, registered, services, scan>>

\* _stale_refresh_keys: keys whose last confirmed value is older than the
\* helper's limit (seconds); the value of another read is of any age
Refreshable == Aged \cup held \cup (Reads \ CoreReads)

\* a refresh is applied at once: it forces due such keys, as many as its scope
\* names, and, for the topology, a discovery
TickStep ==
    \E op \in {IF flight = Idle THEN ChosenOp ELSE NoOp} :
    LET command == op.op = "command"
        runs == command /\ CommandRuns(op.of)
        refreshed == runs /\ op.of = Refresh
        starts == op # NoOp /\ (command => runs /\ ~refreshed)
        ordinary == command /\ op.of # Register /\ UrgentSelectable = {}
        kept == IF refreshed THEN pend \ {Refresh} ELSE pend
        ticked == IF scan > 0 THEN scan - 1 ELSE 0
    IN  \E regulated \in BOOLEAN, rescan \in {FALSE, refreshed},
           refresh \in SUBSET (IF refreshed THEN Refreshable ELSE {}) :
        /\ flight' = IF starts THEN op ELSE flight
        /\ rested' = ~starts
        /\ unread' = UnreadAfterTry
        /\ preferRead' = IF op.op = "read" THEN preferRead /\ (ReadsNeedPriority \/ unread'[op.of] > 0)
                         ELSE IF ordinary THEN refreshed
                         ELSE preferRead
        /\ window' = Window(IF command /\ ~starts /\ op.of # Register THEN QueueClass[op.of] ELSE "none")
        /\ TickPasses(refresh \cup IF regulated THEN Expedited ELSE {})
        /\ pend' = IF regulated THEN Suspended(kept, IF starts /\ command THEN {op.of} ELSE InFlight) ELSE kept
        /\ scan' = IF rescan THEN 0 ELSE IF regulated THEN SuspendedScan(ticked) ELSE ticked
        /\ UNCHANGED <<failed, held, circuit, registered, services>>

\* the broker finishes the operation in flight: an answer, an error or the
\* timeout of expire_due; the callbacks run at once
Recorded(k, ticks) ==
    /\ wait' = [wait EXCEPT ![k] = ticks]
    /\ overdue' = Removed(overdue, {k})
    /\ front' = front \ {k}
    /\ unread' = [unread EXCEPT ![k] = 0]

\* record_success; an aggregate whose members timed out may be an estimate,
\* for a few seconds after a confirmed value (here: one read long)
ReadApplied(k) ==
    /\ Recorded(k, ReadTicks)
    /\ failed' = failed \ {k}
    /\ age' = [j \in CoreReads |-> IF j = k THEN 0 ELSE age[j]]
    /\ held' \in {held \ {k}, IF k \in OptionalReads \cap CoreReads /\ k \notin held THEN held \cup {k} ELSE held \ {k}}

\* record_error
ReadFails(k) ==
    /\ k \notin OptionalReads
    /\ Recorded(k, RetryTicks)
    /\ failed' = failed \cup {k}
    /\ UNCHANGED <<age, held>>

\* not the last member: "deferred", the key stays due where it is
MemberAnswers(k) ==
    /\ unread[k] > 1
    /\ unread' = [unread EXCEPT ![k] = @ - 1]
    /\ UNCHANGED <<wait, overdue, front, failed, age, held>>

ReadFinishes ==
    /\ flight.op = "read"
    /\ MemberAnswers(flight.of) \/ (unread[flight.of] <= 1 /\ ReadApplied(flight.of)) \/ ReadFails(flight.of)
    /\ flight' = Idle
    /\ UNCHANGED <<pend, window, preferRead, rested, circuit, registered, services, scan>>

\* applied or dropped retires the command, deferred keeps it; both are counted
CommandFinishes ==
    /\ flight.op = "command"
    /\ \E outcome \in {"retired", "deferred"} :
        /\ pend' = IF outcome = "retired" THEN pend \ {flight.of} ELSE pend
        /\ registered' = (registered \/ (outcome = "retired" /\ flight.of = Register))
        /\ window' = IF flight.of = Register \/ window = <<>> THEN window
                     ELSE [window EXCEPT ![Len(window)] = QueueClass[flight.of]]
        /\ flight' = Idle
        /\ UNCHANGED <<readVars, preferRead, rested, circuit, services, scan>>

DiscoveryFinishes ==
    /\ flight.op = "discovery"
    /\ services' \in {services, TRUE}
    /\ scan' = ScanTicks
    /\ flight' = Idle
    /\ UNCHANGED <<pend, window, readVars, preferRead, rested, circuit,
                   registered>>

\* timeouts of other operations open the circuit, its deadline closes it
CircuitChanges ==
    /\ circuit' \in {"ok", "protective"} \ {circuit}
    /\ UNCHANGED <<pend, window, readVars, preferRead, flight, rested,
                   registered, services, scan>>

TickInit ==
    /\ pend = {} /\ window = <<>> /\ wait = [k \in Reads |-> 0]
    /\ overdue = <<>> /\ front = Reads /\ failed = {} /\ unread = [k \in Reads |-> 0]
    /\ age = [k \in CoreReads |-> SloTicks] /\ held = {} /\ preferRead = TRUE
    /\ flight = Idle /\ rested = TRUE /\ circuit = "ok"
    /\ registered = FALSE /\ services = FALSE /\ scan = 0

Finishes == ReadFinishes \/ CommandFinishes \/ DiscoveryFinishes
TickNext == Enqueue \/ TickStep \/ Finishes \/ CircuitChanges

\* the GLib timer fires for ever and expire_due ends every operation; that the
\* registration is enqueued and accepted is assumed of the service
TickFairness ==
    /\ WF_tickVars(TickStep) /\ WF_tickVars(Finishes)
    /\ SF_tickVars(CommandFinishes /\ registered')

(***************************************************************************)
(* Properties                                                              *)
(***************************************************************************)
TickTypeOK ==
    /\ pend \subseteq Commands /\ window \in SeqOf({QueueClass[c] : c \in Commands} \cup {"none"}, WindowTicks)
    /\ wait \in [Reads -> 0 .. ReadTicks + RetryTicks] /\ ToSet(overdue) \cup front \cup failed \subseteq Reads
    /\ IsInjective(overdue) /\ age \in [CoreReads -> 0 .. SloTicks] /\ held \subseteq CoreReads
    /\ flight.op \in {"none", "read", "command", "discovery"}
    /\ \A k \in Reads : unread[k] \in 0 .. Members[k]
    \* a key waits, or is due in one of the two ways: none is forgotten
    /\ \A k \in Reads : wait[k] = 0 <=> k \in ToSet(overdue) \cup front
    /\ ToSet(overdue) \cap front = {}

\* a gateway at work: registered, with a service list, no urgent command ready
\* and no refresh asked for (the helper leaves half a minute between two)
AtWork == registered /\ services /\ UrgentSelectable = {} /\ Refresh \notin pend

\* While that is so, every core read is polled over and over: ordinary commands
\* that are deferred for ever, reads that fail or stay estimates, keys that the
\* regulation puts before others, and aggregates of several operations delay
\* it but never for good.
ReadsServed == <>[]AtWork => \A k \in CoreReads : []<>(flight = [op |-> "read", of |-> k])
=============================================================================
