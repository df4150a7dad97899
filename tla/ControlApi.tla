----------------------------- MODULE ControlApi -----------------------------
(***************************************************************************)
(* The local HTTP control API (venus_evcharger/control): bounded worker    *)
(* slots, locality and token checks, the If-Match guard, the idempotency   *)
(* store with its runtime mirror, the rate limiter, the event bus with one *)
(* following client, and the audit trail.                                  *)
(*                                                                         *)
(* One server thread serves a request in several steps, and other threads  *)
(* interleave between them: the guard (ApiArrive), the replay lookup       *)
(* (ApiLookup), validation and throttling (ApiAdmit), the command itself   *)
(* (ApiExecute) and storing, auditing and answering (ApiAnswer).           *)
(*                                                                         *)
(* A body is a record of what the API tells apart: its command name, its   *)
(* target ("" for none), its value [type, n] and the state the command     *)
(* leaves (NoEffect for none); its fingerprint is the body itself.  The state token is a hash of *)
(* the state, so the model's token is the state.                           *)
(***************************************************************************)
EXTENDS Integers, Sequences, SequencesExt, FiniteSets

CONSTANTS
  Workers,        \* worker slots (CONTROL_API_MAX_WORKERS)
  Keys,           \* idempotency keys, numbered in alphabetical order
  Posts,          \* the requests clients send: host, bearer, expects, key, body
  TokenSets,      \* configured tokens: auth, read, control, admin, update
  ApiHosts,       \* client hosts
  HistoryLimit,   \* control_api_idempotency_max_entries
  MaxRequests,    \* control_api_rate_limit_max_requests
  RateTicks,      \* control_api_rate_limit_window_seconds
  CooldownSpan,   \* control_api_critical_cooldown_seconds
  RingSize,       \* events the bus retains
  RecentLimit,    \* the limit parameter of the following client
  MaxEvents       \* bound on events published by one process

NoKey == 0
NoToken == ""
NoEffect == "no effect"

ASSUME ApiConstants ==
  /\ Keys \subseteq Nat \ {0}
  /\ {Workers, HistoryLimit, MaxRequests, RingSize, RecentLimit} \subseteq Nat \ {0}
  /\ {RateTicks, CooldownSpan, MaxEvents} \subseteq Nat
  /\ \A post \in Posts : post.key \in Keys \cup {NoKey}

VARIABLES
  tokens,     \* the configured tokens
  local,      \* localhost_only without a unix socket
  calls,      \* worker slot -> the request it serves, or FreeSlot
  apiApplied,    \* the service state the state token hashes
  store,      \* idempotency entries, least recently used first
  mirror,     \* the mirrored file, or Torn
  answered,   \* keys answered since, and neither evicted nor lost by a fault
  throttle,   \* per host: ages of admitted requests, cooldowns left
  events,     \* the retained events [seq, kind]
  nextSeq,    \* the next event number
  follower    \* the client reading /v1/events

apiVars == <<tokens, local, calls, apiApplied, store, mirror, answered, throttle,
             events, nextSeq, follower>>

-----------------------------------------------------------------------------
(* Access                                                                  *)

\* The order of scopes: a scope grants all below it.
ScopeOrder == [read |-> 0, control_basic |-> 1, control_admin |-> 2, update_admin |-> 3]

\* The first configured one of several tokens.
FirstConfigured(ts) ==
  LET set == SelectSeq(ts, LAMBDA t : t # NoToken)
  IN IF set = <<>> THEN NoToken ELSE Head(set)

\* The effective tokens, most powerful scope first, with their fallbacks.
ScopeTokens ==
  << <<"update_admin", FirstConfigured(<<tokens.update, tokens.admin, tokens.control, tokens.auth>>)>>,
     <<"control_admin", FirstConfigured(<<tokens.admin, tokens.control, tokens.auth>>)>>,
     <<"control_basic", FirstConfigured(<<tokens.control, tokens.auth>>)>>,
     <<"read", FirstConfigured(<<tokens.read, tokens.control, tokens.admin, tokens.update, tokens.auth>>)>> >>

\* The scope a bearer has; with no token configured everyone may do everything.
ScopesOf(bearer) ==
  IF \A i \in 1 .. 4 : ScopeTokens[i][2] = NoToken THEN {"update_admin"}
  ELSE LET hits == {i \in 1 .. 4 : bearer # NoToken /\ ScopeTokens[i][2] = bearer}
       IN IF hits = {} THEN {} ELSE {ScopeTokens[Min(hits)][1]}

\* Whether a bearer may use an endpoint or command of the required scope.
Grants(bearer, required) ==
  \E s \in ScopesOf(bearer) : ScopeOrder[s] >= ScopeOrder[required]

\* The scope a command name requires; an unknown name requires control_admin.
RequiredScope(name) ==
  CASE name = "trigger_software_update" -> "update_admin"
    [] name \in {"set_auto_start", "set_current_setting", "set_enable", "set_mode",
                 "set_phase_selection", "set_start_stop"} -> "control_basic"
    [] OTHER -> "control_admin"

\* A remote host is refused while the listener is local only.
Reachable(host) == local => host = "loopback"

\* If-Match: no token, a wildcard or the token of the current state.
TokenMatches(expects) == expects \in {NoToken, "*", apiApplied}

-----------------------------------------------------------------------------
(* Validation                                                              *)

\* Commands with one fixed target.
DirectTargets ==
  [set_mode |-> "mode", set_auto_start |-> "auto_start", set_start_stop |-> "start_stop",
   set_enable |-> "enable", set_phase_selection |-> "phase_selection",
   reset_phase_lockout |-> "auto_phase_lockout_reset",
   reset_contactor_lockout |-> "auto_contactor_lockout_reset",
   trigger_software_update |-> "auto_software_update_run"]

CurrentTargets == {"set_current", "min_current", "max_current"}

\* The kinds of runtime settings, with one target standing for each kind.
RuntimeKinds ==
  [auto_start_surplus_watts |-> "float", auto_min_soc |-> "percent",
   auto_learn_charge_power_alpha |-> "fraction", auto_phase_switching |-> "binary",
   auto_phase_mismatch_lockout_count |-> "integer",
   auto_scheduled_enabled_days |-> "text", auto_scheduled_latest_end_time |-> "time"]

\* An explicit target must belong to the command; without one the command's
\* fixed target is used, and a command without a fixed target needs one.
ValidTarget(name, target) ==
  \/ name \in DOMAIN DirectTargets /\ target \in {"", DirectTargets[name]}
  \/ name = "set_current_setting" /\ target \in CurrentTargets
  \/ name = "set_auto_runtime_setting" /\ target \in DOMAIN RuntimeKinds

BinaryValue(v) == v.type = "bool" \/ (v.type = "int" /\ v.n \in {0, 1})
NonNegative(v) == v.type \in {"int", "float"} /\ v.n >= 0

\* The value a runtime setting of each kind accepts.
ValidSetting(kind, v) ==
  CASE kind = "float" -> NonNegative(v)
    [] kind = "percent" -> NonNegative(v) /\ v.n <= 100
    [] kind = "fraction" -> NonNegative(v) /\ 0 < v.n /\ v.n <= 1
    [] kind = "binary" -> BinaryValue(v)
    [] kind = "integer" -> v.type = "int" /\ v.n >= 0
    [] kind = "text" -> v.type \in {"text", "time", "phase"}
    [] kind = "time" -> v.type = "time"

\* The value each command accepts.
ValidValue(name, target, v) ==
  CASE name = "set_mode" -> v.type = "int" /\ v.n \in 0 .. 2
    [] name = "set_phase_selection" -> v.type = "phase"
    [] name = "set_current_setting" -> NonNegative(v)
    [] name = "set_auto_runtime_setting" -> ValidSetting(RuntimeKinds[target], v)
    [] OTHER -> BinaryValue(v)

ValidBody(body) == ValidTarget(body.name, body.target) /\ ValidValue(body.name, body.target, body.value)

-----------------------------------------------------------------------------
(* The idempotency store                                                   *)

Torn == [torn |-> TRUE, entries |-> <<>>]
Entry(k) == {i \in DOMAIN store : store[i].key = k}
Without(s, k) ==
  IF \E i \in DOMAIN s : s[i].key = k THEN RemoveAt(s, CHOOSE i \in DOMAIN s : s[i].key = k) ELSE s

\* get: a hit becomes the most recently used entry.
Touched(k) == Append(Without(store, k), store[CHOOSE i \in DOMAIN store : store[i].key = k])

\* put: append the entry, then drop the oldest beyond the limit.
Put(entry) ==
  LET all == Append(Without(store, entry.key), entry)
  IN SubSeq(all, Max({1, Len(all) - HistoryLimit + 1}), Len(all))

\* The file is written with sorted keys, so its order is alphabetical.
Rank(s, j) == Cardinality({i \in DOMAIN s : s[i].key < s[j].key})
Serialized(s) ==
  [torn |-> FALSE, entries |-> [n \in DOMAIN s |-> s[CHOOSE j \in DOMAIN s : Rank(s, j) = n - 1]]]

\* Loading: a torn file yields nothing.
Loaded(f) ==
  IF f.torn THEN <<>>
  ELSE SubSeq(f.entries, Max({1, Len(f.entries) - HistoryLimit + 1}), Len(f.entries))

-----------------------------------------------------------------------------
(* Throttling                                                              *)

CriticalCommands == {"reset_contactor_lockout", "reset_phase_lockout", "trigger_software_update"}

\* The request times still inside the window.
Trimmed(times) == SelectSeq(times, LAMBDA a : a < RateTicks)
Fresh == [times |-> <<>>, cooling |-> [c \in CriticalCommands |-> 0]]

\* A host may send another request if fewer than the limit are in the window.
AllowRequest(host) == Len(Trimmed(throttle[host].times)) < MaxRequests

\* A critical command waits for its cooldown, which starts when it is admitted.
AllowCommand(host, name) ==
  name \in CriticalCommands /\ CooldownSpan > 0 => throttle[host].cooling[name] = 0

\* The request is counted before the command's cooldown is looked at, so a
\* request refused for its cooldown still uses up a place in the window.
Counted(host) == Append(Trimmed(throttle[host].times), 0)
Cooled(host, name) ==
  IF name \in CriticalCommands
    THEN [throttle[host].cooling EXCEPT ![name] = CooldownSpan]
    ELSE throttle[host].cooling

-----------------------------------------------------------------------------
(* Events                                                                  *)

\* publish: number the event and keep the newest RingSize.
Published(kind) ==
  LET all == Append(events, [seq |-> nextSeq, kind |-> kind])
  IN SubSeq(all, Max({1, Len(all) - RingSize + 1}), Len(all))

\* recent: at most RecentLimit of the retained events after a number.
Recent(after) ==
  LET later == SelectSeq(events, LAMBDA e : e.seq > after)
  IN SubSeq(later, Max({1, Len(later) - RecentLimit + 1}), Len(later))

Mutant_NewestAfter(after) ==
  LET later == {e \in Range(events) : e.seq > after}
  IN {e \in later : \A f \in later : f.seq <= e.seq}

\* wait_for_next: the first retained event after a number.
FirstAfter(after) ==
  LET later == {e \in Range(events) : e.seq > after}
  IN {e \in later : \A f \in later : e.seq <= f.seq}

Matches(kind) == follower.kinds = {} \/ kind \in follower.kinds

-----------------------------------------------------------------------------
FreeSlot == [step |-> "free"]
Free == {w \in 1 .. Workers : calls[w] = FreeSlot}

\* A server process starts: the store is read from its mirror, the limiter
\* and the event bus are new, and the first snapshot is published.
Started ==
  /\ calls' = [w \in 1 .. Workers |-> FreeSlot]
  /\ throttle' = [h \in ApiHosts |-> Fresh]
  /\ events' = <<[seq |-> 1, kind |-> "snapshot"]>>
  /\ nextSeq' = 2
  /\ store' = Loaded(mirror')

ApiInit ==
  /\ tokens \in TokenSets
  /\ local \in BOOLEAN
  /\ calls = [w \in 1 .. Workers |-> FreeSlot]
  /\ apiApplied = "s0"
  /\ store = <<>> /\ mirror = Serialized(<<>>) /\ answered = {}
  /\ throttle = [h \in ApiHosts |-> Fresh]
  /\ events = <<[seq |-> 1, kind |-> "snapshot"]>> /\ nextSeq = 2
  /\ follower = [on |-> FALSE, last |-> 0, kinds |-> {}]

\* POST /v1/control/command up to the guards: a free slot or the connection
\* is closed; then locality, the transport scope, the command's scope and
\* If-Match.  A refusal frees the slot at once and changes nothing.
ApiArrive(post) ==
  /\ Free # {}
  /\ Reachable(post.host)
  /\ Grants(post.bearer, "control_basic")
  /\ Grants(post.bearer, RequiredScope(post.body.name))
  /\ TokenMatches(post.expects)
  /\ nextSeq <= MaxEvents
  /\ calls' = [calls EXCEPT ![Min(Free)] =
       [step |-> "lookup", host |-> post.host, key |-> post.key, body |-> post.body,
        late |-> post.key \in answered, outcome |-> "none"]]
  /\ UNCHANGED <<tokens, local, apiApplied, store, mirror, answered, throttle, events, nextSeq, follower>>

\* The replay lookup: a known key answers from the store, with the cached
\* response (and an event) or, for another payload, with a conflict.
ApiLookup(w) ==
  LET call == calls[w]
      hit == call.key # NoKey /\ Entry(call.key) # {}
      same == hit /\ \E i \in Entry(call.key) : store[i].body = call.body
  IN
  /\ call.step = "lookup"
  /\ same => nextSeq <= MaxEvents
  /\ store' = IF hit THEN Touched(call.key) ELSE store
  /\ calls' = [calls EXCEPT ![w] = IF hit THEN FreeSlot ELSE [call EXCEPT !.step = "admit"]]
  /\ events' = IF same THEN Published("command") ELSE events
  /\ nextSeq' = IF same THEN nextSeq + 1 ELSE nextSeq
  /\ UNCHANGED <<tokens, local, apiApplied, mirror, answered, throttle, follower>>

\* Validation, then the rate limiter: a refused request is answered, not run,
\* and its key is not stored.
ApiAdmit(w) ==
  LET call == calls[w]
      asked == AllowRequest(call.host)
      cooled == AllowCommand(call.host, call.body.name)
  IN
  /\ call.step = "admit"
  /\ throttle' =
       IF ~ValidBody(call.body) THEN throttle
       ELSE [throttle EXCEPT ![call.host] =
              [times |-> IF asked THEN Counted(call.host) ELSE Trimmed(throttle[call.host].times),
               cooling |-> IF asked /\ cooled THEN Cooled(call.host, call.body.name) ELSE @.cooling]]
  /\ calls' = [calls EXCEPT ![w] =
       IF ValidBody(call.body) /\ asked /\ cooled THEN [call EXCEPT !.step = "run"] ELSE FreeSlot]
  /\ UNCHANGED <<tokens, local, apiApplied, store, mirror, answered, events, nextSeq, follower>>

\* The command runs under the write controller's lock and its event is
\* published, whatever its outcome.
ApiExecute(w) ==
  LET call == calls[w] IN
  /\ call.step = "run"
  /\ nextSeq <= MaxEvents
  /\ \E outcome \in {"accepted", "rejected"} :
       /\ calls' = [calls EXCEPT ![w] = [call EXCEPT !.step = "answer", !.outcome = outcome]]
       /\ apiApplied' = IF outcome = "rejected" \/ call.body.effect = NoEffect
                       THEN apiApplied ELSE call.body.effect
  /\ events' = Published("command")
  /\ nextSeq' = nextSeq + 1
  /\ UNCHANGED <<tokens, local, store, mirror, answered, throttle, follower>>

Mutant_AcceptedOnly(call) == call.key # NoKey /\ call.outcome # "rejected"

\* cache_response: every answer of a keyed request, whatever its outcome.
CachedResponse(call) == call.key # NoKey

\* The response is stored under its key, the store mirrored (a failing write
\* leaves the file as it was: its answers are then only in memory), the
\* command audited and the client answered.
ApiAnswer(w) ==
  LET call == calls[w]
      put == IF CachedResponse(call) THEN Put([key |-> call.key, body |-> call.body]) ELSE store
      lost == {k \in answered : \A i \in DOMAIN put : put[i].key # k}
  IN
  /\ call.step = "answer"
  /\ store' = put
  /\ mirror' \in {mirror} \cup IF CachedResponse(call) THEN {Serialized(put)} ELSE {}
  /\ answered' = (answered \ lost)
                   \cup IF call.key # NoKey /\ mirror' = Serialized(put) THEN {call.key} ELSE {}
  /\ calls' = [v \in 1 .. Workers |->
       IF v = w THEN FreeSlot
       ELSE IF calls[v] # FreeSlot /\ calls[v].key \in lost THEN [calls[v] EXCEPT !.late = FALSE]
       ELSE calls[v]]
  /\ UNCHANGED <<tokens, local, apiApplied, throttle, events, nextSeq, follower>>

\* The update cycle changes the state under the clients' tokens.
ApiStateChanges ==
  /\ apiApplied' \in {"s0", "s1"} \ {apiApplied}
  /\ UNCHANGED <<tokens, local, calls, store, mirror, answered, throttle, events, nextSeq, follower>>

\* Time passes for the limiter.
ApiClock ==
  /\ throttle' = [h \in ApiHosts |->
       [times |-> [i \in DOMAIN throttle[h].times |-> Min({throttle[h].times[i] + 1, RateTicks})],
        cooling |-> [c \in CriticalCommands |-> Max({0, throttle[h].cooling[c] - 1})]]]
  /\ throttle' # throttle
  /\ UNCHANGED <<tokens, local, calls, apiApplied, store, mirror, answered, events, nextSeq, follower>>

\* The service stops between two steps, or while the mirror is rewritten
\* (opening it for writing truncates it), and starts again.  A new
\* process also ends the follower's connection.
ApiRestart ==
  /\ \/ UNCHANGED <<mirror, answered>>
     \/ /\ \E w \in 1 .. Workers : calls[w].step = "answer" /\ calls[w].key # NoKey
        /\ mirror' = Torn
        /\ answered' = {}
  /\ Started
  /\ follower' = [follower EXCEPT !.on = FALSE]
  /\ UNCHANGED <<tokens, local, apiApplied>>

\* GET /v1/events: a snapshot for a client without a resume number, then the
\* recent events; the stream's position is the last event looked at.
ApiFollow(bearer, kinds) ==
  LET recent == Recent(follower.last) IN
  /\ ~follower.on
  /\ Free # {}
  /\ Grants(bearer, "read")
  /\ follower' = [on |-> TRUE, kinds |-> kinds,
                  last |-> IF recent = <<>> THEN follower.last ELSE Last(recent).seq]
  /\ UNCHANGED <<tokens, local, calls, apiApplied, store, mirror, answered, throttle, events, nextSeq>>

\* The live stream waits for the next event; one of another kind only
\* moves its position.
ApiDeliver ==
  /\ follower.on
  /\ \E e \in FirstAfter(follower.last) : follower' = [follower EXCEPT !.last = e.seq]
  /\ UNCHANGED <<tokens, local, calls, apiApplied, store, mirror, answered, throttle, events, nextSeq>>

\* The stream's time is over; the client keeps its position to resume.
ApiStreamEnds ==
  /\ follower.on
  /\ follower' = [follower EXCEPT !.on = FALSE]
  /\ UNCHANGED <<tokens, local, calls, apiApplied, store, mirror, answered, throttle, events, nextSeq>>

ApiNext ==
  \/ \E post \in Posts : ApiArrive(post)
  \/ \E w \in 1 .. Workers : ApiLookup(w) \/ ApiAdmit(w) \/ ApiExecute(w) \/ ApiAnswer(w)
  \/ ApiStateChanges
  \/ ApiClock
  \/ ApiRestart
  \/ \E post \in Posts, kinds \in {{}, {"command"}} : ApiFollow(post.bearer, kinds)
  \/ ApiDeliver
  \/ ApiStreamEnds

ApiSpec == ApiInit /\ [][ApiNext]_apiVars

-----------------------------------------------------------------------------
(* Properties                                                              *)

\* Types of the control API's state.
ApiTypeOK ==
  /\ \A w \in 1 .. Workers : calls[w].step \in {"free", "lookup", "admit", "run", "answer"}
  /\ Len(store) <= HistoryLimit
  /\ answered \subseteq Keys
  /\ \A h \in ApiHosts : Len(throttle[h].times) <= MaxRequests
  /\ Len(events) <= RingSize /\ nextSeq \in 2 .. MaxEvents + 1

\* A request that arrives after its key was answered, and whose key has been
\* neither evicted nor lost with the mirror since, is never admitted as a new
\* command: not after a rejected outcome, not after other keys came in between
\* and not after a restart (ControlApiIdempotencyStore, write_command_result).
AnsweredNotRunAgain ==
  \A w \in 1 .. Workers :
    calls[w].step \in {"admit", "run", "answer"} => ~calls[w].late

\* Why: what was answered is in the store and in the mirror until it is evicted.
KeysOf(s) == {s[i].key : i \in DOMAIN s}
AnswersKept ==
  /\ answered \subseteq Keys \cap KeysOf(store) \cap KeysOf(mirror.entries)
  /\ answered # {} => ~mirror.torn
  /\ Len(store) <= HistoryLimit /\ Len(mirror.entries) <= HistoryLimit
  /\ \A w \in 1 .. Workers :
       calls[w] # FreeSlot /\ calls[w].late => calls[w].step = "lookup" /\ calls[w].key \in answered

\* The live stream passes over no event it should tell: between two of its
\* positions lie only events that have left the bus (wait_for_next).
LiveStreamGapless ==
  [][ follower.on /\ follower'.on =>
        \A e \in Range(events) : e.seq \in follower.last + 1 .. follower'.last => e.seq = follower'.last ]_apiVars

\* CONTROL_API.md: "same Idempotency-Key + same payload returns the cached
\* response": a key's payload is never run a second time while its first run
\* is under way or its answer retained.
KeyRunsOnce ==
  \A v, w \in 1 .. Workers :
    /\ v # w
    /\ calls[v].step \in {"run", "answer"} /\ calls[w].step \in {"run", "answer"}
    /\ calls[v].key # NoKey
    => calls[v].key # calls[w].key \/ calls[v].body # calls[w].body
=============================================================================
