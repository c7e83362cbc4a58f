--------------------------- MODULE RequestEngine ----------------------------
(***************************************************************************)
(* One gateway process serving requests over a pool of keys:               *)
(* ProxyService.handle (proxy/app.py), the KeyPool (core/key_pool.py), the *)
(* retry policy (retry/policy.py) and the three stores (storage/).  The    *)
(* embedded AsyncPoolSwitchClient.request runs the same loop.              *)
(*                                                                         *)
(* Each request is a task of one event loop.  An action is the stretch of  *)
(* code between two points where the task can be suspended, with the store *)
(* call that ends it.  The in-memory store never suspends, so with it a    *)
(* task keeps the loop from one pause to the next (Turn); with SQLite and  *)
(* Redis every store call is such a point, and Redis lists its rows one    *)
(* call at a time.                                                         *)
(***************************************************************************)
EXTENDS Strategies

CONSTANTS
    Requests,       \* requests made over the whole behaviour
    Keys,           \* ids of keys that are, were or may be configured
    InitialKeys,    \* config.key_definitions after the dict of KeyPool.__init__
                    \* has collapsed repeated ids: a sequence of Keys
    Backend,        \* config.storage.backend
    RetryAttempts,  \* config.retry_attempts, any int
    Answers,        \* upstream responses that may arrive (see Classify)
    Failures,       \* ways the HTTP client may raise: "caught", "uncaught"
    StoreFails,     \* whether a call to the store may raise
    Cancels,        \* whether a caller may cancel its request
    MaxClock,       \* bound: the clock stops there
    MaxEdits,       \* bound: calls of add_key and remove_key
    MaxRestarts     \* bound: crashes of the process

Quota == INSTANCE Classify

\* How an answer, or the lack of one, is classified.
Reasons == {"ok", "network_error", "quota_exceeded", "rate_limited", "upstream_retry_after"}

\* An add_key or remove_key call.
Edits == [call : {"add", "remove"}, key : Keys]

\* None is none of the things it stands in for.
ASSUME NoneIsNothing ==
    None \notin Requests \union Keys \union Reasons \union APIKeyState \union Edits

ASSUME EngineAssumption ==
    /\ InitialKeys \in Seq(Keys)
    /\ \A i, j \in DOMAIN InitialKeys : InitialKeys[i] = InitialKeys[j] => i = j
    /\ Backend \in {"memory", "sqlite", "redis"}
    /\ RetryAttempts \in Int
    /\ \A a \in Answers : Quota!extract_remaining_quota(a) \in Optional(Int)
    /\ Failures \subseteq {"caught", "uncaught"}
    /\ StoreFails \in BOOLEAN /\ Cancels \in BOOLEAN
    /\ MaxClock \in Nat /\ MaxEdits \in Nat /\ MaxRestarts \in Nat

VARIABLES
    definitions,    \* KeyPool.definitions: the ids in the dict's order
    store,          \* the row of each key, None where there is none
    rr_index,       \* RoundRobinStrategy._index
    lock,           \* the request that holds KeyPool._lock, or None
    pc,             \* where each request is, see Steps below
    retryable,      \* retryable_method, from the request's method
    attempts,       \* the loop's counter
    excluded,       \* excluded_keys
    key,            \* the id in key_record, None before one is acquired
    unread, view,   \* what get_states has still to read, and what it has read
    reason, quota,  \* classification of the answer, and the quota it reports
    row,            \* the row computed but not written yet
    key_usage_total, key_errors_total, key_cooldown, failovers_total,
    admin,          \* the add_key or remove_key call in progress, or None
    clock, edits, restarts

pool    == <<definitions, store, rr_index, lock>>
loop    == <<retryable, attempts, excluded>>
listing == <<unread, view>>
answer  == <<reason, quota>>
metrics == <<key_usage_total, key_errors_total, key_cooldown, failovers_total>>
world   == <<admin, clock, edits, restarts>>
vars    == <<pool, pc, loop, key, listing, answer, row, metrics, world>>

-----------------------------------------------------------------------------
(* Where a request can be.  "list": get_states under the pool's lock, and  *)
(* "relist": the same again when the first listing left no candidate;      *)
(* "limit": in the rate limiter; "send": the upstream call is out; "read", *)
(* "write": the two store calls of record_success, record_transient_error  *)
(* or mark_key_quota_exhausted; "read_failover", "write_failover": those   *)
(* of record_failover; "sleep": the back-off before the next attempt.      *)

Listing  == {"list", "relist"}
Reading  == {"read", "read_failover"}
Writing  == {"write", "write_failover"}
Storing  == Listing \union Reading \union Writing
Pausing  == {"acquire", "limit", "send", "sleep"}
\* The answers a caller gets, "failed" standing for an unhandled exception
\* (an HTTP 500), and the two ways to get none.
Answered == {"responded", "relayed", "bad_gateway", "no_healthy", "failed"}
Ended    == Answered \union {"cancelled", "lost"}
Steps    == {"idle"} \union Pausing \union Storing \union Ended

Defined == {definitions[i] : i \in DOMAIN definitions}

\* A store or a listing without rows.
NoRows == [k \in Keys |-> None]

\* list_records gives a key without a row a fresh state.
Seen(r) == [k \in Keys |-> IF view[r][k] = None THEN Fresh ELSE view[r][k]]

\* Mutated form: the second listing is not filtered.
CandidatesOfRelist(r) ==
    {k \in Defined \ excluded[r] :
        pc[r] = "relist" \/ ~ is_in_cooldown(Seen(r)[k], clock)}

Candidates(r) ==
    {k \in Defined \ excluded[r] : ~ is_in_cooldown(Seen(r)[k], clock)}

\* Mutated form: one attempt too many.
should_retry_once_more(r) == retryable[r] /\ attempts[r] <= RetryAttempts

\* Mutated form: the method is not looked at.
should_retry_any_method(r) == attempts[r] < RetryAttempts

\* RetryPolicy.for_attempt
should_retry(r) == retryable[r] /\ attempts[r] < RetryAttempts

\* Mutated form: the in-memory store suspends like the others.
TurnOfAnyone(r) == r \in Requests

\* With the in-memory store nothing else runs while a request, or an edit of
\* the pool, is between two of its store calls.
Turn(r) ==
    Backend = "memory" =>
        admin = None /\ \A q \in Requests \ {r} : pc[q] \notin Storing

Goto(r, step) == pc' = [pc EXCEPT ![r] = step]
Forget(r)     == /\ key' = [key EXCEPT ![r] = None]
                 /\ reason' = [reason EXCEPT ![r] = None]
                 /\ quota' = [quota EXCEPT ![r] = None]

\* initialize: a fresh row for each configured key that has none.
Initialized(rows) ==
    [k \in Keys |-> IF rows[k] = None /\ \E i \in DOMAIN InitialKeys : InitialKeys[i] = k
                    THEN Fresh ELSE rows[k]]

Init ==
    /\ definitions = InitialKeys
    /\ store = Initialized(NoRows)
    /\ rr_index = 0
    /\ lock = None
    /\ pc = [r \in Requests |-> "idle"]
    /\ retryable \in [Requests -> BOOLEAN]
    /\ attempts = [r \in Requests |-> 0]
    /\ excluded = [r \in Requests |-> {}]
    /\ key = [r \in Requests |-> None]
    /\ unread = [r \in Requests |-> {}]
    /\ view = [r \in Requests |-> NoRows]
    /\ reason = [r \in Requests |-> None]
    /\ quota = [r \in Requests |-> None]
    /\ row = [r \in Requests |-> None]
    /\ key_usage_total = [k \in Keys |-> 0]
    /\ key_errors_total = [k \in Keys |-> 0]
    /\ key_cooldown = [k \in Keys |-> 0]
    /\ failovers_total = 0
    /\ admin = None
    /\ clock = 1
    /\ edits = 0
    /\ restarts = 0

-----------------------------------------------------------------------------
(* acquire_key *)

Arrive(r) ==
    /\ pc[r] = "idle"
    /\ Goto(r, "acquire")
    /\ attempts' = [attempts EXCEPT ![r] = 1]
    /\ UNCHANGED <<pool, retryable, excluded, key, listing, answer, row, metrics, world>>

AcquireLock(r) ==
    /\ pc[r] = "acquire" /\ Turn(r)
    /\ lock = None
    /\ lock' = r
    /\ Goto(r, "list")
    /\ unread' = [unread EXCEPT ![r] = Keys]
    /\ UNCHANGED <<definitions, store, rr_index, loop, key, view, answer, row, metrics, world>>

\* get_states: one snapshot, or one GET per row with Redis.
ReadStates(r) ==
    /\ pc[r] \in Listing /\ Turn(r)
    /\ \E S \in IF Backend = "redis" THEN {{k} : k \in unread[r]} ELSE {unread[r]} \ {{}} :
          /\ view' = [view EXCEPT ![r] = [k \in Keys |-> IF k \in S THEN store[k] ELSE view[r][k]]]
          /\ unread' = [unread EXCEPT ![r] = @ \ S]
    /\ UNCHANGED <<pool, pc, loop, key, answer, row, metrics, world>>

Listed(r) == pc[r] \in Listing /\ Turn(r) /\ unread[r] = {}

\* Mutated form: round robin does not advance.
AcquireKeyStandingStill(r) ==
    /\ Listed(r)
    /\ \E k \in choose(Candidates(r), definitions, Seen(r), rr_index, clock) :
          key' = [key EXCEPT ![r] = k]
    /\ lock' = None
    /\ Goto(r, "limit")
    /\ view' = [view EXCEPT ![r] = NoRows]
    /\ UNCHANGED <<definitions, store, rr_index, loop, unread, answer, row, metrics, world>>

AcquireKey(r) ==
    /\ Listed(r)
    /\ \E k \in choose(Candidates(r), definitions, Seen(r), rr_index, clock) :
          key' = [key EXCEPT ![r] = k]
    /\ rr_index' = IF Strategy = "round_robin" THEN rr_index + 1 ELSE rr_index
    /\ lock' = None
    /\ Goto(r, "limit")
    /\ view' = [view EXCEPT ![r] = NoRows]
    /\ UNCHANGED <<definitions, store, loop, unread, answer, row, metrics, world>>

ListAgain(r) ==
    /\ Listed(r) /\ pc[r] = "list"
    /\ Candidates(r) = {}
    /\ Goto(r, "relist")
    /\ unread' = [unread EXCEPT ![r] = Keys]
    /\ UNCHANGED <<pool, loop, key, view, answer, row, metrics, world>>

NoHealthyKeys(r) ==
    /\ Listed(r) /\ pc[r] = "relist"
    /\ Candidates(r) = {}
    /\ lock' = None
    /\ Goto(r, "no_healthy")
    /\ view' = [view EXCEPT ![r] = NoRows]
    /\ UNCHANGED <<definitions, store, rr_index, loop, key, unread, answer, row, metrics, world>>

-----------------------------------------------------------------------------
(* The upstream call *)

Forward(r) ==
    /\ pc[r] = "limit"
    /\ Goto(r, "send")
    /\ UNCHANGED <<pool, loop, key, listing, answer, row, metrics, world>>

\* A response came.  An accepted one is searched for its quota at once, and the
\* request dies there if that raises.
Respond(r) ==
    /\ pc[r] = "send" /\ Turn(r)
    /\ \E a \in Answers :
          IF Quota!classify_response(a).reason = "ok" /\ Quota!extract_raises(a)
          THEN Goto(r, "failed") /\ Forget(r)
          ELSE /\ Goto(r, "read")
               /\ reason' = [reason EXCEPT ![r] = Quota!classify_response(a).reason]
               /\ quota' = [quota EXCEPT ![r] =
                     IF Quota!classify_response(a).reason = "ok"
                     THEN Quota!extract_remaining_quota(a) ELSE None]
               /\ UNCHANGED key
    /\ UNCHANGED <<pool, loop, listing, row, metrics, world>>

\* One of the exceptions handle() catches.
NetworkError(r) ==
    /\ pc[r] = "send" /\ Turn(r)
    /\ "caught" \in Failures
    /\ Goto(r, "read")
    /\ reason' = [reason EXCEPT ![r] = "network_error"]
    /\ UNCHANGED <<pool, loop, key, listing, quota, row, metrics, world>>

\* Any other exception of the HTTP client: a WriteError, a CloseError, ...
ForwardRaises(r) ==
    /\ pc[r] = "send"
    /\ "uncaught" \in Failures
    /\ Goto(r, "failed")
    /\ Forget(r)
    /\ UNCHANGED <<pool, loop, listing, row, metrics, world>>

-----------------------------------------------------------------------------
(* record_success, record_transient_error, mark_key_quota_exhausted: the   *)
(* row is read, and the row to write computed from what was read.          *)

Read(r, step, next, newRow) ==
    /\ pc[r] = step /\ Turn(r)
    /\ store[key[r]] # None
    /\ row' = [row EXCEPT ![r] = newRow]
    /\ Goto(r, next)
    /\ UNCHANGED <<pool, loop, key, listing, answer, metrics, world>>

RecordSuccess(r) ==
    /\ reason[r] = "ok"
    /\ Read(r, "read", "write", Succeeded(store[key[r]], clock, quota[r]))

RecordTransientError(r) ==
    /\ reason[r] \in {"network_error", "rate_limited", "upstream_retry_after"}
    /\ Read(r, "read", "write", TransientError(store[key[r]], clock, reason[r]))

MarkKeyQuotaExhausted(r) ==
    /\ reason[r] = "quota_exceeded"
    /\ Read(r, "read", "write", QuotaExhausted(store[key[r]], clock))

RecordFailover(r) ==
    Read(r, "read_failover", "write_failover", FailedOver(store[key[r]]))

\* get_state raises KeyError when the row is gone.
KeyMissing(r) ==
    /\ pc[r] \in Reading /\ Turn(r)
    /\ store[key[r]] = None
    /\ Goto(r, "failed")
    /\ Forget(r)
    /\ UNCHANGED <<pool, loop, listing, row, metrics, world>>

\* Mutated form: ON CONFLICT DO UPDATE leaves one column out.
upsert_state_but_errors(r) ==
    /\ store' = [store EXCEPT ![key[r]] =
          IF @ = None THEN row[r] ELSE [row[r] EXCEPT !.error_count = store[key[r]].error_count]]
    /\ row' = [row EXCEPT ![r] = None]
    /\ UNCHANGED <<definitions, rr_index, lock>>

upsert_state(r) ==
    /\ store' = [store EXCEPT ![key[r]] = row[r]]
    /\ row' = [row EXCEPT ![r] = None]
    /\ UNCHANGED <<definitions, rr_index, lock>>

\* Mutated form: the gauge is left as it is.
UpsertSuccessKeepsGauge(r) ==
    /\ pc[r] = "write" /\ Turn(r)
    /\ reason[r] = "ok"
    /\ upsert_state(r)
    /\ key_usage_total' = [key_usage_total EXCEPT ![key[r]] = @ + 1]
    /\ Goto(r, "responded")
    /\ Forget(r)
    /\ UNCHANGED <<loop, listing, key_errors_total, key_cooldown, failovers_total, world>>

UpsertSuccess(r) ==
    /\ pc[r] = "write" /\ Turn(r)
    /\ reason[r] = "ok"
    /\ upsert_state(r)
    /\ key_usage_total' = [key_usage_total EXCEPT ![key[r]] = @ + 1]
    /\ key_cooldown' = [key_cooldown EXCEPT ![key[r]] = 0]
    /\ Goto(r, "responded")
    /\ Forget(r)
    /\ UNCHANGED <<loop, listing, key_errors_total, failovers_total, world>>

\* Mutated form: the key is not added to excluded_keys.
UpsertFailureKeepsKey(r) ==
    /\ pc[r] = "write" /\ Turn(r)
    /\ reason[r] # "ok"
    /\ upsert_state(r)
    /\ key_errors_total' = [key_errors_total EXCEPT ![key[r]] = @ + 1]
    /\ key_cooldown' = IF reason[r] = "quota_exceeded"
                       THEN [key_cooldown EXCEPT ![key[r]] = 1] ELSE key_cooldown
    /\ Goto(r, "read_failover")
    /\ UNCHANGED <<loop, key, listing, answer, key_usage_total, failovers_total, world>>

UpsertFailure(r) ==
    /\ pc[r] = "write" /\ Turn(r)
    /\ reason[r] # "ok"
    /\ upsert_state(r)
    /\ key_errors_total' = [key_errors_total EXCEPT ![key[r]] = @ + 1]
    /\ key_cooldown' = IF reason[r] = "quota_exceeded"
                       THEN [key_cooldown EXCEPT ![key[r]] = 1] ELSE key_cooldown
    /\ excluded' = [excluded EXCEPT ![r] = @ \union {key[r]}]
    /\ Goto(r, "read_failover")
    /\ UNCHANGED <<retryable, attempts, key, listing, answer, key_usage_total, failovers_total, world>>

\* Mutated form: a failover is recorded only when a retry follows.
UpsertFailoverIfRetried(r) ==
    /\ pc[r] = "write_failover" /\ Turn(r)
    /\ IF should_retry(r)
       THEN upsert_state(r) /\ Goto(r, "sleep")
       ELSE /\ row' = [row EXCEPT ![r] = None]
            /\ Goto(r, "relayed")
            /\ UNCHANGED pool
    /\ failovers_total' = failovers_total + 1
    /\ Forget(r)
    /\ UNCHANGED <<loop, listing, key_usage_total, key_errors_total, key_cooldown, world>>

\* The failover is recorded, then the retry policy decides.
UpsertFailover(r) ==
    /\ pc[r] = "write_failover" /\ Turn(r)
    /\ upsert_state(r)
    /\ failovers_total' = failovers_total + 1
    /\ \/ should_retry(r) /\ Goto(r, "sleep")
       \/ ~ should_retry(r) /\ reason[r] = "network_error" /\ Goto(r, "bad_gateway")
       \/ ~ should_retry(r) /\ reason[r] # "network_error" /\ Goto(r, "relayed")
    /\ Forget(r)
    /\ UNCHANGED <<loop, listing, key_usage_total, key_errors_total, key_cooldown, world>>

Wake(r) ==
    /\ pc[r] = "sleep"
    /\ Goto(r, "acquire")
    /\ attempts' = [attempts EXCEPT ![r] = @ + 1]
    /\ UNCHANGED <<pool, retryable, excluded, key, listing, answer, row, metrics, world>>

-----------------------------------------------------------------------------
(* Failures: the store raises, the caller gives up, the process crashes.   *)

\* Mutated form: the lock is not released on the way out.
AbandonWithLock(r, end) ==
    /\ Goto(r, end)
    /\ Forget(r)
    /\ row' = [row EXCEPT ![r] = None]
    /\ unread' = [unread EXCEPT ![r] = {}]
    /\ view' = [view EXCEPT ![r] = NoRows]
    /\ UNCHANGED <<definitions, rr_index, lock, loop, metrics, world>>

\* The exception leaves the loop; "async with" releases the pool's lock.
Abandon(r, end) ==
    /\ Goto(r, end)
    /\ Forget(r)
    /\ lock' = IF lock = r THEN None ELSE lock
    /\ row' = [row EXCEPT ![r] = None]
    /\ unread' = [unread EXCEPT ![r] = {}]
    /\ view' = [view EXCEPT ![r] = NoRows]
    /\ UNCHANGED <<definitions, rr_index, loop, metrics, world>>

\* A write that does not return may have taken effect.
MaybeWritten(r) ==
    \/ store' = store
    \/ pc[r] \in Writing /\ store' = [store EXCEPT ![key[r]] = row[r]]

StoreError(r) ==
    /\ StoreFails /\ Backend # "memory"
    /\ pc[r] \in Storing /\ ~ Listed(r)
    /\ MaybeWritten(r)
    /\ Abandon(r, "failed")

\* asyncio cancels a task only where it is suspended.
Cancel(r) ==
    /\ Cancels
    /\ pc[r] \in IF Backend = "memory" THEN Pausing ELSE Pausing \union Storing
    /\ MaybeWritten(r)
    /\ Abandon(r, "cancelled")

\* The process dies and its successor's lifespan builds the pool from the
\* config and initializes the store, which keeps the rows it finds.
Restart ==
    /\ restarts < MaxRestarts
    /\ restarts' = restarts + 1
    /\ definitions' = InitialKeys
    /\ store' = Initialized(IF Backend = "memory" THEN NoRows ELSE store)
    /\ rr_index' = 0
    /\ lock' = None
    /\ pc' = [r \in Requests |-> IF pc[r] \in {"idle"} \union Ended THEN pc[r] ELSE "lost"]
    /\ key' = [r \in Requests |-> None]
    /\ reason' = [r \in Requests |-> None]
    /\ quota' = [r \in Requests |-> None]
    /\ row' = [r \in Requests |-> None]
    /\ unread' = [r \in Requests |-> {}]
    /\ view' = [r \in Requests |-> NoRows]
    /\ key_usage_total' = [k \in Keys |-> 0]
    /\ key_errors_total' = [k \in Keys |-> 0]
    /\ key_cooldown' = [k \in Keys |-> 0]
    /\ failovers_total' = 0
    /\ admin' = None
    /\ UNCHANGED <<loop, clock, edits>>

-----------------------------------------------------------------------------
(* add_key and remove_key change the definitions first and the store next. *)

Without(s, k) ==
    LET i == CHOOSE j \in DOMAIN s : s[j] = k
    IN  SubSeq(s, 1, i - 1) \o SubSeq(s, i + 1, Len(s))

Edit(call, k) ==
    /\ edits < MaxEdits
    /\ edits' = edits + 1
    /\ admin = None
    /\ Backend = "memory" => \A r \in Requests : pc[r] \notin Storing
    /\ admin' = [call |-> call, key |-> k]
    /\ UNCHANGED <<store, rr_index, lock, pc, loop, key, listing, answer, row, metrics,
                   clock, restarts>>

\* A dict keeps the place of a key that is assigned again.
add_key(k) ==
    /\ Edit("add", k)
    /\ definitions' = IF k \in Defined THEN definitions ELSE Append(definitions, k)

remove_key(k) ==
    /\ Edit("remove", k)
    /\ definitions' = IF k \in Defined THEN Without(definitions, k) ELSE definitions

\* The store call of the edit: upsert_state of a fresh row, or delete_state.
FinishEdit ==
    /\ admin # None
    /\ store' = [store EXCEPT ![admin.key] = IF admin.call = "add" THEN Fresh ELSE None]
    /\ admin' = None
    /\ UNCHANGED <<definitions, rr_index, lock, pc, loop, key, listing, answer, row, metrics,
                   clock, edits, restarts>>

\* That call raises or is cancelled and has done nothing (whatever StoreFails and
\* Cancels let happen to requests); the definitions stay changed.  One that has
\* done its work all the same ends as FinishEdit does.
EditFails ==
    /\ admin # None /\ Backend # "memory"
    /\ admin' = None
    /\ UNCHANGED <<pool, pc, loop, key, listing, answer, row, metrics, clock, edits, restarts>>

Tick ==
    /\ clock < MaxClock
    /\ clock' = clock + 1
    /\ UNCHANGED <<pool, pc, loop, key, listing, answer, row, metrics, admin, edits, restarts>>

-----------------------------------------------------------------------------
(* What a request does on its own once it has arrived *)
Serve(r) ==
    \/ AcquireLock(r) \/ ReadStates(r) \/ AcquireKey(r) \/ ListAgain(r) \/ NoHealthyKeys(r)
    \/ Forward(r) \/ Respond(r) \/ NetworkError(r) \/ ForwardRaises(r)
    \/ RecordSuccess(r) \/ RecordTransientError(r) \/ MarkKeyQuotaExhausted(r)
    \/ UpsertSuccess(r) \/ UpsertFailure(r)
    \/ RecordFailover(r) \/ UpsertFailover(r)
    \/ KeyMissing(r) \/ Wake(r)

Next ==
    \/ \E r \in Requests : Arrive(r) \/ Serve(r) \/ StoreError(r) \/ Cancel(r)
    \/ \E k \in Keys : add_key(k) \/ remove_key(k)
    \/ FinishEdit \/ EditFails
    \/ Restart
    \/ Tick

Spec == Init /\ [][Next]_vars

\* The event loop runs every task that can run, the HTTP client's timeouts end
\* every upstream call, and the store answers.  Nothing makes requests arrive,
\* callers cancel, the process crash, or the pool be edited.
Fairness ==
    /\ \A r \in Requests : WF_vars(Serve(r))
    /\ WF_vars(FinishEdit)

FairSpec == Spec /\ Fairness
=============================================================================
