------------------------- MODULE RequestProperties --------------------------
(***************************************************************************)
(* What the request engine gets right, on which backend.                   *)
(***************************************************************************)
EXTENDS RequestEngine

Rows == ({store[k] : k \in Keys} \union {row[r] : r \in Requests}) \ {None}

Answering == Reading \union Writing
Holding   == {"limit", "send"} \union Answering

PoolTyped ==
    /\ definitions \in Seq(Keys)
    /\ store \in [Keys -> Optional(APIKeyState)]
    /\ rr_index \in Nat
    /\ lock \in Optional(Requests)

RequestsTyped ==
    /\ pc \in [Requests -> Steps]
    /\ retryable \in [Requests -> BOOLEAN]
    /\ attempts \in [Requests -> Nat]
    /\ excluded \in [Requests -> SUBSET Keys]
    /\ key \in [Requests -> Optional(Keys)]
    /\ unread \in [Requests -> SUBSET Keys]
    /\ view \in [Requests -> [Keys -> Optional(APIKeyState)]]
    /\ reason \in [Requests -> Optional(Reasons)]
    /\ quota \in [Requests -> Optional(Int)]
    /\ row \in [Requests -> Optional(APIKeyState)]

\* A request has a key, a classified answer and a row to write exactly where the
\* loop has them.
HeldWhereUsed ==
    \A r \in Requests :
        /\ key[r] # None <=> pc[r] \in Holding
        /\ reason[r] # None <=> pc[r] \in Answering
        /\ row[r] # None <=> pc[r] \in Writing

MetricsTyped ==
    /\ key_usage_total \in [Keys -> Nat]
    /\ key_errors_total \in [Keys -> Nat]
    /\ key_cooldown \in [Keys -> {0, 1}]
    /\ failovers_total \in Nat

WorldTyped ==
    /\ admin \in Optional(Edits)
    /\ clock \in Nat \ {0}
    /\ edits \in Nat
    /\ restarts \in Nat

\* The type invariant.
TypeOK == PoolTyped /\ RequestsTyped /\ HeldWhereUsed /\ MetricsTyped /\ WorldTyped

\* Rows are lost but never torn: on every backend, under every interleaving of
\* get_state and upsert_state, crashes, failed writes and edits of the pool, each
\* row in the store or on its way there is a consistent account of its key, and
\* none is dated in the future (key_pool.py:59-95 read and write whole rows).
RowsConsistent ==
    \A s \in Rows :
        /\ RowConsistent(s)
        /\ s.last_used_at # None => s.last_used_at <= clock

\* Every attempt of a request goes out with a key it has not failed with before,
\* and the number of keys it has given up on is the number of attempts that
\* failed (app.py:87-139): excluded_keys and attempts never drift apart.
AttemptsAccounted ==
    \A r \in Requests :
        /\ pc[r] \in {"limit", "send", "read", "write"} =>
              key[r] \notin excluded[r] /\ Cardinality(excluded[r]) = attempts[r] - 1
        /\ pc[r] \in {"read_failover", "write_failover", "sleep"} =>
              Cardinality(excluded[r]) = attempts[r]

\* A request of a method outside retryable_methods is sent at most once, and no
\* request more often than retry_attempts says (at least once: the loop sends
\* before it asks the policy).
RetryBudget ==
    \A r \in Requests : attempts[r] > 1 => retryable[r] /\ attempts[r] <= RetryAttempts

\* The pool's lock is held by the one request that lists the keys, whatever ends
\* the listing: a choice, no healthy key, a store error, a cancellation.
LockAccounted ==
    \A r \in Requests : lock = r <=> pc[r] \in Listing

-----------------------------------------------------------------------------
(* With the in-memory store, where a record_* call is atomic.              *)

\* Errors and failovers are recorded in pairs: a key's error_count is ahead of
\* its failover_count by the requests that are between record_transient_error or
\* mark_key_quota_exhausted and record_failover (app.py:104-106, 120-122, 135-137).
ErrorsMatchFailovers ==
    \A k \in Keys : store[k] # None =>
        store[k].error_count - store[k].failover_count =
            Cardinality({r \in Requests :
                key[r] = k /\ pc[r] \in {"read_failover", "write_failover"}})

\* Metrics and rows are written apart and never drift apart: a key's counters are
\* its row's, successes and errors, and its gauge says whether the row has a
\* cooldown, be it over or not (key_pool.py:68-69, 78, 89-90).  The help texts say
\* more: "currently in cooldown", "requests sent" (metrics.py:23, 41).
MetricsFollowRows ==
    \A k \in Keys : store[k] # None =>
        /\ key_usage_total[k] = store[k].total_requests
        /\ key_errors_total[k] = store[k].error_count
        /\ key_cooldown[k] = 1 <=> store[k].cooldown_until # None

\* r is about to store the success of a request made with k.
SuccessStored(r, k) ==
    key[r] = k /\ reason[r] = "ok" /\ pc[r] = "write" /\ pc'[r] = "responded"

\* An edit of k is under way, or the process starts anew and its store with it.
Renewed(k) == (admin # None /\ admin.key = k) \/ restarts' # restarts

\* Nothing but a success with that key, or an edit of it, withdraws or shortens a
\* running cooldown: no other request's bookkeeping undoes mark_key_quota_exhausted
\* (key_pool.py:59-103).
OnlySuccessEndsCooldown ==
    [][ \A k \in Keys :
          (store[k] # None /\ store'[k] # None /\ is_in_cooldown(store[k], clock)) =>
            \/ store'[k].cooldown_until # None
               /\ store'[k].cooldown_until >= store[k].cooldown_until
            \/ \E r \in Requests : SuccessStored(r, k)
            \/ Renewed(k) ]_vars

\* The keys a request could be given, by the store's rows of this moment.
Available(r) ==
    {k \in Defined \ excluded[r] :
        store[k] = None \/ store[k].cooldown_until = None \/ store[k].cooldown_until <= clock}

\* acquire_key decides on the present: the key it returns is configured, not
\* excluded and out of cooldown as it returns, and it raises NoHealthyKeysError
\* only when there is no such key (key_pool.py:47-57).
ChoiceIsCurrent ==
    [][ \A r \in Requests : pc[r] \in Listing =>
          /\ pc'[r] = "limit" => key'[r] \in Available(r)
          /\ pc'[r] = "no_healthy" => Available(r) = {} ]_vars

\* Once an edit of the pool is complete the store has rows for the configured
\* keys and for no others: a request in flight with a removed key does not bring
\* its row back (key_pool.py:97-103).
RowsMatchDefinitions ==
    admin = None => \A k \in Keys : k \in Defined <=> store[k] # None

-----------------------------------------------------------------------------
(* With SQLite and Redis, where concurrent record_* calls lose updates.    *)

\* Updates are lost, never invented: a row counts no more requests and no more
\* errors than happened, which the process' own metrics count without loss until
\* a crash.
NeverOvercounts ==
    restarts = 0 => \A k \in Keys : store[k] # None =>
        /\ store[k].total_requests <= key_usage_total[k]
        /\ store[k].error_count <= key_errors_total[k]

-----------------------------------------------------------------------------

\* Requests given k and not yet counted by record_success, plus those counted.
Load(k) ==
    store[k].total_requests + Cardinality({r \in Requests : key[r] = k /\ pc[r] \in Holding})

\* Nothing has gone wrong so far.
AllWell ==
    /\ \A k \in Keys : key_errors_total[k] = 0
    /\ \A r \in Requests : pc[r] \notin {"failed", "cancelled", "lost"}

\* docs/strategies.md on round_robin: "evenly rotates requests across all
\* available, healthy keys".  As long as every request succeeds, no key is ahead of
\* another by more than one request, those in flight included.
EvenRotation ==
    AllWell => \A k, l \in Defined : Load(k) <= Load(l) + 1

\* Every request that arrives gets an answer, or is cancelled or lost in a crash:
\* no request waits for ever for the pool's lock, a store call or a retry.
EveryRequestEnds ==
    \A r \in Requests : pc[r] = "acquire" ~> pc[r] \in Ended

-----------------------------------------------------------------------------
(* The contract with the callers.  A call is out from the moment it leaves *)
(* to that of its bookkeeping, which may be cut short.                     *)

Phase(r) ==
    CASE pc[r] \in Ended                               -> "ended"
      [] pc[r] \in {"read", "write"} /\ reason[r] = "ok" -> "accepted"
      [] pc[r] \in {"read", "write"} /\ reason[r] # "ok" -> "out"
      [] pc[r] = "send"                                -> "out"
      [] OTHER                                         -> "waiting"

Contract == INSTANCE RequestContract WITH
    phase  <- [r \in Requests |-> Phase(r)],
    with   <- [r \in Requests |-> IF Phase(r) \in {"out", "accepted"} THEN key[r] ELSE None],
    failed <- excluded

\* The engine makes no upstream call the contract does not allow, on any backend
\* and however its own bookkeeping fails: what a request sends, and with which
\* key, is a behaviour of RequestContract (app.py:87-150).
ImplementsContract == Contract!Spec
=============================================================================
