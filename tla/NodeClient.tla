----------------------------- MODULE NodeClient ------------------------------
(***************************************************************************)
(* The embedded client for Node (sdk-node/src/index.js): the request loop  *)
(* of the gateway in one JavaScript thread, with a rate limiter that has   *)
(* no lock and looks again after every sleep, and with the caller's        *)
(* AbortSignal.  Whatever lies between two awaits is one action; sleeps    *)
(* and fetches are where requests interleave.                              *)
(*                                                                         *)
(* Of a key's state only its cooldown is kept, without its length, and a   *)
(* strategy may return any candidate.                                      *)
(***************************************************************************)
EXTENDS Integers, Sequences, FiniteSets

CONSTANTS
    Requests,       \* calls of request()
    Keys,           \* keyDefinitions
    RetryAttempts,  \* retryAttempts
    Window,         \* ticks of Date.now() in one second
    MaxRequests,    \* maxRequests
    None

ASSUME ClientAssumption ==
    /\ IsFiniteSet(Requests)
    /\ RetryAttempts \in Int
    /\ Window \in Nat \ {0} /\ MaxRequests \in Nat \ {0}
    /\ None \notin Keys

VARIABLES
    pc,         \* where each request is
    retryable,  \* retryableMethod
    attempts,   \* the loop's counter
    excluded,   \* excludedKeys
    key,        \* the id in record, None before and between attempts
    aborted,    \* whether the caller's signal has fired
    timestamps, \* requestTimestamps as ages, oldest first; Window + 1 is "older"
    left,       \* ticks left of each request's sleep in the limiter
    cooling     \* the keys in cooldown

loop    == <<retryable, attempts, excluded, key>>
limiter == <<timestamps, left>>
vars    == <<pc, loop, aborted, limiter, cooling>>

\* "send" is between the limiter and fetch, "out" the time of fetch and of reading
\* the response, "backoff" the sleep before the next attempt.
Places == {"idle", "asleep", "send", "out", "backoff", "settled"}

Larger(a, b)   == IF a > b THEN a ELSE b
Goto(r, place) == pc' = [pc EXCEPT ![r] = place]

Init ==
    /\ pc = [r \in Requests |-> "idle"]
    /\ retryable \in [Requests -> BOOLEAN]
    /\ attempts = [r \in Requests |-> 0]
    /\ excluded = [r \in Requests |-> {}]
    /\ key = [r \in Requests |-> None]
    /\ aborted = [r \in Requests |-> FALSE]
    /\ timestamps = <<>>
    /\ left = [r \in Requests |-> 0]
    /\ cooling = {}

-----------------------------------------------------------------------------
(* acquireRateLimit *)

Recent(ts) ==
    LET kept[n \in 0 .. Len(ts)] ==
            IF n = 0 THEN <<>>
            ELSE IF ts[n] > Window THEN kept[n - 1] ELSE Append(kept[n - 1], ts[n])
    IN  kept[Len(ts)]

\* Mutated form: after its sleep a request goes through without looking again.
acquireRateLimitOnce(r) ==
    LET ts == Recent(timestamps)
    IN  \/ /\ Len(ts) < MaxRequests \/ pc[r] = "asleep"
           /\ timestamps' = Append(ts, 0)
           /\ Goto(r, "send")
           /\ UNCHANGED left
        \/ /\ Len(ts) >= MaxRequests /\ pc[r] # "asleep"
           /\ timestamps' = ts
           /\ Goto(r, "asleep")
           /\ left' = [left EXCEPT ![r] = Larger(Window - ts[1], 1) * Window]

\* The delay is worked out in milliseconds, and slept in seconds.
acquireRateLimit(r) ==
    LET ts == Recent(timestamps)
    IN  \/ /\ Len(ts) < MaxRequests
           /\ timestamps' = Append(ts, 0)
           /\ Goto(r, "send")
           /\ UNCHANGED left
        \/ /\ Len(ts) >= MaxRequests
           /\ timestamps' = ts
           /\ Goto(r, "asleep")
           /\ left' = [left EXCEPT ![r] = Larger(Window - ts[1], 1) * Window]

-----------------------------------------------------------------------------
(* request *)

\* The key is chosen, then the limiter asked; or there is none to choose.
acquireKey(r) ==
    /\ attempts' = [attempts EXCEPT ![r] = @ + 1]
    /\ \/ /\ Keys \ (excluded[r] \union cooling) = {}
          /\ Goto(r, "settled")
          /\ UNCHANGED <<key, limiter>>
       \/ /\ \E k \in Keys \ (excluded[r] \union cooling) : key' = [key EXCEPT ![r] = k]
          /\ acquireRateLimit(r)
    /\ UNCHANGED <<retryable, excluded, aborted, cooling>>

Request(r) == pc[r] = "idle" /\ acquireKey(r)

Retry(r) == pc[r] = "backoff" /\ acquireKey(r)

Wake(r) ==
    /\ pc[r] = "asleep" /\ left[r] = 0
    /\ acquireRateLimit(r)
    /\ UNCHANGED <<loop, aborted, cooling>>

Send(r) ==
    /\ pc[r] = "send" /\ ~ aborted[r]
    /\ Goto(r, "out")
    /\ UNCHANGED <<loop, aborted, limiter, cooling>>

\* Mutated form: one attempt too many.
retryDecisionLate(r) == retryable[r] /\ attempts[r] <= RetryAttempts

retryDecision(r) == retryable[r] /\ attempts[r] < RetryAttempts

\* Mutated form: the attempt's record outlives it.
FailoverKeepsKey(r) ==
    /\ excluded' = [excluded EXCEPT ![r] = @ \union {key[r]}]
    /\ Goto(r, IF retryDecision(r) THEN "backoff" ELSE "settled")
    /\ UNCHANGED <<retryable, attempts, key, aborted, limiter>>

\* recordTransientError or markKeyQuotaExhausted, excludedKeys.add, recordFailover.
Failover(r) ==
    /\ excluded' = [excluded EXCEPT ![r] = @ \union {key[r]}]
    /\ key' = [key EXCEPT ![r] = None]
    /\ Goto(r, IF retryDecision(r) THEN "backoff" ELSE "settled")
    /\ UNCHANGED <<retryable, attempts, aborted, limiter>>

\* Whatever performFetch throws is a network error: an abort or a timeout too, and
\* a URL or a body it cannot build.
FetchRejects(r) ==
    /\ pc[r] \in {"send", "out"}
    /\ Failover(r)
    /\ UNCHANGED cooling

RespondOk(r) ==
    /\ pc[r] = "out"
    /\ Goto(r, "settled")
    /\ key' = [key EXCEPT ![r] = None]
    /\ cooling' = cooling \ {key[r]}
    /\ UNCHANGED <<retryable, attempts, excluded, aborted, limiter>>

RespondQuotaExceeded(r) ==
    /\ pc[r] = "out"
    /\ Failover(r)
    /\ cooling' = cooling \union {key[r]}

RespondTransient(r) ==
    /\ pc[r] = "out"
    /\ Failover(r)
    /\ UNCHANGED cooling

-----------------------------------------------------------------------------
Abort(r) ==
    /\ pc[r] # "settled" /\ ~ aborted[r]
    /\ aborted' = [aborted EXCEPT ![r] = TRUE]
    /\ UNCHANGED <<pc, loop, limiter, cooling>>

Recover(k) ==
    /\ k \in cooling
    /\ cooling' = cooling \ {k}
    /\ UNCHANGED <<pc, loop, aborted, limiter>>

Tick ==
    /\ timestamps' = [i \in DOMAIN timestamps |->
          IF timestamps[i] > Window THEN timestamps[i] ELSE timestamps[i] + 1]
    /\ left' = [r \in Requests |-> IF left[r] > 0 THEN left[r] - 1 ELSE 0]
    /\ UNCHANGED <<pc, loop, aborted, cooling>>

Serve(r) ==
    \/ Retry(r) \/ Wake(r) \/ Send(r)
    \/ FetchRejects(r) \/ RespondOk(r) \/ RespondQuotaExceeded(r) \/ RespondTransient(r)

Next ==
    \/ \E r \in Requests : Request(r) \/ Serve(r) \/ Abort(r)
    \/ \E k \in Keys : Recover(k)
    \/ Tick

Spec == Init /\ [][Next]_vars

-----------------------------------------------------------------------------
\* The type invariant: a request has a key from acquireKey to its recording.
TypeOK ==
    /\ pc \in [Requests -> Places]
    /\ retryable \in [Requests -> BOOLEAN]
    /\ attempts \in [Requests -> Nat]
    /\ excluded \in [Requests -> SUBSET Keys]
    /\ key \in [Requests -> Keys \union {None}]
    /\ \A r \in Requests : key[r] # None <=> pc[r] \in {"asleep", "send", "out"}
    /\ aborted \in [Requests -> BOOLEAN]
    /\ timestamps \in Seq(0 .. Window + 1)
    /\ left \in [Requests -> Nat]
    /\ cooling \in SUBSET Keys

\* Without a lock, however many requests wake up together, the limiter lets no
\* more than maxRequests through in any second (index.js:326-336).
Limit == INSTANCE SlidingWindow WITH log <- Recent(timestamps)
ImplementsWindow == Limit!Spec

\* The loop makes the upstream calls the gateway's contract allows: aborts and
\* time-outs spend attempts and keys like any other failure (index.js:186-262).
Contract == INSTANCE RequestContract WITH
    phase  <- [r \in Requests |->
                 IF pc[r] \in {"send", "out"} THEN "out"
                 ELSE IF pc[r] = "settled" THEN "ended" ELSE "waiting"],
    with   <- [r \in Requests |-> IF pc[r] \in {"send", "out"} THEN key[r] ELSE None],
    failed <- excluded
ImplementsContract == Contract!Spec
=============================================================================
