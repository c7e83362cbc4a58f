---------------------------- MODULE AsyncClient ------------------------------
(***************************************************************************)
(* The life of an AsyncPoolSwitchClient (client.py): the first requests    *)
(* set it up under a lock, with an HTTP client and a key pool, and aclose  *)
(* closes what is there.  Both await other things, so requests and aclose  *)
(* interleave.  What a request does once the client is ready is            *)
(* RequestEngine's; here it matters that it goes on using the store.       *)
(***************************************************************************)
EXTENDS Naturals, FiniteSets

CONSTANTS
    Callers,     \* tasks, each of which makes one request
    Closers,     \* tasks, each of which calls aclose once
    OwnsClient,  \* no HTTP client was passed in
    SetupFails,  \* whether the client's factory, or build_key_pool, may raise
    CloseFails,  \* whether closing the HTTP client, or Redis, may raise
    Cancels,     \* whether a task may be cancelled
    None

ASSUME ClientAssumption ==
    /\ IsFiniteSet(Callers) /\ IsFiniteSet(Closers)
    /\ Callers \intersect Closers = {}
    /\ OwnsClient \in BOOLEAN /\ SetupFails \in BOOLEAN
    /\ CloseFails \in BOOLEAN /\ Cancels \in BOOLEAN
    /\ None \notin Callers \union Closers

VARIABLES
    closed,     \* _closed
    http,       \* _client: "none", "open" or "closed"
    pool,       \* _pool, named by the caller that built it, or None
    lock,       \* the caller that holds _setup_lock, or None
    redis,      \* the callers whose pool has an open connection to Redis
    pc,         \* where each task is
    overtaken,  \* history: the callers aclose found setting up, or waiting to
    interrupted \* history: the callers aclose found serving

client == <<http, pool, lock, redis>>
found  == <<overtaken, interrupted>>
vars   == <<closed, client, pc, found>>

Tasks  == Callers \union Closers
Ended  == {"done", "failed", "refused", "setup_failed"}
Places == {"idle", "wait", "build", "serve", "close_http", "close_redis"} \union Ended

Goto(t, place) == pc' = [pc EXCEPT ![t] = place]
SettingUp      == {t \in Callers : pc[t] \in {"wait", "build"}}
Serving        == {t \in Callers : pc[t] = "serve"}

Init ==
    /\ closed = FALSE
    /\ http = IF OwnsClient THEN "none" ELSE "open"
    /\ pool = None
    /\ lock = None
    /\ redis = {}
    /\ pc = [t \in Tasks |-> "idle"]
    /\ overtaken = {} /\ interrupted = {}

-----------------------------------------------------------------------------
(* _ensure_ready *)

\* The HTTP client is made, if there is none, and the making of the pool begins.
Build(t) ==
    /\ http' = IF http = "none" THEN "open" ELSE http
    /\ redis' = redis \union {t}
    /\ lock' = t
    /\ Goto(t, "build")
    /\ UNCHANGED pool

\* Mutated form: _pool is not tested again under the lock.
SetUpAnyway(t) == Build(t)

\* Under the lock: somebody else has done it, or the client's factory raises, or
\* the set-up begins.  _closed is not tested again.
SetUp(t) ==
    \/ pool # None /\ Goto(t, "serve") /\ UNCHANGED client
    \/ pool = None /\ http = "none" /\ SetupFails /\ Goto(t, "setup_failed") /\ UNCHANGED client
    \/ pool = None /\ Build(t)

\* Where the lock is free and nobody waits for it, it is taken at once.
_ensure_ready(t) ==
    /\ pc[t] = "idle"
    /\ \/ closed /\ Goto(t, "refused") /\ UNCHANGED client
       \/ ~ closed /\ pool # None /\ Goto(t, "serve") /\ UNCHANGED client
       \/ ~ closed /\ pool = None /\ SettingUp = {} /\ SetUp(t)
       \/ ~ closed /\ pool = None /\ SettingUp # {} /\ Goto(t, "wait") /\ UNCHANGED client
    /\ UNCHANGED <<closed, found>>

TakeLock(t) ==
    /\ pc[t] = "wait" /\ lock = None
    /\ SetUp(t)
    /\ UNCHANGED <<closed, found>>

\* Mutated form: _pool is assigned whether or not initialize succeeds.
BuildEitherWay(t) ==
    /\ pc[t] = "build"
    /\ pool' = t
    /\ lock' = None
    /\ \E end \in {"serve", "setup_failed"} : Goto(t, end)
    /\ UNCHANGED <<closed, http, redis, found>>

Built(t) ==
    /\ pc[t] = "build"
    /\ pool' = t
    /\ lock' = None
    /\ Goto(t, "serve")
    /\ UNCHANGED <<closed, http, redis, found>>

\* Mutated form: the lock is kept.
BuildFailsLocked(t) ==
    /\ pc[t] = "build" /\ (SetupFails \/ Cancels)
    /\ Goto(t, "setup_failed")
    /\ UNCHANGED <<closed, client, found>>

\* build_key_pool raises, or the task is cancelled in it: "async with" releases
\* the lock; the HTTP client stays for the next, the connection to Redis for
\* nobody.
BuildFails(t) ==
    /\ pc[t] = "build" /\ (SetupFails \/ Cancels)
    /\ lock' = None
    /\ Goto(t, "setup_failed")
    /\ UNCHANGED <<closed, http, pool, redis, found>>

\* The request reads and writes the store (acquire_key, record_*), which connects
\* to Redis again where it has been closed.
UseStore(t) ==
    /\ pc[t] = "serve"
    /\ redis' = redis \union {pool}
    /\ UNCHANGED <<closed, http, pool, lock, pc, found>>

Served(t) ==
    /\ pc[t] = "serve"
    /\ \E end \in {"done", "failed"} : Goto(t, end)
    /\ UNCHANGED <<closed, client, found>>

-----------------------------------------------------------------------------
(* aclose *)

CloseRedis(t) == Goto(t, IF pool # None THEN "close_redis" ELSE "done")

aclose(t) ==
    /\ pc[t] = "idle"
    /\ \/ closed /\ Goto(t, "done") /\ UNCHANGED <<closed, found>>
       \/ /\ ~ closed /\ closed' = TRUE
          /\ overtaken' = SettingUp /\ interrupted' = Serving
          /\ IF OwnsClient /\ http = "open" THEN Goto(t, "close_http") ELSE CloseRedis(t)
    /\ UNCHANGED client

\* Mutated form: Redis is left open where there was an HTTP client to close.
HttpClosedOnly(t) ==
    /\ pc[t] = "close_http"
    /\ http' = "closed"
    /\ Goto(t, "done")
    /\ UNCHANGED <<closed, pool, lock, redis, found>>

\* _pool is looked at only now.
HttpClosed(t) ==
    /\ pc[t] = "close_http"
    /\ http' = "closed"
    /\ CloseRedis(t)
    /\ UNCHANGED <<closed, pool, lock, redis, found>>

RedisClosed(t) ==
    /\ pc[t] = "close_redis"
    /\ redis' = redis \ {pool}
    /\ Goto(t, "done")
    /\ UNCHANGED <<closed, http, pool, lock, found>>

\* _closed stays set: a later aclose does nothing.
CloseRaises(t) ==
    /\ pc[t] \in {"close_http", "close_redis"} /\ (CloseFails \/ Cancels)
    /\ Goto(t, "failed")
    /\ UNCHANGED <<closed, client, found>>

\* Mutated form: the lock goes, whoever holds it.
CancelUnlocking(t) ==
    /\ Cancels
    /\ \/ pc[t] = "wait" /\ Goto(t, "setup_failed")
       \/ pc[t] = "serve" /\ Goto(t, "failed")
    /\ lock' = None
    /\ UNCHANGED <<closed, http, pool, redis, found>>

\* A task is cancelled while it waits for the lock, or serves.
Cancel(t) ==
    /\ Cancels
    /\ \/ pc[t] = "wait" /\ Goto(t, "setup_failed")
       \/ pc[t] = "serve" /\ Goto(t, "failed")
    /\ UNCHANGED <<closed, client, found>>

-----------------------------------------------------------------------------
Proceed(t) ==
    \/ TakeLock(t) \/ Built(t) \/ BuildFails(t) \/ Served(t)
    \/ HttpClosed(t) \/ RedisClosed(t) \/ CloseRaises(t)

Next ==
    \/ \E t \in Callers : _ensure_ready(t) \/ UseStore(t) \/ Cancel(t)
    \/ \E t \in Closers : aclose(t)
    \/ \E t \in Tasks : Proceed(t)

Spec == Init /\ [][Next]_vars

\* The event loop runs what can run, and what a task awaits comes or raises.
Fairness == \A t \in Tasks : WF_vars(Proceed(t))

FairSpec == Spec /\ Fairness

-----------------------------------------------------------------------------
\* The type invariant: the lock is held by the one caller that sets up.
TypeOK ==
    /\ closed \in BOOLEAN
    /\ http \in {"none", "open", "closed"}
    /\ pool \in Callers \union {None}
    /\ lock \in Callers \union {None}
    /\ redis \in SUBSET Callers
    /\ pc \in [Tasks -> Places]
    /\ overtaken \in SUBSET Callers /\ interrupted \in SUBSET Callers
    /\ \A t \in Callers : lock = t <=> pc[t] = "build"

\* Requests that arrive together set the client up once: neither the HTTP client
\* nor the pool is ever replaced, or made again after aclose has closed it
\* (client.py:146-161).
OneSetUp ==
    [][ /\ pool # None => pool' = pool
        /\ http # "none" => http' # "none"
        /\ http = "closed" => http' = "closed" ]_vars

\* A set-up that failed leaves nothing a request could take for a ready client:
\* who serves, serves with a pool whose initialize has returned.
ServedWhenReady ==
    /\ pool # None => pc[pool] \in {"serve", "done", "failed"}
    /\ \A t \in Callers : pc[t] = "serve" => pool # None /\ http # "none"

Quiet           == \A t \in Tasks : pc[t] \in {"idle"} \union Ended
SomeCloseFailed == \E t \in Closers : pc[t] = "failed"

\* What is still open once all is quiet: Redis connections of set-ups that failed,
\* that of the pool where aclose raised or a request was in flight when it ran,
\* and the HTTP client where aclose raised or a request was setting it up.
\* Otherwise nothing (client.py:183-251, 310-319).
OnlyOvertakenLeak ==
    closed /\ Quiet =>
      /\ redis \subseteq
            {t \in Callers : pc[t] = "setup_failed"}
            \union (IF SomeCloseFailed \/ overtaken \union interrupted # {} THEN {pool} ELSE {})
      /\ OwnsClient /\ http = "open" => SomeCloseFailed \/ overtaken # {}

\* Every request ends, however set-ups, cancellations and aclose fall: a failed
\* set-up lets the next caller try.
EveryCallEnds ==
    \A t \in Tasks : pc[t] # "idle" ~> pc[t] \in Ended
=============================================================================
