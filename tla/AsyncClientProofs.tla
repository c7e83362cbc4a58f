-------------------------- MODULE AsyncClientProofs --------------------------
(***************************************************************************)
(* Proofs about the life of an asynchronous client, for any callers and    *)
(* closers, and with or without each of the failures.                      *)
(***************************************************************************)
EXTENDS AsyncClient, TLAPS

\* A caller is where requests are, a closer where aclose is.
RolesKept ==
    /\ \A t \in Callers : pc[t] \notin {"close_http", "close_redis"}
    /\ \A t \in Closers : pc[t] \in {"idle", "close_http", "close_redis", "done", "failed"}

\* Who sets up has made the HTTP client, and nobody has made a pool before it.
SetUpAlone ==
    \A t \in Callers : pc[t] = "build" => pool = None /\ http # "none"

\* The HTTP client is there before the pool.
HttpWithPool == pool # None => http # "none"

\* Once aclose has begun, only those go on that it found setting up or serving.
OvertakenCounted ==
    closed => /\ SettingUp \subseteq overtaken
              /\ Serving \subseteq overtaken \union interrupted

\* A connection to Redis belongs to a set-up under way, a failed one, or the pool.
RedisCounted ==
    redis \subseteq {t \in Callers : pc[t] \in {"build", "setup_failed"}} \union {pool}

\* What is open once aclose has begun has still to be closed, could not be, or may
\* have been opened by a caller that was in flight.
OpenCounted ==
    closed =>
      /\ pool \in redis =>
            \/ overtaken \union interrupted # {}
            \/ \E c \in Closers : pc[c] \in {"close_http", "close_redis", "failed"}
      /\ OwnsClient /\ http = "open" =>
            \/ overtaken # {}
            \/ \E c \in Closers : pc[c] \in {"close_http", "failed"}

\* The inductive invariant.
ClientInvariant ==
    /\ TypeOK
    /\ ServedWhenReady
    /\ RolesKept
    /\ SetUpAlone
    /\ HttpWithPool
    /\ OvertakenCounted
    /\ RedisCounted
    /\ OpenCounted

LEMMA ClientInit == Init => ClientInvariant
<1> SUFFICES ASSUME Init PROVE ClientInvariant
  OBVIOUS
<1>1. TypeOK
  BY ClientAssumption DEF Init, TypeOK, Tasks, Places, Ended
<1>2. ServedWhenReady /\ RolesKept /\ SetUpAlone /\ HttpWithPool
  BY DEF Init, ServedWhenReady, RolesKept, SetUpAlone, HttpWithPool, Tasks
<1>3. OvertakenCounted /\ RedisCounted /\ OpenCounted
  BY DEF Init, OvertakenCounted, RedisCounted, OpenCounted
<1> QED
  BY <1>1, <1>2, <1>3 DEF ClientInvariant

\* What the actions of a set-up have in common: a caller takes the lock that is
\* free, or goes elsewhere.
LEMMA BuildKeeps ==
    ASSUME ClientInvariant, NEW t \in Callers, pc[t] \in {"idle", "wait"},
           pc[t] = "idle" => ~ closed,
           pool = None, lock = None, Build(t), UNCHANGED <<closed, found>>
    PROVE  ClientInvariant'
<1> USE ClientAssumption DEF ClientInvariant, TypeOK, Build, Goto, Tasks, found
<1>1. /\ pc'[t] = "build" /\ \A u \in Tasks \ {t} : pc'[u] = pc[u]
      /\ http' # "none" /\ http' = IF http = "none" THEN "open" ELSE http
      /\ pool' = None /\ lock' = t /\ redis' = redis \union {t}
      /\ UNCHANGED <<closed, overtaken, interrupted>>
  OBVIOUS
<1>2. closed => t \in overtaken
  BY DEF OvertakenCounted, SettingUp, Serving
<1>3. TypeOK'
  BY <1>1 DEF Places
<1>4. ServedWhenReady' /\ RolesKept' /\ SetUpAlone' /\ HttpWithPool'
  BY <1>1 DEF ServedWhenReady, RolesKept, SetUpAlone, HttpWithPool
<1>5. OvertakenCounted'
  BY <1>1, <1>2 DEF OvertakenCounted, SettingUp, Serving
<1>6. RedisCounted'
  BY <1>1 DEF RedisCounted
<1>7. OpenCounted'
  BY <1>1, <1>2 DEF OpenCounted
<1> QED
  BY <1>3, <1>4, <1>5, <1>6, <1>7

\* A caller that has nothing to do with the set-up, or no more, disturbs nothing.
LEMMA CallerMoves ==
    ASSUME ClientInvariant, NEW t \in Callers, NEW place,
           pc[t] \in {"idle", "wait", "serve"}, Goto(t, place),
           \/ place \in {"refused", "setup_failed"}
           \/ place \in {"done", "failed"} /\ pc[t] = "serve"
           \/ place = "serve" /\ pool # None
           \/ place = "wait" /\ ~ closed /\ pool = None,
           pc[t] = "serve" => place \in {"done", "failed"},
           pc[t] = "idle" /\ place = "serve" => ~ closed,
           UNCHANGED <<closed, client, found>>
    PROVE  ClientInvariant'
<1> USE ClientAssumption DEF ClientInvariant, TypeOK, Goto, Tasks, found, client
<1>1. /\ pc'[t] = place /\ \A u \in Tasks \ {t} : pc'[u] = pc[u]
      /\ UNCHANGED <<closed, http, pool, lock, redis, overtaken, interrupted>>
  OBVIOUS
<1>2. TypeOK'
  BY <1>1 DEF Places, Ended
<1>3. ServedWhenReady'
  <2>1. pool' # None => pc'[pool'] \in {"serve", "done", "failed"}
    <3>1. CASE pool = t
      BY <1>1, <3>1 DEF ServedWhenReady
    <3>2. CASE pool # t
      BY <1>1, <3>2 DEF ServedWhenReady
    <3> QED
      BY <3>1, <3>2
  <2>2. \A u \in Callers : pc'[u] = "serve" => pool' # None /\ http' # "none"
    <3>1. pc'[t] = "serve" => pool # None /\ http # "none"
      BY <1>1 DEF ServedWhenReady, HttpWithPool
    <3> QED
      BY <1>1, <3>1 DEF ServedWhenReady
  <2> QED
    BY <2>1, <2>2 DEF ServedWhenReady
<1>4. RolesKept' /\ SetUpAlone' /\ HttpWithPool'
  BY <1>1 DEF RolesKept, SetUpAlone, HttpWithPool
<1>5. OvertakenCounted'
  <2>1. SettingUp' \subseteq SettingUp \/ ~ closed
    BY <1>1 DEF SettingUp
  <2>2. Serving' \subseteq Serving \union {t}
    BY <1>1 DEF Serving
  <2>3. closed /\ t \in Serving' => t \in overtaken \union interrupted
    BY <1>1 DEF OvertakenCounted, SettingUp, Serving
  <2> QED
    BY <1>1, <2>1, <2>2, <2>3 DEF OvertakenCounted
<1>6. RedisCounted' /\ OpenCounted'
  BY <1>1 DEF RedisCounted, OpenCounted
<1> QED
  BY <1>2, <1>3, <1>4, <1>5, <1>6

\* Under the lock.
LEMMA SetUpKeeps ==
    ASSUME ClientInvariant, NEW t \in Callers, pc[t] \in {"idle", "wait"},
           pc[t] = "idle" => ~ closed,
           lock = None, SetUp(t), UNCHANGED <<closed, found>>
    PROVE  ClientInvariant'
<1>1. CASE pool # None /\ Goto(t, "serve") /\ UNCHANGED client
  BY <1>1, CallerMoves
<1>2. CASE Goto(t, "setup_failed") /\ UNCHANGED client
  BY <1>2, CallerMoves
<1>3. CASE pool = None /\ Build(t)
  BY <1>3, BuildKeeps
<1> QED
  BY <1>1, <1>2, <1>3 DEF SetUp

LEMMA EnsureReadyKeeps ==
    ASSUME ClientInvariant, NEW t \in Callers, _ensure_ready(t)
    PROVE  ClientInvariant'
<1> USE DEF _ensure_ready
<1>1. CASE Goto(t, "refused") /\ UNCHANGED client
  BY <1>1, CallerMoves
<1>2. CASE ~ closed /\ pool # None /\ Goto(t, "serve") /\ UNCHANGED client
  BY <1>2, CallerMoves
<1>3. CASE ~ closed /\ SettingUp = {} /\ SetUp(t)
  <2>1. lock = None
    BY <1>3 DEF ClientInvariant, TypeOK, SettingUp
  <2> QED
    BY <1>3, <2>1, SetUpKeeps
<1>4. CASE ~ closed /\ pool = None /\ Goto(t, "wait") /\ UNCHANGED client
  BY <1>4, CallerMoves
<1> QED
  BY <1>1, <1>2, <1>3, <1>4

LEMMA BuiltKeeps ==
    ASSUME ClientInvariant, NEW t \in Tasks, Built(t)
    PROVE  ClientInvariant'
<1> USE ClientAssumption DEF ClientInvariant, TypeOK, Goto, Tasks, found
<1>1. t \in Callers /\ lock = t /\ pool = None /\ http # "none"
  BY DEF Built, RolesKept, SetUpAlone
<1>2. /\ pc'[t] = "serve" /\ \A u \in Tasks \ {t} : pc'[u] = pc[u]
      /\ pc[t] = "build" /\ pool' = t /\ lock' = None
      /\ UNCHANGED <<closed, http, redis, overtaken, interrupted>>
  BY DEF Built
<1>3. closed => t \in overtaken
  BY <1>1, <1>2 DEF OvertakenCounted, SettingUp, Serving
<1>4. TypeOK'
  <2>1. pc' \in [Tasks -> Places]
    BY <1>2 DEF Built, Places
  <2>2. \A u \in Callers : lock' = u <=> pc'[u] = "build"
    BY <1>1, <1>2
  <2> QED
    BY <1>1, <1>2, <2>1, <2>2
<1>5. ServedWhenReady' /\ RolesKept' /\ SetUpAlone' /\ HttpWithPool'
  BY <1>1, <1>2 DEF ServedWhenReady, RolesKept, SetUpAlone, HttpWithPool
<1>6. OvertakenCounted'
  BY <1>1, <1>2 DEF OvertakenCounted, SettingUp, Serving
<1>7. RedisCounted'
  BY <1>1, <1>2 DEF RedisCounted
<1>8. OpenCounted'
  BY <1>1, <1>2, <1>3 DEF OpenCounted
<1> QED
  BY <1>4, <1>5, <1>6, <1>7, <1>8

LEMMA BuildFailsKeeps ==
    ASSUME ClientInvariant, NEW t \in Tasks, BuildFails(t)
    PROVE  ClientInvariant'
<1> USE ClientAssumption DEF ClientInvariant, TypeOK, Goto, Tasks, found
<1>1. t \in Callers /\ lock = t /\ pool = None
  BY DEF BuildFails, RolesKept, SetUpAlone
<1>2. /\ pc'[t] = "setup_failed" /\ \A u \in Tasks \ {t} : pc'[u] = pc[u]
      /\ pc[t] = "build" /\ lock' = None
      /\ UNCHANGED <<closed, http, pool, redis, overtaken, interrupted>>
  BY DEF BuildFails
<1>3. TypeOK'
  <2>1. pc' \in [Tasks -> Places]
    BY <1>2 DEF BuildFails, Places, Ended
  <2>2. \A u \in Callers : lock' = u <=> pc'[u] = "build"
    BY <1>1, <1>2
  <2> QED
    BY <1>1, <1>2, <2>1, <2>2
<1>4. ServedWhenReady' /\ RolesKept' /\ SetUpAlone' /\ HttpWithPool'
  BY <1>1, <1>2 DEF ServedWhenReady, RolesKept, SetUpAlone, HttpWithPool
<1>5. OvertakenCounted'
  BY <1>1, <1>2 DEF OvertakenCounted, SettingUp, Serving
<1>6. RedisCounted' /\ OpenCounted'
  BY <1>1, <1>2 DEF RedisCounted, OpenCounted
<1> QED
  BY <1>3, <1>4, <1>5, <1>6

LEMMA AcloseKeeps ==
    ASSUME ClientInvariant, NEW t \in Closers, aclose(t)
    PROVE  ClientInvariant'
<1> USE ClientAssumption DEF ClientInvariant, TypeOK, Goto, Tasks, found, client
<1>1. /\ pc[t] = "idle" /\ \A u \in Tasks \ {t} : pc'[u] = pc[u]
      /\ pc'[t] \in {"close_http", "close_redis", "done"}
      /\ closed' = TRUE /\ UNCHANGED <<http, pool, lock, redis>>
  BY DEF aclose, CloseRedis
<1>2. TypeOK'
  <2>1. overtaken' \in SUBSET Callers /\ interrupted' \in SUBSET Callers
    BY DEF aclose, SettingUp, Serving
  <2>2. pc' \in [Tasks -> Places]
    BY DEF aclose, CloseRedis, Places, Ended
  <2> QED
    BY <1>1, <2>1, <2>2
<1>3. ServedWhenReady' /\ RolesKept' /\ SetUpAlone' /\ HttpWithPool' /\ RedisCounted'
  BY <1>1 DEF ServedWhenReady, RolesKept, SetUpAlone, HttpWithPool, RedisCounted
<1>4. OvertakenCounted'
  BY <1>1 DEF OvertakenCounted, SettingUp, Serving, aclose
<1>5. OpenCounted'
  <2>1. CASE closed
    <3>1. /\ overtaken' = overtaken /\ interrupted' = interrupted
          /\ \A c \in Closers : pc[c] # "idle" => pc'[c] = pc[c]
      BY <1>1, <2>1 DEF aclose
    <3> QED
      BY <1>1, <2>1, <3>1 DEF OpenCounted
  <2>2. CASE ~ closed
    <3>1. OwnsClient /\ http = "open" => pc'[t] = "close_http"
      BY <2>2 DEF aclose
    <3>2. pool # None => pc'[t] \in {"close_http", "close_redis"}
      BY <2>2 DEF aclose, CloseRedis
    <3>3. pool \in redis => pool # None
      OBVIOUS
    <3> QED
      BY <1>1, <3>1, <3>2, <3>3 DEF OpenCounted
  <2> QED
    BY <2>1, <2>2
<1> QED
  BY <1>2, <1>3, <1>4, <1>5

\* The rest of aclose.
LEMMA CloserMoves ==
    ASSUME ClientInvariant, NEW t \in Tasks,
           HttpClosed(t) \/ RedisClosed(t) \/ CloseRaises(t)
    PROVE  ClientInvariant'
<1> USE ClientAssumption DEF ClientInvariant, TypeOK, Goto, Tasks, found, client
<1>1. t \in Closers
  BY DEF HttpClosed, RedisClosed, CloseRaises, RolesKept
<1>2. /\ \A u \in Tasks \ {t} : pc'[u] = pc[u]
      /\ pc[t] \in {"close_http", "close_redis"}
      /\ pc'[t] \in {"close_redis", "done", "failed"}
      /\ http' \in {http, "closed"} /\ redis' \in {redis, redis \ {pool}}
      /\ UNCHANGED <<closed, pool, lock, overtaken, interrupted>>
  BY DEF HttpClosed, RedisClosed, CloseRaises, CloseRedis
<1>3. TypeOK'
  <2>1. pc' \in [Tasks -> Places]
    BY DEF HttpClosed, RedisClosed, CloseRaises, CloseRedis, Places, Ended
  <2> QED
    BY <1>1, <1>2, <2>1
<1>4. ServedWhenReady' /\ RolesKept' /\ SetUpAlone' /\ HttpWithPool'
  BY <1>1, <1>2 DEF ServedWhenReady, RolesKept, SetUpAlone, HttpWithPool
<1>5. OvertakenCounted' /\ RedisCounted'
  BY <1>1, <1>2 DEF OvertakenCounted, SettingUp, Serving, RedisCounted
<1>6. OpenCounted'
  BY <1>1, <1>2 DEF OpenCounted, HttpClosed, RedisClosed, CloseRaises, CloseRedis
<1> QED
  BY <1>3, <1>4, <1>5, <1>6

\* A request that uses the store connects to Redis for the pool, and was in flight
\* if aclose has run.
LEMMA UseStoreKeeps ==
    ASSUME ClientInvariant, NEW t \in Callers, UseStore(t)
    PROVE  ClientInvariant'
<1> USE DEF ClientInvariant, TypeOK, found
<1>1. /\ pc[t] = "serve" /\ redis' = redis \union {pool}
      /\ UNCHANGED <<closed, http, pool, lock, pc, overtaken, interrupted>>
  BY DEF UseStore
<1>2. pool \in Callers
  BY <1>1 DEF ServedWhenReady
<1>3. closed => t \in overtaken \union interrupted
  BY <1>1 DEF OvertakenCounted, Serving
<1>4. TypeOK'
  BY <1>1, <1>2
<1>5. ServedWhenReady' /\ RolesKept' /\ SetUpAlone' /\ HttpWithPool'
  BY <1>1 DEF ServedWhenReady, RolesKept, SetUpAlone, HttpWithPool
<1>6. OvertakenCounted' /\ RedisCounted'
  BY <1>1 DEF OvertakenCounted, SettingUp, Serving, RedisCounted
<1>7. OpenCounted'
  BY <1>1, <1>3 DEF OpenCounted
<1> QED
  BY <1>4, <1>5, <1>6, <1>7

LEMMA ClientStep == ClientInvariant /\ [Next]_vars => ClientInvariant'
<1> SUFFICES ASSUME ClientInvariant, [Next]_vars PROVE ClientInvariant'
  OBVIOUS
<1>1. ASSUME NEW t \in Tasks, pc[t] \in {"wait", "serve"} PROVE t \in Callers
  BY <1>1 DEF ClientInvariant, RolesKept, Tasks
<1>2. ASSUME NEW t \in Callers, _ensure_ready(t) PROVE ClientInvariant'
  BY <1>2, EnsureReadyKeeps
<1>3. ASSUME NEW t \in Callers, Cancel(t) \/ UseStore(t) PROVE ClientInvariant'
  BY <1>3, CallerMoves, UseStoreKeeps DEF Cancel
<1>4. ASSUME NEW t \in Closers, aclose(t) PROVE ClientInvariant'
  BY <1>4, AcloseKeeps
<1>5. ASSUME NEW t \in Tasks, TakeLock(t) PROVE ClientInvariant'
  BY <1>5, <1>1, SetUpKeeps DEF TakeLock
<1>6. ASSUME NEW t \in Tasks, Built(t) \/ BuildFails(t) PROVE ClientInvariant'
  BY <1>6, BuiltKeeps, BuildFailsKeeps
<1>7. ASSUME NEW t \in Tasks, Served(t) PROVE ClientInvariant'
  <2>1. PICK end \in {"done", "failed"} : Goto(t, end)
    BY <1>7 DEF Served
  <2> QED
    BY <1>7, <1>1, <2>1, CallerMoves DEF Served
<1>8. ASSUME NEW t \in Tasks, HttpClosed(t) \/ RedisClosed(t) \/ CloseRaises(t)
      PROVE  ClientInvariant'
  BY <1>8, CloserMoves
<1>9. ASSUME UNCHANGED vars PROVE ClientInvariant'
  BY <1>9 DEF vars, client, found, ClientInvariant, TypeOK, ServedWhenReady, RolesKept, SetUpAlone,
        HttpWithPool,
        OvertakenCounted, SettingUp, Serving, RedisCounted, OpenCounted
<1> QED
  BY <1>2, <1>3, <1>4, <1>5, <1>6, <1>7, <1>8, <1>9 DEF Next, Proceed

LEMMA ClientInvariantHolds == Spec => []ClientInvariant
BY ClientInit, ClientStep, PTL DEF Spec

-----------------------------------------------------------------------------
\* The types hold, and _setup_lock is held by the one caller that sets up.
THEOREM TypeCorrect == Spec => []TypeOK
<1>1. ClientInvariant => TypeOK
  BY DEF ClientInvariant
<1> QED
  BY <1>1, ClientInvariantHolds, PTL

\* Nobody serves without a pool that is initialized and an HTTP client, whatever
\* failed, was cancelled or was closed before (client.py:146-161).
THEOREM ReadyBeforeServing == Spec => []ServedWhenReady
<1>1. ClientInvariant => ServedWhenReady
  BY DEF ClientInvariant
<1> QED
  BY <1>1, ClientInvariantHolds, PTL

\* Once all is quiet, what is open after aclose is accounted for: a set-up that
\* failed, an aclose that raised, or a request that was in flight and has used the
\* store, or gone on setting up, since (client.py:183-251, 310-319).
THEOREM LeaksAccounted == Spec => []OnlyOvertakenLeak
<1>1. ASSUME ClientInvariant PROVE OnlyOvertakenLeak
  <2> SUFFICES ASSUME closed, Quiet
               PROVE  /\ redis \subseteq
                            {t \in Callers : pc[t] = "setup_failed"}
                            \union (IF SomeCloseFailed \/ overtaken \union interrupted # {}
                                    THEN {pool} ELSE {})
                      /\ OwnsClient /\ http = "open" => SomeCloseFailed \/ overtaken # {}
    BY DEF OnlyOvertakenLeak
  <2>1. \A c \in Closers : pc[c] \notin {"close_http", "close_redis"}
    BY DEF Quiet, Tasks, Ended
  <2>2. \A t \in Callers : pc[t] # "build"
    BY DEF Quiet, Tasks, Ended
  <2>3. pool \in redis => SomeCloseFailed \/ overtaken \union interrupted # {}
    BY <2>1, <1>1 DEF ClientInvariant, OpenCounted, SomeCloseFailed
  <2>4. OwnsClient /\ http = "open" => SomeCloseFailed \/ overtaken # {}
    BY <2>1, <1>1 DEF ClientInvariant, OpenCounted, SomeCloseFailed
  <2>5. redis \subseteq {t \in Callers : pc[t] = "setup_failed"} \union {pool}
    BY <2>2, <1>1 DEF ClientInvariant, RedisCounted
  <2> QED
    BY <2>3, <2>4, <2>5
<1> QED
  BY <1>1, ClientInvariantHolds, PTL

\* A pool or HTTP client is made once, and a closed client is not opened again: the
\* lock and the second test of _pool suffice (client.py:146-161).
THEOREM SetUpOnce == Spec => OneSetUp
<1>1. ASSUME ClientInvariant, [Next]_vars
      PROVE  [ /\ pool # None => pool' = pool
               /\ http # "none" => http' # "none"
               /\ http = "closed" => http' = "closed" ]_vars
  <2> USE DEF Goto, client, ClientInvariant, TypeOK
  <2>1. ASSUME NEW t, SetUp(t) PROVE pool' = pool /\ (http # "none" => http' = http)
    BY <2>1 DEF SetUp, Build
  <2>2. ASSUME NEW t \in Callers, _ensure_ready(t) \/ UseStore(t) \/ Cancel(t)
        PROVE  pool' = pool /\ (http # "none" => http' = http)
    BY <2>2, <2>1 DEF _ensure_ready, UseStore, Cancel
  <2>3. ASSUME NEW t \in Closers, aclose(t) PROVE pool' = pool /\ http' = http
    BY <2>3 DEF aclose
  <2>4. ASSUME NEW t \in Tasks, TakeLock(t)
        PROVE  pool' = pool /\ (http # "none" => http' = http)
    BY <2>4, <2>1 DEF TakeLock
  <2>5. ASSUME NEW t \in Tasks, Built(t) PROVE pool = None /\ http' = http
    <3>1. t \in Callers
      BY <1>1, <2>5 DEF Built, RolesKept, Tasks
    <3>2. pool = None
      BY <1>1, <2>5, <3>1 DEF Built, SetUpAlone
    <3> QED
      BY <2>5, <3>2 DEF Built
  <2>6. ASSUME NEW t \in Tasks,
               BuildFails(t) \/ Served(t) \/ HttpClosed(t) \/ RedisClosed(t) \/ CloseRaises(t)
        PROVE  pool' = pool /\ http' \in {http, "closed"}
    BY <2>6 DEF BuildFails, Served, HttpClosed, RedisClosed, CloseRaises
  <2> QED
    BY <1>1, <2>2, <2>3, <2>4, <2>5, <2>6 DEF Next, Proceed, vars
<1> QED
  BY <1>1, ClientInvariantHolds, PTL DEF Spec, OneSetUp
=============================================================================
