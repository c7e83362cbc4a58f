---------------------------- MODULE MemoryProofs -----------------------------
(***************************************************************************)
(* Proofs about the request engine over the in-memory store, where nothing *)
(* else runs between two store calls of a request, for any requests, keys, *)
(* strategy and retry budget; and what counts on every store.              *)
(***************************************************************************)
EXTENDS RequestProofs, SequenceTheorems

-----------------------------------------------------------------------------
(* Steps of one request                                                    *)

\* A step of r by itself.
Moves(r) == Arrive(r) \/ Serve(r) \/ StoreError(r) \/ Cancel(r)

\* A step of r leaves the rest of what other requests have alone too.
LEMMA OthersKept ==
    ASSUME TypeOK, NEW r \in Requests, NEW q \in Requests \ {r}, Moves(r)
    PROVE  /\ pc'[q] = pc[q] /\ key'[q] = key[q] /\ reason'[q] = reason[q]
           /\ quota'[q] = quota[q] /\ row'[q] = row[q]
           /\ unread'[q] = unread[q] /\ view'[q] = view[q]
<1> USE DEF TypeOK, RequestsTyped, Goto, Forget, loop, answer, listing, upsert_state
<1>1. CASE Arrive(r) \/ AcquireLock(r) \/ AcquireKey(r) \/ ListAgain(r) \/ NoHealthyKeys(r)
  BY <1>1 DEF Arrive, AcquireLock, AcquireKey, ListAgain, NoHealthyKeys
<1>2. CASE ReadStates(r)
  BY <1>2 DEF ReadStates
<1>3. CASE Forward(r) \/ Respond(r) \/ NetworkError(r) \/ ForwardRaises(r)
  BY <1>3 DEF Forward, Respond, NetworkError, ForwardRaises
<1>4. CASE RecordSuccess(r) \/ RecordTransientError(r) \/ MarkKeyQuotaExhausted(r)
             \/ RecordFailover(r) \/ KeyMissing(r)
  BY <1>4 DEF RecordSuccess, RecordTransientError, MarkKeyQuotaExhausted, RecordFailover,
              Read, KeyMissing
<1>5. CASE UpsertSuccess(r) \/ UpsertFailure(r) \/ UpsertFailover(r) \/ Wake(r)
  BY <1>5 DEF UpsertSuccess, UpsertFailure, UpsertFailover, Wake
<1>6. CASE StoreError(r) \/ Cancel(r)
  BY <1>6 DEF StoreError, Cancel, Abandon
<1> QED
  BY <1>1, <1>2, <1>3, <1>4, <1>5, <1>6 DEF Serve, Moves

\* A step of r leaves the world alone, and the definitions.
LEMMA WorldKept ==
    ASSUME NEW r \in Requests, Moves(r)
    PROVE  definitions' = definitions /\ admin' = admin /\ clock' = clock /\ edits' = edits
           /\ restarts' = restarts
<1> USE DEF world, pool, upsert_state
<1>1. CASE Arrive(r) \/ AcquireLock(r) \/ AcquireKey(r) \/ ListAgain(r) \/ NoHealthyKeys(r)
             \/ ReadStates(r)
  BY <1>1 DEF Arrive, AcquireLock, AcquireKey, ListAgain, NoHealthyKeys, ReadStates
<1>2. CASE Forward(r) \/ Respond(r) \/ NetworkError(r) \/ ForwardRaises(r)
  BY <1>2 DEF Forward, Respond, NetworkError, ForwardRaises
<1>3. CASE RecordSuccess(r) \/ RecordTransientError(r) \/ MarkKeyQuotaExhausted(r)
             \/ RecordFailover(r) \/ KeyMissing(r)
  BY <1>3 DEF RecordSuccess, RecordTransientError, MarkKeyQuotaExhausted, RecordFailover,
              Read, KeyMissing
<1>4. CASE UpsertSuccess(r) \/ UpsertFailure(r) \/ UpsertFailover(r) \/ Wake(r)
  BY <1>4 DEF UpsertSuccess, UpsertFailure, UpsertFailover, Wake
<1>5. CASE StoreError(r) \/ Cancel(r)
  BY <1>5 DEF StoreError, Cancel, Abandon
<1> QED
  BY <1>1, <1>2, <1>3, <1>4, <1>5 DEF Serve, Moves

\* The store and the metrics change only in the writes.
Writes(r) == UpsertSuccess(r) \/ UpsertFailure(r) \/ UpsertFailover(r)

\* Every write returns: the in-memory store's do, the others' where the store does
\* not fail and nobody cancels.  One that raises may have taken effect.
WritesReturn == Backend = "memory" \/ (StoreFails = FALSE /\ Cancels = FALSE)

LEMMA StoreKept ==
    ASSUME WritesReturn, NEW r \in Requests, Moves(r), ~ Writes(r)
    PROVE  store' = store /\ UNCHANGED metrics
<1> USE DEF pool
<1>1. CASE Arrive(r) \/ AcquireLock(r) \/ AcquireKey(r) \/ ListAgain(r) \/ NoHealthyKeys(r)
             \/ ReadStates(r)
  BY <1>1 DEF Arrive, AcquireLock, AcquireKey, ListAgain, NoHealthyKeys, ReadStates
<1>2. CASE Forward(r) \/ Respond(r) \/ NetworkError(r) \/ ForwardRaises(r)
  BY <1>2 DEF Forward, Respond, NetworkError, ForwardRaises
<1>3. CASE RecordSuccess(r) \/ RecordTransientError(r) \/ MarkKeyQuotaExhausted(r)
             \/ RecordFailover(r) \/ KeyMissing(r) \/ Wake(r)
  BY <1>3 DEF RecordSuccess, RecordTransientError, MarkKeyQuotaExhausted, RecordFailover,
              Read, KeyMissing, Wake
<1>4. CASE Cancel(r)
  <2>1. Backend = "memory"
    BY <1>4 DEF Cancel, WritesReturn
  <2> QED
    BY <1>4, <2>1 DEF Cancel, Abandon, MaybeWritten, Pausing, Writing
<1>5. ~ StoreError(r)
  BY DEF StoreError, WritesReturn
<1> QED
  BY <1>1, <1>2, <1>3, <1>4, <1>5 DEF Serve, Moves, Writes

-----------------------------------------------------------------------------
(* What a request has read is what the store still has                     *)

\* One request at a time is between its store calls, and no edit of the pool is.
Alone ==
    /\ \A q, r \in Requests : pc[q] \in Storing /\ pc[r] \in Storing => q = r
    /\ admin # None => \A r \in Requests : pc[r] \notin Storing

\* What r makes at a time of the row it has read.
Made(r, s, now) ==
    IF pc[r] = "write_failover" THEN FailedOver(s)
    ELSE IF reason[r] = "ok" THEN Succeeded(s, now, quota[r])
    ELSE IF reason[r] = "quota_exceeded" THEN QuotaExhausted(s, now)
    ELSE TransientError(s, now, reason[r])

\* The row r is about to write is made of the row that is in the store, at a time
\* when that row had been there.
MadeOf(r, s) ==
    /\ s # None
    /\ \E now \in 0 .. clock :
          /\ s.last_used_at # None => s.last_used_at <= now
          /\ row[r] = Made(r, s, now)

RowInHand(r) == pc[r] \in Writing => MadeOf(r, store[key[r]])

\* A listing has read nothing yet or what the store has.
ViewCurrent(r) ==
    pc[r] \in Listing =>
        unread[r] = Keys \/ (unread[r] = {} /\ \A k \in Keys : view[r][k] = store[k])

Current(r) == RowInHand(r) /\ ViewCurrent(r)

MemoryInvariant == Alone /\ \A r \in Requests : Current(r)

LEMMA MemoryInit == Init => MemoryInvariant
BY DEF Init, MemoryInvariant, Alone, Current, RowInHand, ViewCurrent, Storing, Listing,
       Reading, Writing

\* A request that is not between two store calls has nothing to be current.
LEMMA IdleCurrent ==
    ASSUME NEW r \in Requests, pc[r] \notin Storing
    PROVE  Current(r)
BY DEF Current, RowInHand, ViewCurrent, Storing

\* Nor does time, or what leaves the store and the request alone, make it stale.
LEMMA CurrentKept ==
    ASSUME TypeOK, NEW q \in Requests, Current(q), store' = store, clock <= clock',
           clock' \in Nat,
           pc'[q] = pc[q], key'[q] = key[q], reason'[q] = reason[q], quota'[q] = quota[q],
           row'[q] = row[q], unread'[q] = unread[q], view'[q] = view[q]
    PROVE  Current(q)'
<1>1. ASSUME NEW s, MadeOf(q, s) PROVE MadeOf(q, s)'
  <2>1. PICK now \in 0 .. clock :
            /\ s.last_used_at # None => s.last_used_at <= now
            /\ row[q] = Made(q, s, now)
    BY <1>1 DEF MadeOf
  <2>2. now \in 0 .. clock'
    BY <2>1 DEF TypeOK, WorldTyped
  <2>3. row'[q] = Made(q, s, now)'
    BY <2>1 DEF Made
  <2> QED
    BY <1>1, <2>1, <2>2, <2>3 DEF MadeOf
<1>2. store'[key'[q]] = store[key[q]]
  OBVIOUS
<1>3. RowInHand(q)'
  BY <1>1, <1>2 DEF Current, RowInHand, MadeOf, Made
<1>4. ViewCurrent(q)'
  BY DEF Current, ViewCurrent
<1> QED
  BY <1>3, <1>4 DEF Current

\* A request begins a stretch of store calls only when it is its turn.
LEMMA BeginsInTurn ==
    ASSUME TypeOK, NEW r \in Requests, Moves(r), pc'[r] \in Storing, pc[r] \notin Storing
    PROVE  Turn(r)
<1> USE DEF TypeOK, RequestsTyped, Goto, Storing, Listing, Reading, Writing
<1>1. CASE AcquireLock(r) \/ ReadStates(r) \/ ListAgain(r) \/ Respond(r) \/ NetworkError(r)
  BY <1>1 DEF AcquireLock, ReadStates, ListAgain, Listed, Respond, NetworkError
<1>2. CASE Arrive(r) \/ AcquireKey(r) \/ NoHealthyKeys(r) \/ Forward(r) \/ ForwardRaises(r)
             \/ KeyMissing(r) \/ Wake(r)
  BY <1>2 DEF Arrive, AcquireKey, NoHealthyKeys, Forward, ForwardRaises, KeyMissing, Wake
<1>3. CASE RecordSuccess(r) \/ RecordTransientError(r) \/ MarkKeyQuotaExhausted(r)
             \/ RecordFailover(r) \/ Writes(r)
  BY <1>3 DEF RecordSuccess, RecordTransientError, MarkKeyQuotaExhausted, RecordFailover,
              Read, Writes, UpsertSuccess, UpsertFailure, UpsertFailover
<1>4. CASE StoreError(r) \/ Cancel(r)
  BY <1>4 DEF StoreError, Cancel, Abandon
<1> QED
  BY <1>1, <1>2, <1>3, <1>4 DEF Serve, Moves, Writes

LEMMA AloneStep == ASSUME Backend = "memory", TypeOK, Alone, [Next]_vars PROVE Alone'
<1>1. ASSUME NEW r \in Requests, Moves(r) PROVE Alone'
  <2>1. \A q \in Requests \ {r} : pc'[q] = pc[q]
    BY <1>1, OthersKept
  <2>2. admin' = admin
    BY <1>1, WorldKept
  <2>3. pc'[r] \in Storing /\ pc[r] \notin Storing => Turn(r)
    BY <1>1, BeginsInTurn
  <2> QED
    BY <2>1, <2>2, <2>3 DEF Alone, Turn
<1>2. ASSUME NEW k \in Keys, add_key(k) \/ remove_key(k) PROVE Alone'
  BY <1>2 DEF add_key, remove_key, Edit, Alone
<1>3. ASSUME FinishEdit \/ EditFails PROVE Alone'
  BY <1>3 DEF FinishEdit, EditFails, Alone
<1>4. ASSUME Restart PROVE Alone'
  <2>1. \A r \in Requests : pc'[r] \notin Storing
    BY <1>4 DEF Restart, Ended, Answered, Storing, Listing, Reading, Writing
  <2> QED
    BY <2>1 DEF Alone
<1>5. ASSUME Tick \/ UNCHANGED vars PROVE Alone'
  BY <1>5 DEF Tick, vars, world, Alone
<1> QED
  BY <1>1, <1>2, <1>3, <1>4, <1>5 DEF Next, Moves

\* A request's own step makes its row from the store's, or reads the store's rows.
LEMMA OwnCurrent ==
    ASSUME Backend = "memory", TypeOK, RowsConsistent, NEW r \in Requests, Current(r), Moves(r)
    PROVE  Current(r)'
<1> USE DEF TypeOK, RequestsTyped, Goto
<1>1. ASSUME pc'[r] \notin Storing PROVE Current(r)'
  BY <1>1 DEF Current, RowInHand, ViewCurrent, Storing
<1>2. CASE Arrive(r) \/ AcquireKey(r) \/ NoHealthyKeys(r) \/ Forward(r) \/ ForwardRaises(r)
             \/ KeyMissing(r) \/ Wake(r) \/ UpsertSuccess(r) \/ UpsertFailover(r)
             \/ StoreError(r) \/ Cancel(r)
  <2>1. pc'[r] \notin Storing
    BY <1>2 DEF Arrive, AcquireKey, NoHealthyKeys, Forward, ForwardRaises, KeyMissing, Wake,
                UpsertSuccess, UpsertFailover, StoreError, Cancel, Abandon, Storing, Listing,
                Reading, Writing
  <2> QED
    BY <2>1, <1>1
<1>3. CASE Respond(r) \/ NetworkError(r) \/ UpsertFailure(r)
  <2>1. pc'[r] \notin Listing \union Writing
    BY <1>3 DEF Respond, NetworkError, UpsertFailure, Listing, Writing
  <2> QED
    BY <2>1 DEF Current, RowInHand, ViewCurrent
<1>4. CASE AcquireLock(r) \/ ListAgain(r)
  <2>1. pc'[r] \notin Writing /\ unread'[r] = Keys
    BY <1>4 DEF AcquireLock, ListAgain, Writing
  <2> QED
    BY <2>1 DEF Current, RowInHand, ViewCurrent
<1>5. CASE ReadStates(r)
  <2>1. PICK S \in {unread[r]} \ {{}} :
            /\ view' = [view EXCEPT ![r] = [k \in Keys |-> IF k \in S THEN store[k] ELSE view[r][k]]]
            /\ unread' = [unread EXCEPT ![r] = @ \ S]
    BY <1>5 DEF ReadStates
  <2>2. S = unread[r] /\ S # {} /\ pc' = pc /\ store' = store /\ pc[r] \in Listing
    BY <1>5, <2>1 DEF ReadStates, pool
  <2>3. unread[r] = Keys
    BY <2>2 DEF Current, ViewCurrent
  <2>4. unread'[r] = {} /\ \A k \in Keys : view'[r][k] = store'[k]
    BY <2>1, <2>2, <2>3
  <2>5. pc'[r] \notin Writing
    BY <2>2 DEF Listing, Writing
  <2> QED
    BY <2>4, <2>5 DEF Current, RowInHand, ViewCurrent
<1>6. ASSUME NEW step, NEW next, NEW new, Read(r, step, next, new),
             step \in Reading, next \in Writing,
             new = Made(r, store[key[r]], clock)'
      PROVE  Current(r)'
  <2> DEFINE s == store[key[r]]
  <2>1. s # None /\ store' = store /\ key' = key /\ clock' = clock /\ row'[r] = new
        /\ pc'[r] = next /\ pc[r] \in Reading
    BY <1>6 DEF Read, pool, world
  <2>2. key[r] \in Keys
    BY <2>1 DEF HeldWhereUsed, Holding, Answering, Optional
  <2>3. s \in Rows /\ clock \in Nat
    BY <2>1, <2>2 DEF Rows, WorldTyped
  <2>4. s.last_used_at # None => s.last_used_at <= clock
    BY <2>3 DEF RowsConsistent
  <2>5. s' = s /\ row'[r] = Made(r, s, clock)'
    BY <1>6, <2>1
  <2> HIDE DEF s
  <2>6. clock \in 0 .. clock'
    BY <2>1, <2>3
  <2>7. MadeOf(r, s)'
    BY <2>1, <2>4, <2>5, <2>6 DEF MadeOf
  <2>8. RowInHand(r)'
    BY <2>7 DEF RowInHand, s
  <2>9. pc'[r] \notin Listing
    BY <1>6, <2>1 DEF Writing, Listing
  <2> QED
    BY <2>8, <2>9 DEF Current, ViewCurrent
<1>7. ASSUME NEW step, NEW next, NEW new, Read(r, step, next, new)
      PROVE  pc'[r] = next /\ store' = store /\ key' = key /\ clock' = clock
             /\ reason' = reason /\ quota' = quota
  BY <1>7 DEF Read, pool, world, answer
<1>8. CASE RecordSuccess(r)
  <2>1. Read(r, "read", "write", Succeeded(store[key[r]], clock, quota[r])) /\ reason[r] = "ok"
    BY <1>8 DEF RecordSuccess
  <2>2. Succeeded(store[key[r]], clock, quota[r]) = Made(r, store[key[r]], clock)'
    BY <1>7, <2>1 DEF Made
  <2> QED
    BY <2>1, <2>2, <1>6 DEF Reading, Writing
<1>9. CASE RecordTransientError(r)
  <2>1. /\ Read(r, "read", "write", TransientError(store[key[r]], clock, reason[r]))
        /\ reason[r] # "ok" /\ reason[r] # "quota_exceeded"
    BY <1>9 DEF RecordTransientError
  <2>2. TransientError(store[key[r]], clock, reason[r]) = Made(r, store[key[r]], clock)'
    BY <1>7, <2>1 DEF Made
  <2> QED
    BY <2>1, <2>2, <1>6 DEF Reading, Writing
<1>10. CASE MarkKeyQuotaExhausted(r)
  <2>1. /\ Read(r, "read", "write", QuotaExhausted(store[key[r]], clock))
        /\ reason[r] = "quota_exceeded"
    BY <1>10 DEF MarkKeyQuotaExhausted
  <2>2. QuotaExhausted(store[key[r]], clock) = Made(r, store[key[r]], clock)'
    BY <1>7, <2>1 DEF Made
  <2> QED
    BY <2>1, <2>2, <1>6 DEF Reading, Writing
<1>11. CASE RecordFailover(r)
  <2>1. Read(r, "read_failover", "write_failover", FailedOver(store[key[r]]))
    BY <1>11 DEF RecordFailover
  <2>2. FailedOver(store[key[r]]) = Made(r, store[key[r]], clock)'
    BY <1>7, <2>1 DEF Made
  <2> QED
    BY <2>1, <2>2, <1>6 DEF Reading, Writing
<1> QED
  BY <1>2, <1>3, <1>4, <1>5, <1>8, <1>9, <1>10, <1>11 DEF Serve, Moves

LEMMA MemoryStep ==
    ASSUME Backend = "memory", TypeOK, RowsConsistent, MemoryInvariant, [Next]_vars
    PROVE  MemoryInvariant'
<1> USE DEF MemoryInvariant
<1>1. Alone'
  BY AloneStep
<1>2. clock' \in Nat /\ clock <= clock'
  BY ClockForward
<1>3. ASSUME NEW r \in Requests, Moves(r), NEW q \in Requests PROVE Current(q)'
  <2>1. CASE q = r
    BY <1>3, <2>1, OwnCurrent
  <2>2. CASE q # r
    <3> USE <2>2
    <3>1. /\ pc'[q] = pc[q] /\ key'[q] = key[q] /\ reason'[q] = reason[q]
          /\ quota'[q] = quota[q] /\ row'[q] = row[q]
          /\ unread'[q] = unread[q] /\ view'[q] = view[q]
      BY <1>3, OthersKept
    <3>2. CASE Writes(r)
      <4>1. pc[r] \in Storing
        BY <3>2 DEF Writes, UpsertSuccess, UpsertFailure, UpsertFailover, Storing, Writing
      <4>2. pc'[q] \notin Storing
        BY <3>1, <4>1, <2>2 DEF Alone
      <4> QED
        BY <4>2 DEF Current, RowInHand, ViewCurrent, Storing
    <3>3. CASE ~ Writes(r)
      <4>1. store' = store
        BY <1>3, <3>3, StoreKept DEF WritesReturn
      <4> QED
        BY <4>1, <3>1, <1>2, CurrentKept
    <3> QED
      BY <3>2, <3>3
  <2> QED
    BY <2>1, <2>2
<1>4. ASSUME UNCHANGED <<store, pc, key, answer, row, listing>>, NEW q \in Requests
      PROVE  Current(q)'
  BY <1>2, <1>4, CurrentKept DEF answer, listing
<1>5. ASSUME NEW k \in Keys, add_key(k) \/ remove_key(k), NEW q \in Requests
      PROVE  Current(q)'
  BY <1>5, <1>4 DEF add_key, remove_key, Edit
<1>6. ASSUME FinishEdit, NEW q \in Requests PROVE Current(q)'
  <2>1. pc'[q] \notin Storing
    BY <1>6 DEF FinishEdit, Alone
  <2> QED
    BY <2>1 DEF Current, RowInHand, ViewCurrent, Storing
<1>7. ASSUME Restart, NEW q \in Requests PROVE Current(q)'
  <2>1. pc'[q] \notin Storing
    BY <1>7 DEF Restart, Ended, Answered, Storing, Listing, Reading, Writing
  <2> QED
    BY <2>1 DEF Current, RowInHand, ViewCurrent, Storing
<1>8. ASSUME Tick \/ UNCHANGED vars, NEW q \in Requests PROVE Current(q)'
  BY <1>8, <1>4 DEF Tick, vars, pool, answer, listing
<1>9. ~ EditFails
  BY DEF EditFails
<1> QED
  BY <1>1, <1>3, <1>5, <1>6, <1>7, <1>8, <1>9 DEF Next, Moves

LEMMA MemoryInvariantHolds == ASSUME Backend = "memory" PROVE Spec => []MemoryInvariant
<1>1. Init => TypeOK /\ RowsConsistent /\ MemoryInvariant
  BY TypeInit, RowsInit, MemoryInit
<1>2. TypeOK /\ RowsConsistent /\ MemoryInvariant /\ [Next]_vars
        => (TypeOK /\ RowsConsistent /\ MemoryInvariant)'
  BY TypeStep, RowsStep, MemoryStep
<1> QED
  BY <1>1, <1>2, PTL DEF Spec
-----------------------------------------------------------------------------
(* Choices                                                                 *)

\* A key without a row, or with a fresh one, is in no cooldown.
LEMMA FreshNotCooling == ASSUME NEW now PROVE ~ is_in_cooldown(Fresh, now)
BY DEF is_in_cooldown, Fresh

\* What a complete listing leaves to choose from is what is there to choose.
LEMMA CandidatesAvailable ==
    ASSUME TypeOK, NEW r \in Requests, Current(r), Listed(r)
    PROVE  Candidates(r) = Available(r)
<1>1. \A k \in Keys : view[r][k] = store[k]
  BY DEF Listed, Current, ViewCurrent
<1>2. Defined \subseteq Keys
  BY DEF Defined, TypeOK, PoolTyped
<1>3. ASSUME NEW k \in Keys
      PROVE  ~ is_in_cooldown(Seen(r)[k], clock) <=>
               store[k] = None \/ store[k].cooldown_until = None
                 \/ store[k].cooldown_until <= clock
  <2>1. CASE store[k] = None
    BY <1>1, <2>1, FreshNotCooling DEF Seen
  <2>2. CASE store[k] # None
    <3>1. Seen(r)[k] = store[k]
      BY <1>1, <2>2 DEF Seen
    <3>2. /\ store[k].cooldown_until \in Int \union {None}
          /\ clock \in Nat
      BY <2>2 DEF TypeOK, PoolTyped, WorldTyped, Optional, APIKeyState
    <3> QED
      BY <2>2, <3>1, <3>2 DEF is_in_cooldown
  <2> QED
    BY <2>1, <2>2
<1> QED
  BY <1>2, <1>3 DEF Candidates, Available

\* Who leaves the listing has listed.
LEMMA ListingEnds ==
    ASSUME TypeOK, NEW r \in Requests, pc[r] \in Listing, Next
    PROVE  /\ pc'[r] = "limit" => AcquireKey(r)
           /\ pc'[r] = "no_healthy" => NoHealthyKeys(r)
<1> USE DEF TypeOK, RequestsTyped, Goto, Listing
<1>1. ASSUME NEW q \in Requests \ {r}, Moves(q) PROVE pc'[r] = pc[r]
  BY <1>1, OthersKept
<1>2. ASSUME Moves(r), ~ AcquireKey(r), ~ NoHealthyKeys(r)
      PROVE  pc'[r] # "limit" /\ pc'[r] # "no_healthy"
  <2>1. CASE AcquireLock(r) \/ ReadStates(r) \/ ListAgain(r) \/ StoreError(r) \/ Cancel(r)
    BY <2>1 DEF AcquireLock, ReadStates, ListAgain, StoreError, Cancel, Abandon
  <2>2. ~ (Arrive(r) \/ Forward(r) \/ Respond(r) \/ NetworkError(r) \/ ForwardRaises(r)
           \/ KeyMissing(r) \/ Wake(r))
    BY DEF Arrive, Forward, Respond, NetworkError, ForwardRaises, KeyMissing, Wake, Reading
  <2>3. ~ (RecordSuccess(r) \/ RecordTransientError(r) \/ MarkKeyQuotaExhausted(r)
           \/ RecordFailover(r) \/ Writes(r))
    BY DEF RecordSuccess, RecordTransientError, MarkKeyQuotaExhausted, RecordFailover, Read,
           Writes, UpsertSuccess, UpsertFailure, UpsertFailover
  <2> QED
    BY <1>2, <2>1, <2>2, <2>3 DEF Serve, Moves, Writes
<1>3. ASSUME \E k \in Keys : add_key(k) \/ remove_key(k) PROVE pc' = pc
  BY <1>3 DEF add_key, remove_key, Edit
<1>4. ASSUME FinishEdit \/ EditFails \/ Tick PROVE pc' = pc
  BY <1>4 DEF FinishEdit, EditFails, Tick
<1>5. ASSUME Restart PROVE pc'[r] = "lost"
  BY <1>5 DEF Restart, Ended, Answered
<1>6. CASE \E q \in Requests : Moves(q)
  <2>1. PICK q \in Requests : Moves(q)
    BY <1>6
  <2>2. CASE q = r
    <3>1. AcquireKey(r) => pc'[r] = "limit"
      BY DEF AcquireKey
    <3>2. NoHealthyKeys(r) => pc'[r] = "no_healthy"
      BY DEF NoHealthyKeys
    <3> QED
      BY <2>1, <2>2, <3>1, <3>2, <1>2
  <2>3. CASE q # r
    BY <2>1, <2>3, <1>1
  <2> QED
    BY <2>2, <2>3
<1>7. CASE ~ \E q \in Requests : Moves(q)
  BY <1>3, <1>4, <1>5, <1>7 DEF Next, Moves
<1> QED
  BY <1>6, <1>7

\* acquire_key returns a key that is configured, not excluded and out of cooldown as
\* it returns, and none only when there is none (key_pool.py:47-57), over the
\* in-memory store, with whatever strategy, edits and crashes.
THEOREM ChoicesAreCurrent == ASSUME Backend = "memory" PROVE Spec => ChoiceIsCurrent
<1>1. ASSUME TypeOK, MemoryInvariant, [Next]_vars
      PROVE  [\A r \in Requests : pc[r] \in Listing =>
                /\ pc'[r] = "limit" => key'[r] \in Available(r)
                /\ pc'[r] = "no_healthy" => Available(r) = {}]_vars
  <2> SUFFICES ASSUME Next, NEW r \in Requests, pc[r] \in Listing
               PROVE  /\ pc'[r] = "limit" => key'[r] \in Available(r)
                      /\ pc'[r] = "no_healthy" => Available(r) = {}
    BY <1>1
  <2>1. Listed(r) => Candidates(r) = Available(r)
    BY <1>1, CandidatesAvailable DEF MemoryInvariant
  <2>2. ASSUME AcquireKey(r) PROVE key'[r] \in Available(r)
    <3>1. PICK k \in choose(Candidates(r), definitions, Seen(r), rr_index, clock) :
              key' = [key EXCEPT ![r] = k]
      BY <2>2 DEF AcquireKey
    <3>2. k \in Candidates(r)
      BY ONLY <3>1, ChoiceIsCandidate
    <3>3. key'[r] = k
      BY <1>1, <3>1 DEF TypeOK, RequestsTyped
    <3> QED
      BY <2>1, <2>2, <3>2, <3>3 DEF AcquireKey
  <2>3. ASSUME NoHealthyKeys(r) PROVE Available(r) = {}
    BY <2>1, <2>3 DEF NoHealthyKeys
  <2> QED
    BY <1>1, <2>2, <2>3, ListingEnds
<1> QED
  BY <1>1, TypeCorrect, MemoryInvariantHolds, PTL DEF Spec, ChoiceIsCurrent
-----------------------------------------------------------------------------
(* Writes                                                                  *)

\* What the four changes of a row do to its counts and its cooldown.
LEMMA ChangedFields ==
    ASSUME NEW s \in APIKeyState, NEW now, NEW q, NEW why
    PROVE  /\ Succeeded(s, now, q).total_requests = s.total_requests + 1
           /\ Succeeded(s, now, q).error_count = s.error_count
           /\ Succeeded(s, now, q).failover_count = s.failover_count
           /\ Succeeded(s, now, q).cooldown_until = None
           /\ TransientError(s, now, why).total_requests = s.total_requests
           /\ TransientError(s, now, why).error_count = s.error_count + 1
           /\ TransientError(s, now, why).failover_count = s.failover_count
           /\ TransientError(s, now, why).cooldown_until = s.cooldown_until
           /\ QuotaExhausted(s, now).total_requests = s.total_requests
           /\ QuotaExhausted(s, now).error_count = s.error_count + 1
           /\ QuotaExhausted(s, now).failover_count = s.failover_count
           /\ QuotaExhausted(s, now).cooldown_until = now + Cooldown
           /\ FailedOver(s).total_requests = s.total_requests
           /\ FailedOver(s).error_count = s.error_count
           /\ FailedOver(s).failover_count = s.failover_count + 1
           /\ FailedOver(s).cooldown_until = s.cooldown_until
BY SucceededRow, TransientErrorRow, QuotaExhaustedRow, FailedOverRow DEF Row

\* The end of a cooldown, if w is written over s: the same, or a later one.
Prolonged(s, w) ==
    /\ w.cooldown_until \in Int
    /\ s.cooldown_until # None => s.cooldown_until <= w.cooldown_until

\* What a write makes of the row it replaces.
Counts(s, w, total, errors, failovers) ==
    /\ w.total_requests = s.total_requests + total
    /\ w.error_count = s.error_count + errors
    /\ w.failover_count = s.failover_count + failovers

LEMMA WriteCounts ==
    ASSUME TypeOK, RowsConsistent, NEW r \in Requests, Current(r), Writes(r)
    PROVE  LET s == store[key[r]]
               w == row[r]
           IN  /\ key[r] \in Keys /\ s \in APIKeyState /\ w \in APIKeyState
               /\ UpsertSuccess(r) => Counts(s, w, 1, 0, 0) /\ w.cooldown_until = None
               /\ UpsertFailure(r) => Counts(s, w, 0, 1, 0)
               /\ UpsertFailure(r) =>
                     IF reason[r] = "quota_exceeded" THEN Prolonged(s, w)
                     ELSE w.cooldown_until = s.cooldown_until
               /\ UpsertFailover(r) =>
                     Counts(s, w, 0, 0, 1) /\ w.cooldown_until = s.cooldown_until
<1> DEFINE s == store[key[r]]
           w == row[r]
           q == quota[r]
           why == reason[r]
<1>1. pc[r] \in Writing
  BY DEF Writes, UpsertSuccess, UpsertFailure, UpsertFailover, Writing
<1>2. key[r] \in Keys /\ row[r] \in APIKeyState /\ clock \in Nat
  BY <1>1 DEF TypeOK, RequestsTyped, HeldWhereUsed, WorldTyped, Holding, Answering, Optional
<1>3. MadeOf(r, s)
  BY <1>1 DEF Current, RowInHand
<1>4. s \in APIKeyState /\ s \in Rows
  BY <1>2, <1>3 DEF MadeOf, TypeOK, PoolTyped, Optional, Rows
<1>5. PICK now \in 0 .. clock : (s.last_used_at # None => s.last_used_at <= now)
                                 /\ w = Made(r, s, now)
  BY <1>3 DEF MadeOf
<1>6. RowConsistent(s)
  BY <1>4 DEF RowsConsistent
<1> HIDE DEF s, w, q, why
<1>7. /\ Counts(s, Succeeded(s, now, q), 1, 0, 0)
      /\ Succeeded(s, now, q).cooldown_until = None
  BY <1>4, ChangedFields DEF Counts, APIKeyState
<1>8. /\ Counts(s, TransientError(s, now, why), 0, 1, 0)
      /\ TransientError(s, now, why).cooldown_until = s.cooldown_until
  BY <1>4, ChangedFields DEF Counts, APIKeyState
<1>9. /\ Counts(s, FailedOver(s), 0, 0, 1)
      /\ FailedOver(s).cooldown_until = s.cooldown_until
  BY <1>4, ChangedFields DEF Counts, APIKeyState
<1>10. Counts(s, QuotaExhausted(s, now), 0, 1, 0)
  BY <1>4, ChangedFields DEF Counts, APIKeyState
<1>11. Prolonged(s, QuotaExhausted(s, now))
  <2>1. QuotaExhausted(s, now).cooldown_until = now + Cooldown
    BY <1>4, ChangedFields
  <2>2. s.cooldown_until # None => s.cooldown_until <= s.last_used_at + Cooldown
    BY <1>6 DEF RowConsistent
  <2>3. s.cooldown_until # None => s.last_used_at # None
    BY <1>6, <1>4 DEF RowConsistent, APIKeyState
  <2>4. /\ s.cooldown_until \in Int \union {None} /\ s.last_used_at \in Nat \union {None}
        /\ Cooldown \in Int /\ now \in Nat
    BY <1>4, <1>5, <1>2, CooldownAssumption DEF APIKeyState, Optional
  <2> QED
    BY <1>5, <2>1, <2>2, <2>3, <2>4 DEF Prolonged
<1>12. UpsertSuccess(r) => w = Succeeded(s, now, q)
  BY <1>5 DEF UpsertSuccess, Made, q
<1>13. UpsertFailure(r) => w = IF why = "quota_exceeded" THEN QuotaExhausted(s, now)
                               ELSE TransientError(s, now, why)
  BY <1>5 DEF UpsertFailure, Made, why
<1>14. UpsertFailover(r) => w = FailedOver(s)
  BY <1>5 DEF UpsertFailover, Made
<1> QED
  BY <1>2, <1>4, <1>7, <1>8, <1>9, <1>10, <1>11, <1>12, <1>13, <1>14 DEF s, w, why

\* A write changes the row of the request's key and no other.
LEMMA WriteStores ==
    ASSUME TypeOK, NEW r \in Requests, Writes(r)
    PROVE  /\ store'[key[r]] = row[r]
           /\ \A k \in Keys \ {key[r]} : store'[k] = store[k]
<1>1. store' = [store EXCEPT ![key[r]] = row[r]] /\ pc[r] \in Writing
  BY DEF Writes, UpsertSuccess, UpsertFailure, UpsertFailover, upsert_state, Writing
<1>2. key[r] \in Keys
  BY <1>1 DEF TypeOK, RequestsTyped, HeldWhereUsed, Holding, Answering, Optional
<1> QED
  BY <1>1, <1>2 DEF TypeOK, PoolTyped

\* Over the in-memory store nothing but a success with a key, an edit of it or a
\* restart withdraws or shortens its cooldown (key_pool.py:59-103).
THEOREM CooldownsLast == ASSUME Backend = "memory" PROVE Spec => OnlySuccessEndsCooldown
<1>1. ASSUME TypeOK, RowsConsistent, MemoryInvariant, [Next]_vars
      PROVE  [\A k \in Keys :
                (store[k] # None /\ store'[k] # None /\ is_in_cooldown(store[k], clock)) =>
                  \/ store'[k].cooldown_until # None
                     /\ store'[k].cooldown_until >= store[k].cooldown_until
                  \/ \E r \in Requests : SuccessStored(r, k)
                  \/ Renewed(k)]_vars
  <2> SUFFICES ASSUME Next, NEW k \in Keys, store[k] # None, store'[k] # None,
                      is_in_cooldown(store[k], clock)
               PROVE  \/ store'[k].cooldown_until # None
                         /\ store'[k].cooldown_until >= store[k].cooldown_until
                      \/ \E r \in Requests : SuccessStored(r, k)
                      \/ Renewed(k)
    BY <1>1
  <2>1. store[k].cooldown_until \in Int
    BY <1>1 DEF TypeOK, PoolTyped, Optional, APIKeyState, is_in_cooldown
  <2>2. ASSUME store'[k].cooldown_until = store[k].cooldown_until
        PROVE  store'[k].cooldown_until # None
               /\ store'[k].cooldown_until >= store[k].cooldown_until
    BY <2>1, <2>2, NoneAssumption
  <2>3. ASSUME NEW r \in Requests, Moves(r), ~ Writes(r) PROVE store'[k] = store[k]
    BY <2>3, StoreKept DEF WritesReturn
  <2>4. ASSUME NEW r \in Requests, Writes(r), k # key[r] PROVE store'[k] = store[k]
    BY <2>4, <1>1, WriteStores
  <2>5. ASSUME NEW r \in Requests, UpsertSuccess(r), k = key[r] PROVE SuccessStored(r, k)
    BY <1>1, <2>5 DEF UpsertSuccess, SuccessStored, Goto, TypeOK, RequestsTyped
  <2>6. ASSUME NEW r \in Requests, UpsertFailure(r) \/ UpsertFailover(r), k = key[r]
        PROVE  store'[k].cooldown_until # None
               /\ store'[k].cooldown_until >= store[k].cooldown_until
    <3>1. Writes(r) /\ Current(r)
      BY <1>1, <2>6 DEF Writes, MemoryInvariant
    <3>2. store'[k] = row[r]
      BY <1>1, <2>6, <3>1, WriteStores
    <3>3. \/ Prolonged(store[k], row[r])
          \/ row[r].cooldown_until = store[k].cooldown_until
      BY <1>1, <2>6, <3>1, WriteCounts
    <3> QED
      BY <2>1, <2>2, <3>2, <3>3, NoneAssumption DEF Prolonged
  <2>7. ASSUME NEW e \in Keys, add_key(e) \/ remove_key(e) PROVE store' = store
    BY <2>7 DEF add_key, remove_key, Edit
  <2>8. ASSUME FinishEdit, ~ Renewed(k) PROVE store'[k] = store[k]
    BY <2>8, <1>1 DEF FinishEdit, Renewed, TypeOK, PoolTyped
  <2>9. ASSUME Restart PROVE Renewed(k)
    BY <2>9, <1>1 DEF Restart, Renewed, TypeOK, WorldTyped
  <2>10. ASSUME Tick \/ EditFails PROVE store' = store
    BY <2>10 DEF Tick, EditFails, pool
  <2>11. CASE \E r \in Requests : Moves(r)
    <3>1. PICK r \in Requests : Moves(r)
      BY <2>11
    <3> QED
      BY <3>1, <2>2, <2>3, <2>4, <2>5, <2>6 DEF Writes
  <2>12. CASE ~ \E r \in Requests : Moves(r)
    BY <2>2, <2>7, <2>8, <2>9, <2>10, <2>12 DEF Next, Moves
  <2> QED
    BY <2>11, <2>12
<1> QED
  BY <1>1, TypeCorrect, RowsNeverTorn, MemoryInvariantHolds, PTL
  DEF Spec, OnlySuccessEndsCooldown
-----------------------------------------------------------------------------
(* Errors and failovers                                                    *)

\* r has recorded an error with k and not yet its failover.
Owing(r, k) == key[r] = k /\ pc[r] \in {"read_failover", "write_failover"}

\* A row's errors are ahead of its failovers by one while a request owes the second.
Paired ==
    \A k \in Keys : store[k] # None =>
        store[k].error_count =
            store[k].failover_count + (IF \E r \in Requests : Owing(r, k) THEN 1 ELSE 0)

LEMMA PairedInit == Init => Paired
BY DEF Init, Paired, Owing, Initialized, NoRows, Fresh

\* Nothing is owed, or everything as before, where the row is fresh or as before.
LEMMA PairedKept ==
    ASSUME Paired,
           \A k \in Keys : store'[k] # None =>
              \/ store'[k] = Fresh /\ \A r \in Requests : ~ Owing(r, k)'
              \/ store'[k] = store[k] /\ \A r \in Requests : Owing(r, k)' <=> Owing(r, k)
    PROVE  Paired'
<1> SUFFICES ASSUME NEW k \in Keys, store'[k] # None
             PROVE  store'[k].error_count = store'[k].failover_count
                      + (IF \E r \in Requests : Owing(r, k)' THEN 1 ELSE 0)
  BY DEF Paired
<1>1. CASE store'[k] = Fresh /\ \A r \in Requests : ~ Owing(r, k)'
  BY <1>1 DEF Fresh
<1>2. CASE store'[k] = store[k] /\ \A r \in Requests : Owing(r, k)' <=> Owing(r, k)
  <2>1. (\E r \in Requests : Owing(r, k)') <=> (\E r \in Requests : Owing(r, k))
    BY <1>2
  <2>2. store[k].error_count =
            store[k].failover_count + (IF \E r \in Requests : Owing(r, k) THEN 1 ELSE 0)
    BY <1>2 DEF Paired
  <2> QED
    BY <1>2, <2>1, <2>2
<1> QED
  BY <1>1, <1>2

\* A request in the middle of its store calls is alone, and what is owed it owes.
LEMMA OwedByOne ==
    ASSUME Alone, NEW r \in Requests, pc[r] \in Storing, NEW q \in Requests \ {r}, NEW k
    PROVE  ~ Owing(q, k)
BY DEF Alone, Owing, Storing, Reading, Writing

\* Steps that write nothing.
LEMMA PairedRead ==
    ASSUME Backend = "memory", TypeOK, Paired, NEW r \in Requests, Moves(r), ~ Writes(r)
    PROVE  Paired'
<1> USE DEF Owing
<1>1. store' = store
  BY StoreKept DEF WritesReturn
<1>2. \A q \in Requests \ {r} : pc'[q] = pc[q] /\ key'[q] = key[q]
  BY OthersKept
<1>3. ASSUME \A k \in Keys : store'[k] # None => (Owing(r, k)' <=> Owing(r, k)) PROVE Paired'
  <2>1. ASSUME NEW k \in Keys, store'[k] # None, NEW q \in Requests
        PROVE  Owing(q, k)' <=> Owing(q, k)
    BY <1>2, <1>3, <2>1
  <2> QED
    BY <1>1, <2>1, PairedKept
<1> USE DEF TypeOK, RequestsTyped, Goto
<1>4. CASE Arrive(r) \/ AcquireLock(r) \/ ReadStates(r) \/ ListAgain(r) \/ AcquireKey(r)
             \/ NoHealthyKeys(r) \/ Forward(r) \/ Wake(r) \/ Respond(r) \/ NetworkError(r)
             \/ ForwardRaises(r)
  <2>1. /\ pc[r] \notin {"read_failover", "write_failover"}
        /\ pc'[r] \notin {"read_failover", "write_failover"}
    BY <1>4 DEF Arrive, AcquireLock, ReadStates, ListAgain, AcquireKey, NoHealthyKeys, Listed,
       Listing, Forward, Wake, Respond, NetworkError, ForwardRaises
  <2> QED
    BY <2>1, <1>3
<1>5. CASE RecordSuccess(r) \/ RecordTransientError(r) \/ MarkKeyQuotaExhausted(r)
             \/ RecordFailover(r)
  <2>1. /\ key' = key
        /\ \/ pc[r] = "read" /\ pc'[r] = "write"
           \/ pc[r] = "read_failover" /\ pc'[r] = "write_failover"
    BY <1>5 DEF RecordSuccess, RecordTransientError, MarkKeyQuotaExhausted, RecordFailover, Read
  <2> QED
    BY <2>1, <1>3
<1>6. CASE KeyMissing(r)
  BY <1>6, <1>1, <1>3 DEF KeyMissing
<1>7. CASE Cancel(r)
  <2>1. /\ pc[r] \notin {"read_failover", "write_failover"}
        /\ pc'[r] \notin {"read_failover", "write_failover"}
    BY <1>7 DEF Cancel, Abandon, Pausing
  <2> QED
    BY <2>1, <1>3
<1>8. ~ StoreError(r)
  BY DEF StoreError
<1> QED
  BY <1>4, <1>5, <1>6, <1>7, <1>8 DEF Serve, Moves, Writes

LEMMA PairedWrite ==
    ASSUME TypeOK, RowsConsistent, MemoryInvariant, Paired, NEW r \in Requests, Writes(r)
    PROVE  Paired'
<1> DEFINE s == store[key[r]]
           w == row[r]
<1>0. PICK l \in Keys : key[r] = l
  BY WriteCounts DEF MemoryInvariant
<1>1. pc[r] \in Storing /\ Current(r) /\ Alone
  BY DEF Writes, UpsertSuccess, UpsertFailure, UpsertFailover, Storing, Writing, MemoryInvariant
<1>2. key[r] \in Keys /\ s \in APIKeyState /\ s # None
  <2>1. key[r] \in Keys /\ s \in APIKeyState
    BY <1>1, WriteCounts
  <2> QED
    BY <2>1, NoneIsNothing
<1>3. \A q \in Requests \ {r} : \A k \in Keys : ~ Owing(q, k) /\ ~ Owing(q, k)'
  <2>1. \A q \in Requests \ {r} : pc'[q] = pc[q] /\ key'[q] = key[q]
    BY OthersKept DEF Moves, Serve, Writes
  <2> QED
    BY <1>1, <2>1, OwedByOne DEF Owing
<1>4. \A k \in Keys \ {l} : ~ Owing(r, k) /\ ~ Owing(r, k)'
  BY <1>0 DEF Owing, Writes, UpsertSuccess, UpsertFailure, UpsertFailover, Goto, Forget, TypeOK,
     RequestsTyped
<1>5. store'[l] = w /\ \A k \in Keys \ {l} : store'[k] = store[k]
  BY <1>0, WriteStores
<1>6. s.error_count = s.failover_count + (IF Owing(r, l) THEN 1 ELSE 0)
  BY <1>0, <1>2, <1>3 DEF Paired
<1>7. w.error_count = w.failover_count + (IF Owing(r, l)' THEN 1 ELSE 0)
  <2>1. s.error_count \in Nat /\ s.failover_count \in Nat
    BY <1>2 DEF APIKeyState
  <2>2. CASE UpsertSuccess(r)
    <3>1. ~ Owing(r, l) /\ ~ Owing(r, l)'
      BY <1>0, <2>2 DEF UpsertSuccess, Owing, Goto, TypeOK, RequestsTyped
    <3>2. Counts(s, w, 1, 0, 0)
      BY <2>2, <1>1, WriteCounts
    <3> QED
      BY <1>6, <2>1, <3>1, <3>2 DEF Counts
  <2>3. CASE UpsertFailure(r)
    <3>1. ~ Owing(r, l) /\ Owing(r, l)'
      BY <1>0, <2>3 DEF UpsertFailure, Owing, Goto, TypeOK, RequestsTyped
    <3>2. Counts(s, w, 0, 1, 0)
      BY <2>3, <1>1, WriteCounts
    <3> QED
      BY <1>6, <2>1, <3>1, <3>2 DEF Counts
  <2>4. CASE UpsertFailover(r)
    <3>1. Owing(r, l) /\ ~ Owing(r, l)'
      BY <1>0, <2>4 DEF UpsertFailover, Owing, Goto, TypeOK, RequestsTyped
    <3>2. Counts(s, w, 0, 0, 1)
      BY <2>4, <1>1, WriteCounts
    <3> QED
      BY <1>6, <2>1, <3>1, <3>2 DEF Counts
  <2> QED
    BY <2>2, <2>3, <2>4 DEF Writes
<1> HIDE DEF s, w
<1> SUFFICES ASSUME NEW k \in Keys, store'[k] # None
             PROVE  store'[k].error_count = store'[k].failover_count
                      + (IF \E q \in Requests : Owing(q, k)' THEN 1 ELSE 0)
  BY DEF Paired
<1>8. CASE k = l
  <2>1. (\E q \in Requests : Owing(q, l)') <=> Owing(r, l)'
    BY <1>3
  <2> QED
    BY <1>5, <1>7, <1>8, <2>1
<1>9. CASE k # l
  <2>1. (\A q \in Requests : ~ Owing(q, k)) /\ (\A q \in Requests : ~ Owing(q, k)')
    BY <1>3, <1>4, <1>9
  <2>2. store'[k] = store[k]
    BY <1>5, <1>9
  <2> QED
    BY <2>1, <2>2 DEF Paired
<1> QED
  BY <1>8, <1>9

LEMMA PairedStep ==
    ASSUME Backend = "memory", TypeOK, RowsConsistent, MemoryInvariant, Paired, [Next]_vars
    PROVE  Paired'
<1>1. ASSUME NEW r \in Requests, Moves(r) PROVE Paired'
  BY <1>1, PairedRead, PairedWrite
<1>2. ASSUME UNCHANGED <<store, pc, key>> PROVE Paired'
  BY <1>2 DEF Paired, Owing
<1>3. ASSUME NEW k \in Keys, add_key(k) \/ remove_key(k) PROVE Paired'
  BY <1>3, <1>2 DEF add_key, remove_key, Edit
<1>4. ASSUME FinishEdit PROVE Paired'
  <2>1. \A r \in Requests : pc[r] \notin Storing
    BY <1>4 DEF FinishEdit, MemoryInvariant, Alone
  <2>2. \A r \in Requests : \A k \in Keys : ~ Owing(r, k) /\ ~ Owing(r, k)'
    BY <1>4, <2>1 DEF FinishEdit, Owing, Storing, Reading, Writing
  <2>3. \A k \in Keys : store'[k] \in {store[k], Fresh, None}
    BY <1>4 DEF FinishEdit, TypeOK, PoolTyped
  <2> QED
    BY <2>2, <2>3, PairedKept
<1>5. ASSUME Restart PROVE Paired'
  <2>1. \A r \in Requests : \A k \in Keys : ~ Owing(r, k)'
    BY <1>5 DEF Restart, Owing, Ended, Answered
  <2>2. \A k \in Keys : store'[k] \in {Fresh, None}
    BY <1>5 DEF Restart, Initialized, NoRows
  <2> QED
    BY <2>1, <2>2, PairedKept
<1>6. ASSUME Tick \/ EditFails \/ UNCHANGED vars PROVE Paired'
  BY <1>6, <1>2 DEF Tick, EditFails, vars, pool
<1> QED
  BY <1>1, <1>3, <1>4, <1>5, <1>6 DEF Next, Moves

\* A key's errors are ahead of its failovers by the requests that are between the
\* two, over the in-memory store, whatever is cancelled, edited or restarted
\* (app.py:104-106, 120-122, 135-137).
THEOREM FailoversFollowErrors == ASSUME Backend = "memory" PROVE Spec => []ErrorsMatchFailovers
<1>1. Init => TypeOK /\ RowsConsistent /\ MemoryInvariant /\ Paired
  BY TypeInit, RowsInit, MemoryInit, PairedInit
<1>2. TypeOK /\ RowsConsistent /\ MemoryInvariant /\ Paired /\ [Next]_vars
        => (TypeOK /\ RowsConsistent /\ MemoryInvariant /\ Paired)'
  BY TypeStep, RowsStep, MemoryStep, PairedStep
<1>3. TypeOK /\ MemoryInvariant /\ Paired => ErrorsMatchFailovers
  <2> SUFFICES ASSUME TypeOK, Alone, Paired, NEW k \in Keys, store[k] # None
               PROVE  store[k].error_count - store[k].failover_count =
                        Cardinality({r \in Requests : Owing(r, k)})
    BY DEF ErrorsMatchFailovers, MemoryInvariant, Owing
  <2>1. store[k].error_count \in Nat /\ store[k].failover_count \in Nat
    BY DEF TypeOK, PoolTyped, Optional, APIKeyState
  <2>2. CASE \E r \in Requests : Owing(r, k)
    <3>1. PICK r \in Requests : Owing(r, k)
      BY <2>2
    <3>2. pc[r] \in Storing
      BY <3>1 DEF Owing, Storing, Reading, Writing
    <3>3. {q \in Requests : Owing(q, k)} = {r}
      BY <3>1, <3>2, OwedByOne
    <3>4. store[k].error_count = store[k].failover_count + 1
      BY <2>2 DEF Paired
    <3>5. Cardinality({q \in Requests : Owing(q, k)}) = 1
      BY <3>3, FS_Singleton
    <3> QED
      BY <2>1, <3>4, <3>5
  <2>3. CASE ~ \E r \in Requests : Owing(r, k)
    <3>1. {q \in Requests : Owing(q, k)} = {}
      BY <2>3
    <3>2. store[k].error_count = store[k].failover_count
      BY <2>1, <2>3 DEF Paired
    <3> QED
      BY <2>1, <3>1, <3>2, FS_EmptySet
  <2> QED
    BY <2>2, <2>3
<1> QED
  BY <1>1, <1>2, <1>3, PTL DEF Spec
-----------------------------------------------------------------------------
(* Metrics.  An edit of the pool gives a key a fresh row and leaves its    *)
(* metrics as they are, so they agree until there is one.                  *)

Unedited == edits = 0 => admin = None /\ MetricsFollowRows

\* The metrics of one key say what its row says.
Agrees(k) ==
    store[k] # None =>
        /\ key_usage_total[k] = store[k].total_requests
        /\ key_errors_total[k] = store[k].error_count
        /\ key_cooldown[k] = 1 <=> store[k].cooldown_until # None

LEMMA MetricsInit == Init => Unedited
BY DEF Init, Unedited, MetricsFollowRows, Initialized, NoRows, Fresh

\* What a write adds to the metrics of its key it adds to the row.
LEMMA MetricsWrite ==
    ASSUME TypeOK, RowsConsistent, NEW r \in Requests, Current(r), Writes(r),
           NEW k \in Keys, Agrees(k)
    PROVE  Agrees(k)'
<1> DEFINE s == store[key[r]]
           w == row[r]
<1>1. /\ key[r] \in Keys /\ s \in APIKeyState /\ s # None
      /\ w \in APIKeyState
  <2>1. key[r] \in Keys /\ s \in APIKeyState /\ w \in APIKeyState
    BY WriteCounts
  <2> QED
    BY <2>1, NoneIsNothing
<1>2. CASE k # key[r]
  <2>1. store'[k] = store[k]
    BY <1>2, WriteStores
  <2>2. /\ key_usage_total'[k] = key_usage_total[k]
        /\ key_errors_total'[k] = key_errors_total[k]
        /\ key_cooldown'[k] = key_cooldown[k]
    BY <1>2 DEF Writes, UpsertSuccess, UpsertFailure, UpsertFailover, TypeOK, MetricsTyped
  <2> QED
    BY <2>1, <2>2 DEF Agrees
<1>3. CASE k = key[r]
  <2>1. store'[k] = w
    BY <1>3, WriteStores
  <2>2. /\ key_usage_total[k] = s.total_requests
        /\ key_errors_total[k] = s.error_count
        /\ key_cooldown[k] = 1 <=> s.cooldown_until # None
    BY <1>1, <1>3 DEF Agrees
  <2>3. CASE UpsertSuccess(r)
    <3>1. Counts(s, w, 1, 0, 0) /\ w.cooldown_until = None
      BY <2>3, WriteCounts
    <3>2. /\ key_usage_total'[k] = key_usage_total[k] + 1
          /\ key_errors_total'[k] = key_errors_total[k]
          /\ key_cooldown'[k] = 0
      BY <1>3, <2>3 DEF UpsertSuccess, TypeOK, MetricsTyped
    <3>3. s.error_count \in Nat
      BY <1>1 DEF APIKeyState
    <3> QED
      BY <2>1, <2>2, <3>1, <3>2, <3>3 DEF Counts, Agrees
  <2>4. CASE UpsertFailure(r)
    <3>1. Counts(s, w, 0, 1, 0)
      BY <2>4, WriteCounts
    <3>2. /\ key_usage_total'[k] = key_usage_total[k]
          /\ key_errors_total'[k] = key_errors_total[k] + 1
      BY <1>3, <2>4 DEF UpsertFailure, TypeOK, MetricsTyped
    <3>3. s.total_requests \in Nat
      BY <1>1 DEF APIKeyState
    <3>4. CASE reason[r] = "quota_exceeded"
      <4>1. key_cooldown'[k] = 1
        BY <1>3, <2>4, <3>4 DEF UpsertFailure, TypeOK, MetricsTyped
      <4>2. w.cooldown_until # None
        BY <2>4, <3>4, WriteCounts, NoneAssumption DEF Prolonged
      <4> QED
        BY <2>1, <2>2, <3>1, <3>2, <3>3, <4>1, <4>2 DEF Counts, Agrees
    <3>5. CASE reason[r] # "quota_exceeded"
      <4>1. key_cooldown'[k] = key_cooldown[k]
        BY <2>4, <3>5 DEF UpsertFailure
      <4>2. w.cooldown_until = s.cooldown_until
        BY <2>4, <3>5, WriteCounts
      <4> QED
        BY <2>1, <2>2, <3>1, <3>2, <3>3, <4>1, <4>2 DEF Counts, Agrees
    <3> QED
      BY <3>4, <3>5
  <2>5. CASE UpsertFailover(r)
    <3>1. Counts(s, w, 0, 0, 1) /\ w.cooldown_until = s.cooldown_until
      BY <2>5, WriteCounts
    <3>2. UNCHANGED <<key_usage_total, key_errors_total, key_cooldown>>
      BY <2>5 DEF UpsertFailover
    <3>3. s.total_requests \in Nat /\ s.error_count \in Nat
      BY <1>1 DEF APIKeyState
    <3> QED
      BY <2>1, <2>2, <3>1, <3>2, <3>3 DEF Counts, Agrees
  <2> QED
    BY <2>3, <2>4, <2>5 DEF Writes
<1> QED
  BY <1>2, <1>3

LEMMA MetricsStep ==
    ASSUME Backend = "memory", TypeOK, RowsConsistent, MemoryInvariant, Unedited, [Next]_vars
    PROVE  Unedited'
<1> SUFFICES ASSUME edits' = 0 PROVE admin' = None /\ \A k \in Keys : Agrees(k)'
  BY DEF Unedited, MetricsFollowRows, Agrees
<1>1. ASSUME NEW r \in Requests, Moves(r) PROVE edits' = edits /\ admin' = admin
  BY <1>1, WorldKept
<1>2. edits = 0
  BY <1>1 DEF Next, Moves, add_key, remove_key, Edit, FinishEdit, EditFails, Restart, Tick, vars, world,
     TypeOK, WorldTyped
<1>3. admin = None /\ \A k \in Keys : Agrees(k)
  BY <1>2 DEF Unedited, MetricsFollowRows, Agrees
<1>4. ASSUME NEW e \in Keys PROVE ~ (add_key(e) \/ remove_key(e))
  BY <1>2 DEF add_key, remove_key, Edit
<1>5. ~ FinishEdit /\ ~ EditFails
  BY <1>3 DEF FinishEdit, EditFails
<1>6. admin' = None
  BY <1>1, <1>3, <1>4, <1>5 DEF Next, Moves, Restart, Tick, vars, world
<1>7. ASSUME NEW k \in Keys PROVE Agrees(k)'
  <2>1. ASSUME NEW r \in Requests, Moves(r) PROVE Agrees(k)'
    <3>1. CASE Writes(r)
      BY <1>3, <3>1, MetricsWrite DEF MemoryInvariant
    <3>2. CASE ~ Writes(r)
      BY <1>3, <2>1, <3>2, StoreKept DEF WritesReturn, Agrees, metrics
    <3> QED
      BY <3>1, <3>2
  <2>2. ASSUME Restart PROVE Agrees(k)'
    BY <2>2 DEF Restart, Initialized, NoRows, Fresh, Agrees
  <2>3. ASSUME Tick \/ UNCHANGED vars PROVE Agrees(k)'
    BY <1>3, <2>3 DEF Tick, vars, pool, metrics, Agrees
  <2> QED
    BY <2>1, <2>2, <2>3, <1>4, <1>5 DEF Next, Moves
<1> QED
  BY <1>6, <1>7

\* As long as the pool has not been edited, the metrics record of each key what its
\* row in the in-memory store records (key_pool.py:68-69, 78, 89-90).
THEOREM MetricsTellTheRows ==
    ASSUME Backend = "memory" PROVE Spec => [](edits = 0 => MetricsFollowRows)
<1>1. Init => TypeOK /\ RowsConsistent /\ MemoryInvariant /\ Unedited
  BY TypeInit, RowsInit, MemoryInit, MetricsInit
<1>2. TypeOK /\ RowsConsistent /\ MemoryInvariant /\ Unedited /\ [Next]_vars
        => (TypeOK /\ RowsConsistent /\ MemoryInvariant /\ Unedited)'
  BY TypeStep, RowsStep, MemoryStep, MetricsStep
<1>3. Unedited => (edits = 0 => MetricsFollowRows)
  BY DEF Unedited
<1> QED
  BY <1>1, <1>2, <1>3, PTL DEF Spec

-----------------------------------------------------------------------------
(* Rows and definitions                                                    *)

\* A sequence that has each of its members once, as the keys of a dict.
Distinct(s) == \A i, j \in DOMAIN s : s[i] = s[j] => i = j

Members(s) == {s[i] : i \in DOMAIN s}

\* Dropping k from such a sequence drops it and no other.
LEMMA WithoutDrops ==
    ASSUME NEW s \in Seq(Keys), Distinct(s), NEW k \in Members(s)
    PROVE  /\ Distinct(Without(s, k))
           /\ Members(Without(s, k)) = Members(s) \ {k}
<1> DEFINE j == CHOOSE i \in DOMAIN s : s[i] = k
           t == Without(s, k)
           Spot(i) == IF i < j THEN i ELSE i + 1
<1>1. j \in 1 .. Len(s) /\ s[j] = k
  BY DEF Members
<1>2. t = SubSeq(s, 1, j - 1) \o SubSeq(s, j + 1, Len(s))
  BY DEF Without
<1> HIDE DEF j
<1> DEFINE p == SubSeq(s, 1, j - 1)
           q == SubSeq(s, j + 1, Len(s))
<1>3. /\ p \in Seq(Keys) /\ Len(p) = j - 1
      /\ \A i \in 1 .. j - 1 : p[i] = s[i]
  BY <1>1
<1>4. /\ q \in Seq(Keys) /\ Len(q) = Len(s) - j
      /\ \A i \in 1 .. Len(s) - j : q[i] = s[i + j]
  BY <1>1
<1>5. t = p \o q
  BY <1>2
<1> HIDE DEF p, q, t
<1>6. /\ t \in Seq(Keys) /\ Len(t) = Len(p) + Len(q)
      /\ \A i \in 1 .. Len(p) + Len(q) : t[i] = IF i <= Len(p) THEN p[i] ELSE q[i - Len(p)]
  BY <1>3, <1>4, <1>5, ConcatProperties
<1>7. Len(t) = Len(s) - 1
  BY <1>1, <1>3, <1>4, <1>6
<1>8. ASSUME NEW i \in 1 .. Len(s) - 1 PROVE t[i] = s[Spot(i)]
  <2>1. CASE i < j
    <3>1. /\ i \in 1 .. j - 1 /\ i <= Len(p)
          /\ i \in 1 .. Len(p) + Len(q)
      BY <1>1, <1>3, <1>4, <2>1
    <3>2. t[i] = p[i] /\ p[i] = s[i]
      BY <1>3, <1>6, <3>1
    <3> QED
      BY <2>1, <3>2
  <2>2. CASE i >= j
    <3>1. i - Len(p) \in 1 .. Len(s) - j /\ (i - Len(p)) + j = i + 1
      BY <1>1, <1>3, <2>2
    <3>2. i \in 1 .. Len(p) + Len(q) /\ ~ (i <= Len(p))
      BY <1>1, <1>3, <1>4, <2>2
    <3>3. t[i] = q[i - Len(p)]
      BY <1>6, <3>2
    <3>4. q[i - Len(p)] = s[i + 1]
      BY <1>4, <3>1
    <3> QED
      BY <1>1, <2>2, <3>3, <3>4
  <2> QED
    BY <1>1, <2>1, <2>2
<1>9. Distinct(t)
  <2> SUFFICES ASSUME NEW a \in 1 .. Len(t), NEW b \in 1 .. Len(t), t[a] = t[b] PROVE a = b
    BY <1>6 DEF Distinct
  <2>1. /\ t[a] = s[Spot(a)] /\ t[b] = s[Spot(b)]
        /\ Spot(a) \in 1 .. Len(s) /\ Spot(b) \in 1 .. Len(s)
    BY <1>1, <1>7, <1>8
  <2>2. \A x, y \in 1 .. Len(s) : s[x] = s[y] => x = y
    BY DEF Distinct
  <2>3. Spot(a) = Spot(b)
    <3> HIDE DEF Spot
    <3> QED
      BY <2>1, <2>2
  <2> QED
    BY <1>1, <2>3
<1>10. Members(t) \subseteq Members(s) \ {k}
  BY <1>1, <1>6, <1>7, <1>8 DEF Distinct, Members
<1>11. ASSUME NEW l \in Members(s) \ {k} PROVE l \in Members(t)
  <2>1. PICK i \in 1 .. Len(s) : s[i] = l
    BY <1>11 DEF Members
  <2>2. i # j
    BY <1>1, <1>11, <2>1
  <2>3. CASE i < j
    BY <1>1, <1>6, <1>7, <1>8, <2>1, <2>3 DEF Members
  <2>4. CASE i > j
    <3>1. i - 1 \in 1 .. Len(s) - 1 /\ Spot(i - 1) = i
      BY <1>1, <2>1, <2>4
    <3> QED
      BY <1>6, <1>7, <1>8, <2>1, <3>1 DEF Members
  <2> QED
    BY <1>1, <2>1, <2>2, <2>3, <2>4
<1> QED
  BY <1>9, <1>10, <1>11 DEF t

\* Appending a new key adds it and no other.
LEMMA AppendAdds ==
    ASSUME NEW s \in Seq(Keys), Distinct(s), NEW k \in Keys \ Members(s)
    PROVE  /\ Distinct(Append(s, k))
           /\ Members(Append(s, k)) = Members(s) \union {k}
<1>1. /\ Append(s, k) \in Seq(Keys) /\ Len(Append(s, k)) = Len(s) + 1
      /\ Append(s, k)[Len(s) + 1] = k
      /\ \A i \in 1 .. Len(s) : Append(s, k)[i] = s[i]
  OBVIOUS
<1> DEFINE t == Append(s, k)
<1> HIDE DEF t
<1>2. /\ t \in Seq(Keys) /\ Len(t) = Len(s) + 1 /\ t[Len(s) + 1] = k
      /\ \A i \in 1 .. Len(s) : t[i] = s[i]
  BY <1>1 DEF t
<1>3. Distinct(t)
  BY <1>2 DEF Distinct, Members
<1>4. Members(t) = Members(s) \union {k}
  <2>1. ASSUME NEW i \in 1 .. Len(t) PROVE t[i] \in Members(s) \union {k}
    BY <1>2 DEF Members
  <2>2. \A i \in 1 .. Len(s) : s[i] \in Members(t)
    BY <1>2 DEF Members
  <2>3. k \in Members(t)
    BY <1>2 DEF Members
  <2> QED
    BY <2>1, <2>2, <2>3 DEF Members
<1> QED
  BY <1>3, <1>4 DEF t
LEMMA DefinedMembers == Defined = Members(definitions)
BY DEF Defined, Members

\* What an edit in progress has done to the definitions it has yet to do to the
\* store; but for its key, rows and definitions match.
DefinitionsMatch ==
    /\ Distinct(definitions)
    /\ \A k \in Keys : (admin = None \/ admin.key # k) => (k \in Defined <=> store[k] # None)
    /\ admin # None => (admin.call = "add" <=> admin.key \in Defined)

LEMMA DefinitionsInit == Init => DefinitionsMatch
BY NoneIsNothing, FreshTyped, EngineAssumption
DEF Init, DefinitionsMatch, Distinct, Defined, Initialized, NoRows

LEMMA DefinitionsStep ==
    ASSUME Backend = "memory", TypeOK, RowsConsistent, MemoryInvariant, DefinitionsMatch,
           [Next]_vars
    PROVE  DefinitionsMatch'
<1> USE NoneIsNothing DEF DefinitionsMatch
<1>1. ASSUME UNCHANGED <<definitions, admin>>,
             \A k \in Keys : store'[k] # None <=> store[k] # None
      PROVE  DefinitionsMatch'
  BY <1>1 DEF Defined
<1>2. ASSUME NEW r \in Requests, Moves(r) PROVE DefinitionsMatch'
  <2>1. UNCHANGED <<definitions, admin>>
    BY <1>2, WorldKept
  <2>2. CASE Writes(r)
    <3>1. /\ store[key[r]] \in APIKeyState /\ row[r] \in APIKeyState
      BY <2>2, WriteCounts DEF MemoryInvariant
    <3>2. /\ store'[key[r]] = row[r]
          /\ \A k \in Keys \ {key[r]} : store'[k] = store[k]
      BY <2>2, WriteStores
    <3> QED
      BY <2>1, <3>1, <3>2, <1>1
  <2>3. CASE ~ Writes(r)
    BY <1>2, <2>1, <2>3, <1>1, StoreKept DEF WritesReturn
  <2> QED
    BY <2>2, <2>3
<1>3. ASSUME NEW k \in Keys, add_key(k) PROVE DefinitionsMatch'
  <2>1. /\ admin = None /\ admin' = [call |-> "add", key |-> k] /\ store' = store
        /\ definitions' = IF k \in Defined THEN definitions ELSE Append(definitions, k)
    BY <1>3 DEF add_key, Edit
  <2>2. admin' \in Edits
    BY <2>1 DEF Edits
  <2>3. Distinct(definitions)' /\ Defined' = Defined \union {k}
    <3>1. CASE k \in Defined
      BY <2>1, <3>1 DEF Defined, Distinct
    <3>2. CASE k \notin Defined
      BY <2>1, <3>2, AppendAdds, DefinedMembers DEF TypeOK, PoolTyped, Defined, Members
    <3> QED
      BY <3>1, <3>2
  <2>4. admin' # None /\ admin'.key = k /\ admin'.call = "add"
    BY <2>1, <2>2
  <2> QED
    BY <2>1, <2>3, <2>4
<1>4. ASSUME NEW k \in Keys, remove_key(k) PROVE DefinitionsMatch'
  <2>1. /\ admin = None /\ admin' = [call |-> "remove", key |-> k] /\ store' = store
        /\ definitions' = IF k \in Defined THEN Without(definitions, k) ELSE definitions
    BY <1>4 DEF remove_key, Edit
  <2>2. admin' \in Edits
    BY <2>1 DEF Edits
  <2>3. Distinct(definitions)' /\ Defined' = Defined \ {k}
    <3>1. Defined' = Members(definitions')
      BY DEF Defined, Members
    <3>2. CASE k \in Defined
      <4>1. definitions \in Seq(Keys) /\ k \in Members(definitions)
        BY <3>2, DefinedMembers DEF TypeOK, PoolTyped
      <4>2. /\ Distinct(Without(definitions, k))
            /\ Members(Without(definitions, k)) = Members(definitions) \ {k}
        BY <4>1, WithoutDrops
      <4>3. definitions' = Without(definitions, k)
        BY <2>1, <3>2
      <4>4. Distinct(definitions)'
        BY <4>2, <4>3 DEF Distinct
      <4> QED
        BY <3>1, <4>2, <4>3, <4>4, DefinedMembers
    <3>3. CASE k \notin Defined
      BY <2>1, <3>3 DEF Defined, Distinct
    <3> QED
      BY <3>2, <3>3
  <2>4. admin' # None /\ admin'.key = k /\ admin'.call = "remove"
    BY <2>1, <2>2
  <2> QED
    BY <2>1, <2>3, <2>4
<1>5. ASSUME FinishEdit PROVE DefinitionsMatch'
  <2>1. /\ admin # None /\ admin' = None /\ definitions' = definitions
        /\ store' = [store EXCEPT ![admin.key] = IF admin.call = "add" THEN Fresh ELSE None]
    BY <1>5 DEF FinishEdit
  <2>2. admin.key \in Keys
    BY <2>1 DEF TypeOK, WorldTyped, Optional, Edits
  <2>3. /\ store'[admin.key] = IF admin.call = "add" THEN Fresh ELSE None
        /\ \A k \in Keys \ {admin.key} : store'[k] = store[k]
    BY <2>1, <2>2 DEF TypeOK, PoolTyped
  <2>4. Fresh # None
    BY FreshTyped
  <2> QED
    BY <2>1, <2>3, <2>4 DEF Defined
<1>6. ASSUME Restart PROVE DefinitionsMatch'
  <2>1. /\ definitions' = InitialKeys /\ admin' = None
        /\ store' = Initialized(NoRows)
    BY <1>6 DEF Restart
  <2> QED
    BY <2>1, FreshTyped, EngineAssumption DEF Distinct, Defined, Initialized, NoRows
<1>7. ASSUME Tick \/ UNCHANGED vars PROVE DefinitionsMatch'
  BY <1>7, <1>1 DEF Tick, vars, pool, world
<1>8. ~ EditFails
  BY DEF EditFails
<1> QED
  BY <1>2, <1>3, <1>4, <1>5, <1>6, <1>7, <1>8 DEF Next, Moves

\* Once an edit is complete the in-memory store has rows for the configured keys and
\* for no others, whatever requests with a removed key were in flight
\* (key_pool.py:97-103).
THEOREM RowsFollowDefinitions ==
    ASSUME Backend = "memory" PROVE Spec => []RowsMatchDefinitions
<1>1. Init => TypeOK /\ RowsConsistent /\ MemoryInvariant /\ DefinitionsMatch
  BY TypeInit, RowsInit, MemoryInit, DefinitionsInit
<1>2. TypeOK /\ RowsConsistent /\ MemoryInvariant /\ DefinitionsMatch /\ [Next]_vars
        => (TypeOK /\ RowsConsistent /\ MemoryInvariant /\ DefinitionsMatch)'
  BY TypeStep, RowsStep, MemoryStep, DefinitionsStep
<1>3. DefinitionsMatch => RowsMatchDefinitions
  BY DEF DefinitionsMatch, RowsMatchDefinitions
<1> QED
  BY <1>1, <1>2, <1>3, PTL DEF Spec
-----------------------------------------------------------------------------
(* Lost updates, on every store                                            *)

\* s counts no more of k than the metrics and what is still to be added to them.
Within(s, k, total, errors) ==
    /\ s.total_requests <= key_usage_total[k] + total
    /\ s.error_count <= key_errors_total[k] + errors

\* A row on its way to the store is ahead of the metrics by what it records.
NothingInvented ==
    restarts = 0 =>
        /\ \A k \in Keys : store[k] # None => Within(store[k], k, 0, 0)
        /\ \A r \in Requests : pc[r] \in Writing =>
              IF pc[r] = "write_failover" THEN Within(row[r], key[r], 0, 0)
              ELSE IF reason[r] = "ok" THEN Within(row[r], key[r], 1, 0)
              ELSE Within(row[r], key[r], 0, 1)

LEMMA InventedInit == Init => NothingInvented
BY DEF Init, NothingInvented, Within, Initialized, NoRows, Fresh, Writing

\* A request that comes to hold a row has made it of the row in the store.
LEMMA RowRead ==
    ASSUME TypeOK, NEW r \in Requests, Moves(r), ~ Writes(r), pc'[r] \in Writing
    PROVE  /\ key'[r] = key[r] /\ key[r] \in Keys /\ store[key[r]] \in APIKeyState
           /\ reason'[r] = reason[r] /\ reason[r] \in Reasons
           /\ store' = store /\ UNCHANGED metrics
           /\ row'[r] = Made(r, store[key[r]], clock)'
<1> USE DEF TypeOK, RequestsTyped, Goto
<1>1. ~ (Arrive(r) \/ AcquireLock(r) \/ ReadStates(r) \/ ListAgain(r) \/ AcquireKey(r)
           \/ NoHealthyKeys(r) \/ Forward(r) \/ Wake(r) \/ Respond(r) \/ NetworkError(r)
           \/ ForwardRaises(r) \/ KeyMissing(r))
  BY DEF Arrive, AcquireLock, ReadStates, ListAgain, AcquireKey, NoHealthyKeys, Listed,
     Listing, Forward, Wake, Respond, NetworkError, ForwardRaises, KeyMissing, Writing
<1>2. ~ (StoreError(r) \/ Cancel(r))
  BY DEF StoreError, Cancel, Abandon, Writing
<1>3. ASSUME NEW step \in Reading, NEW next, NEW new, Read(r, step, next, new)
      PROVE  /\ key'[r] = key[r] /\ key[r] \in Keys /\ store[key[r]] \in APIKeyState
             /\ reason'[r] = reason[r] /\ reason[r] \in Reasons
             /\ store' = store /\ UNCHANGED metrics
             /\ pc'[r] = next /\ quota'[r] = quota[r] /\ clock' = clock /\ key' = key
             /\ row'[r] = new
  <2>1. pc[r] \in Reading /\ store[key[r]] # None /\ pc' = [pc EXCEPT ![r] = next]
        /\ UNCHANGED <<pool, loop, key, listing, answer, metrics, world>>
        /\ row' = [row EXCEPT ![r] = new]
    BY <1>3 DEF Read
  <2>2. key[r] \in Keys /\ reason[r] \in Reasons
    BY <2>1 DEF HeldWhereUsed, Holding, Answering, Optional
  <2>3. store[key[r]] \in APIKeyState
    BY <2>1, <2>2 DEF PoolTyped, Optional
  <2> QED
    BY <2>1, <2>2, <2>3 DEF pool, answer, world
<1>4. CASE RecordSuccess(r)
  <2>1. Read(r, "read", "write", Succeeded(store[key[r]], clock, quota[r])) /\ reason[r] = "ok"
    BY <1>4 DEF RecordSuccess
  <2> QED
    BY <1>3, <2>1 DEF Made, Reading
<1>5. CASE RecordTransientError(r)
  <2>1. /\ Read(r, "read", "write", TransientError(store[key[r]], clock, reason[r]))
        /\ reason[r] # "ok" /\ reason[r] # "quota_exceeded"
    BY <1>5 DEF RecordTransientError
  <2> QED
    BY <1>3, <2>1 DEF Made, Reading
<1>6. CASE MarkKeyQuotaExhausted(r)
  <2>1. /\ Read(r, "read", "write", QuotaExhausted(store[key[r]], clock))
        /\ reason[r] = "quota_exceeded"
    BY <1>6 DEF MarkKeyQuotaExhausted
  <2> QED
    BY <1>3, <2>1 DEF Made, Reading
<1>7. CASE RecordFailover(r)
  <2>1. Read(r, "read_failover", "write_failover", FailedOver(store[key[r]]))
    BY <1>7 DEF RecordFailover
  <2> QED
    BY <1>3, <2>1 DEF Made, Reading
<1> QED
  BY <1>1, <1>2, <1>4, <1>5, <1>6, <1>7 DEF Serve, Moves, Writes

LEMMA SumNat == ASSUME NEW k \in Keys, TypeOK
                PROVE  key_usage_total[k] \in Nat /\ key_errors_total[k] \in Nat
BY DEF TypeOK, MetricsTyped

LEMMA InventedStep ==
    ASSUME WritesReturn, TypeOK, NothingInvented, [Next]_vars
    PROVE  NothingInvented'
<1> USE DEF TypeOK
<1>1. ASSUME NEW k \in Keys, NEW s \in APIKeyState, NEW t \in {0, 1}, NEW e \in {0, 1},
             Within(s, k, t, e),
             key_usage_total'[k] \in Nat, key_errors_total'[k] \in Nat,
             key_usage_total[k] <= key_usage_total'[k],
             key_errors_total[k] <= key_errors_total'[k]
      PROVE  Within(s, k, t, e)'
  <2>1. key_usage_total[k] \in Nat /\ key_errors_total[k] \in Nat
    BY SumNat
  <2>2. s.total_requests \in Nat /\ s.error_count \in Nat
    BY DEF APIKeyState
  <2> QED
    BY <1>1, <2>1, <2>2 DEF Within
<1>2. ASSUME NEW r \in Requests, Moves(r), restarts = 0,
             NEW q \in Requests \ {r}, pc[q] \in Writing,
             \A k \in Keys : /\ key_usage_total'[k] \in Nat /\ key_errors_total'[k] \in Nat
                             /\ key_usage_total[k] <= key_usage_total'[k]
                             /\ key_errors_total[k] <= key_errors_total'[k]
      PROVE  IF pc'[q] = "write_failover" THEN Within(row[q], key[q], 0, 0)'
             ELSE IF reason'[q] = "ok" THEN Within(row[q], key[q], 1, 0)'
             ELSE Within(row[q], key[q], 0, 1)'
  <2>1. pc'[q] = pc[q] /\ key'[q] = key[q] /\ reason'[q] = reason[q] /\ row'[q] = row[q]
    BY <1>2, OthersKept
  <2>2. key[q] \in Keys
    BY <1>2 DEF RequestsTyped, HeldWhereUsed, Holding, Answering, Optional
  <2>3. row[q] \in APIKeyState
    BY <1>2 DEF RequestsTyped, HeldWhereUsed, Optional
  <2>4. PICK k \in Keys : k = key[q]
    BY <2>2
  <2>5. PICK s \in APIKeyState : s = row[q]
    BY <2>3
  <2>6. IF pc[q] = "write_failover" THEN Within(s, k, 0, 0)
        ELSE IF reason[q] = "ok" THEN Within(s, k, 1, 0)
        ELSE Within(s, k, 0, 1)
    BY <1>2, <2>4, <2>5 DEF NothingInvented
  <2>7. IF pc[q] = "write_failover" THEN Within(s, k, 0, 0)'
        ELSE IF reason[q] = "ok" THEN Within(s, k, 1, 0)'
        ELSE Within(s, k, 0, 1)'
    BY <1>1, <1>2, <2>6
  <2>8. key'[q] = k /\ row'[q] = s
    BY <2>1, <2>4, <2>5
  <2> QED
    BY <2>1, <2>7, <2>8 DEF Within
<1>3. ASSUME NEW r \in Requests, Moves(r), ~ Writes(r) PROVE NothingInvented'
  <2> SUFFICES ASSUME restarts' = 0 PROVE NothingInvented'
    BY DEF NothingInvented
  <2>1. restarts = 0 /\ store' = store /\ UNCHANGED metrics
    BY <1>3, WorldKept, StoreKept
  <2>2. key_usage_total' = key_usage_total /\ key_errors_total' = key_errors_total
    BY <2>1 DEF metrics
  <2>3. \A k \in Keys : /\ key_usage_total'[k] \in Nat /\ key_errors_total'[k] \in Nat
                        /\ key_usage_total[k] <= key_usage_total'[k]
                        /\ key_errors_total[k] <= key_errors_total'[k]
    BY <2>2, SumNat
  <2>4. ASSUME NEW k \in Keys, store'[k] # None PROVE Within(store[k], k, 0, 0)'
    <3>1. Within(store[k], k, 0, 0)
      BY <2>1, <2>4 DEF NothingInvented
    <3> QED
      BY <3>1, <2>1, <2>2 DEF Within
  <2>5. ASSUME NEW q \in Requests, pc'[q] \in Writing
        PROVE  IF pc'[q] = "write_failover" THEN Within(row[q], key[q], 0, 0)'
               ELSE IF reason'[q] = "ok" THEN Within(row[q], key[q], 1, 0)'
               ELSE Within(row[q], key[q], 0, 1)'
    <3>1. CASE q # r
      <4>1. pc[q] \in Writing
        BY <1>3, <2>5, <3>1, OthersKept
      <4> QED
        BY <1>2, <1>3, <2>1, <2>3, <3>1, <4>1
    <3>2. CASE q = r
      <4>1. /\ key'[r] = key[r] /\ key[r] \in Keys /\ store[key[r]] \in APIKeyState
            /\ reason'[r] = reason[r] /\ reason[r] \in Reasons
            /\ row'[r] = Made(r, store[key[r]], clock)'
        BY <1>3, <2>5, <3>2, RowRead
      <4>2. PICK k \in Keys : k = key[r]
        BY <4>1
      <4>3. PICK s \in APIKeyState : s = store[k]
        BY <4>1, <4>2
      <4>4. s # None
        BY NoneIsNothing
      <4>5. Within(s, k, 0, 0)
        BY <2>1, <4>3, <4>4 DEF NothingInvented
      <4>6. row'[r] = IF pc'[r] = "write_failover" THEN FailedOver(s)
                      ELSE IF reason'[r] = "ok" THEN Succeeded(s, clock', quota'[r])
                      ELSE IF reason'[r] = "quota_exceeded" THEN QuotaExhausted(s, clock')
                      ELSE TransientError(s, clock', reason'[r])
        BY <2>1, <4>1, <4>2, <4>3 DEF Made
      <4>7. /\ FailedOver(s).total_requests = s.total_requests
            /\ FailedOver(s).error_count = s.error_count
            /\ \A c, m : /\ Succeeded(s, c, m).total_requests = s.total_requests + 1
                         /\ Succeeded(s, c, m).error_count = s.error_count
                         /\ QuotaExhausted(s, c).total_requests = s.total_requests
                         /\ QuotaExhausted(s, c).error_count = s.error_count + 1
                         /\ TransientError(s, c, m).total_requests = s.total_requests
                         /\ TransientError(s, c, m).error_count = s.error_count + 1
        BY DEF APIKeyState, FailedOver, Succeeded, QuotaExhausted, TransientError
      <4>8. /\ s.total_requests \in Nat /\ s.error_count \in Nat
            /\ key_usage_total[k] \in Nat /\ key_errors_total[k] \in Nat
        BY SumNat DEF APIKeyState
      <4>9. /\ s.total_requests <= key_usage_total'[k]
            /\ s.error_count <= key_errors_total'[k]
        BY <2>2, <4>5, <4>8 DEF Within
      <4>10. key'[r] = k
        BY <4>1, <4>2
      <4>11. CASE pc'[r] = "write_failover"
        <5>1. row'[r].total_requests = s.total_requests /\ row'[r].error_count = s.error_count
          BY <4>6, <4>7, <4>11
        <5>2. Within(row[r], key[r], 0, 0)'
          BY <5>1, <4>8, <4>9, <4>10, <2>2 DEF Within
        <5> QED
          BY <5>2, <4>11, <3>2
      <4>12. CASE pc'[r] # "write_failover" /\ reason'[r] = "ok"
        <5>1. row'[r].total_requests = s.total_requests + 1 /\ row'[r].error_count = s.error_count
          BY <4>6, <4>7, <4>12
        <5>2. Within(row[r], key[r], 1, 0)'
          BY <5>1, <4>8, <4>9, <4>10, <2>2 DEF Within
        <5> QED
          BY <5>2, <4>12, <3>2
      <4>13. CASE pc'[r] # "write_failover" /\ reason'[r] # "ok"
        <5>1. row'[r].total_requests = s.total_requests /\ row'[r].error_count = s.error_count + 1
          BY <4>6, <4>7, <4>13
        <5>2. Within(row[r], key[r], 0, 1)'
          BY <5>1, <4>8, <4>9, <4>10, <2>2 DEF Within
        <5> QED
          BY <5>2, <4>13, <3>2
      <4> QED
        BY <4>11, <4>12, <4>13
    <3> QED
      BY <3>1, <3>2
  <2> QED
    BY <2>4, <2>5 DEF NothingInvented, Within
<1>4. ASSUME NEW r \in Requests, Writes(r) PROVE NothingInvented'
  <2> SUFFICES ASSUME restarts' = 0 PROVE NothingInvented'
    BY DEF NothingInvented
  <2>1. Moves(r)
    BY <1>4 DEF Moves, Serve, Writes
  <2>2. restarts = 0 /\ pc[r] \in Writing /\ pc'[r] \notin Writing
        /\ store' = [store EXCEPT ![key[r]] = row[r]]
    BY <1>4, <2>1, WorldKept DEF Writes, UpsertSuccess, UpsertFailure, UpsertFailover,
       upsert_state, Goto, Writing, RequestsTyped
  <2>3. key[r] \in Keys /\ row[r] \in APIKeyState
    BY <2>2 DEF RequestsTyped, HeldWhereUsed, Holding, Answering, Optional
  <2>4. PICK k \in Keys : k = key[r]
    BY <2>3
  <2>5. PICK s \in APIKeyState : s = row[r]
    BY <2>3
  <2>6. /\ s.total_requests \in Nat /\ s.error_count \in Nat
        /\ key_usage_total[k] \in Nat /\ key_errors_total[k] \in Nat
    BY SumNat DEF APIKeyState
  <2>7. /\ \A l \in Keys : /\ key_usage_total'[l] \in Nat /\ key_errors_total'[l] \in Nat
                           /\ key_usage_total[l] <= key_usage_total'[l]
                           /\ key_errors_total[l] <= key_errors_total'[l]
        /\ s.total_requests <= key_usage_total'[k]
        /\ s.error_count <= key_errors_total'[k]
    <3>1. CASE UpsertSuccess(r)
      <4>1. /\ key_usage_total' = [key_usage_total EXCEPT ![k] = @ + 1]
            /\ key_errors_total' = key_errors_total
            /\ pc[r] = "write" /\ reason[r] = "ok"
        BY <3>1, <2>4 DEF UpsertSuccess
      <4>2. Within(s, k, 1, 0)
        BY <4>1, <2>2, <2>4, <2>5 DEF NothingInvented
      <4> QED
        BY <4>1, <4>2, <2>6, SumNat DEF Within, MetricsTyped
    <3>2. CASE UpsertFailure(r)
      <4>1. /\ key_errors_total' = [key_errors_total EXCEPT ![k] = @ + 1]
            /\ key_usage_total' = key_usage_total
            /\ pc[r] = "write" /\ reason[r] # "ok"
        BY <3>2, <2>4 DEF UpsertFailure
      <4>2. Within(s, k, 0, 1)
        BY <4>1, <2>2, <2>4, <2>5 DEF NothingInvented
      <4> QED
        BY <4>1, <4>2, <2>6, SumNat DEF Within, MetricsTyped
    <3>3. CASE UpsertFailover(r)
      <4>1. /\ key_errors_total' = key_errors_total
            /\ key_usage_total' = key_usage_total
            /\ pc[r] = "write_failover"
        BY <3>3 DEF UpsertFailover
      <4>2. Within(s, k, 0, 0)
        BY <4>1, <2>2, <2>4, <2>5 DEF NothingInvented
      <4> QED
        BY <4>1, <4>2, <2>6, SumNat DEF Within
    <3> QED
      BY <3>1, <3>2, <3>3, <1>4 DEF Writes
  <2>8. ASSUME NEW l \in Keys, store'[l] # None PROVE Within(store[l], l, 0, 0)'
    <3>1. CASE l = k
      <4>1. store'[l] = s
        BY <2>2, <2>4, <2>5, <3>1 DEF PoolTyped
      <4> QED
        BY <4>1, <3>1, <2>6, <2>7 DEF Within
    <3>2. CASE l # k
      <4>1. store'[l] = store[l]
        BY <2>2, <2>4, <3>2 DEF PoolTyped
      <4>2. PICK t \in APIKeyState : t = store[l]
        BY <4>1, <2>8 DEF PoolTyped, Optional
      <4>3. Within(t, l, 0, 0)
        BY <4>1, <4>2, <2>2, <2>8 DEF NothingInvented
      <4>4. Within(t, l, 0, 0)'
        BY <1>1, <2>7, <4>3
      <4> QED
        BY <4>1, <4>2, <4>4 DEF Within
    <3> QED
      BY <3>1, <3>2
  <2>9. ASSUME NEW q \in Requests, pc'[q] \in Writing
        PROVE  IF pc'[q] = "write_failover" THEN Within(row[q], key[q], 0, 0)'
               ELSE IF reason'[q] = "ok" THEN Within(row[q], key[q], 1, 0)'
               ELSE Within(row[q], key[q], 0, 1)'
    <3>1. q # r
      BY <2>2, <2>9
    <3>2. pc[q] \in Writing
      BY <2>1, <2>9, <3>1, OthersKept
    <3> QED
      BY <1>2, <2>1, <2>2, <2>7, <3>1, <3>2
  <2> QED
    BY <2>8, <2>9 DEF NothingInvented, Within
<1>5. ASSUME NEW k \in Keys, add_key(k) \/ remove_key(k) PROVE NothingInvented'
  BY <1>5 DEF add_key, remove_key, Edit, NothingInvented, Within, metrics, answer
<1>6. ASSUME FinishEdit PROVE NothingInvented'
  <2>1. UNCHANGED <<pc, key, answer, row, metrics, restarts>>
        /\ store' = [store EXCEPT ![admin.key] = IF admin.call = "add" THEN Fresh ELSE None]
    BY <1>6 DEF FinishEdit
  <2>2. \A k \in Keys : store'[k] \in {store[k], Fresh, None}
    BY <2>1 DEF PoolTyped
  <2>3. \A k \in Keys : Within(Fresh, k, 0, 0)
    BY SumNat DEF Within, Fresh
  <2>4. \A k \in Keys : restarts = 0 /\ store'[k] # None => Within(store'[k], k, 0, 0)
    BY <2>2, <2>3 DEF NothingInvented
  <2> QED
    BY <2>1, <2>4 DEF NothingInvented, Within, metrics, answer
<1>7. ASSUME Restart PROVE NothingInvented'
  BY <1>7 DEF Restart, NothingInvented, WorldTyped
<1>8. ASSUME Tick \/ EditFails \/ UNCHANGED vars PROVE NothingInvented'
  BY <1>8 DEF Tick, EditFails, vars, pool, answer, metrics, world, NothingInvented, Within
<1> QED
  BY <1>3, <1>4, <1>5, <1>6, <1>7, <1>8 DEF Next, Moves

\* The rows of every store may lose requests and errors to concurrent writes, and
\* never count more of them than the process' own metrics, up to a crash and
\* whatever is edited (key_pool.py:59-95), as long as every write returns.
THEOREM UpdatesLostNeverInvented ==
    ASSUME WritesReturn PROVE Spec => []NeverOvercounts
<1>1. Init => TypeOK /\ NothingInvented
  BY TypeInit, InventedInit
<1>2. TypeOK /\ NothingInvented /\ [Next]_vars => (TypeOK /\ NothingInvented)'
  BY TypeStep, InventedStep
<1>3. TypeOK /\ NothingInvented => NeverOvercounts
  <2> SUFFICES ASSUME TypeOK, NothingInvented, restarts = 0, NEW k \in Keys, store[k] # None
               PROVE  /\ store[k].total_requests <= key_usage_total[k]
                      /\ store[k].error_count <= key_errors_total[k]
    BY DEF NeverOvercounts
  <2> QED
    BY SumNat DEF NothingInvented, Within
<1> QED
  BY <1>1, <1>2, <1>3, PTL DEF Spec
-----------------------------------------------------------------------------
(* Round robin                                                             *)

\* Counting on, the remainder counts on and starts over.
LEMMA NextRemainder ==
    ASSUME NEW x \in Nat, NEW n \in Nat \ {0}
    PROVE  /\ x % n \in 0 .. n - 1
           /\ (x + 1) % n = IF x % n = n - 1 THEN 0 ELSE (x % n) + 1
<1>1. ASSUME NEW y \in Nat
      PROVE  /\ y \div n \in Int /\ y % n \in 0 .. n - 1
             /\ y = (n * (y \div n)) + (y % n)
  OBVIOUS
<1> DEFINE a == x \div n
           b == (x + 1) \div n
           m == x % n
           s == (x + 1) % n
<1>2. /\ a \in Int /\ b \in Int /\ m \in 0 .. n - 1 /\ s \in 0 .. n - 1
      /\ x = (n * a) + m /\ x + 1 = (n * b) + s
  <2>1. x + 1 \in Nat
    OBVIOUS
  <2> QED
    BY <1>1, <2>1
<1> HIDE <1>1 DEF a, b, m, s
<1>3. n * b - n * a = 1 + m - s
  <2>1. n * a \in Int /\ n * b \in Int
    BY <1>2
  <2> QED
    BY <1>2, <2>1
<1>4. b - a >= 0
  <2>1. ASSUME NEW c \in Nat, a = b + 1 + c PROVE FALSE
    <3>1. n * a = n * b + n + n * c /\ n * c \in Nat /\ n * b \in Int
      BY <1>2, <2>1
    <3> QED
      BY <1>2, <1>3, <3>1
  <2> QED
    BY <1>2, <2>1
<1>5. b - a <= 1
  <2>1. ASSUME NEW c \in Nat, b = a + 2 + c PROVE FALSE
    <3>1. n * b = n * a + 2 * n + n * c /\ n * c \in Nat /\ n * a \in Int
      BY <1>2, <2>1
    <3> QED
      BY <1>2, <1>3, <3>1
  <2>2. b - a - 2 \notin Nat
    <3>1. ASSUME b - a - 2 \in Nat PROVE FALSE
      <4>1. b = a + 2 + (b - a - 2)
        BY <1>2
      <4> QED
        BY <2>1, <3>1, <4>1
    <3> QED
      BY <3>1
  <2> QED
    BY <1>2, <2>2
<1>6. CASE b = a
  <2>1. s = m + 1
    BY <1>2, <1>3, <1>6
  <2>2. m # n - 1
    BY <1>2, <2>1
  <2> QED
    BY <1>2, <2>1, <2>2 DEF m, s
<1>7. CASE b = a + 1
  <2>1. n * b = n * a + n /\ n * a \in Int
    BY <1>2, <1>7
  <2>2. s = m + 1 - n
    BY <1>2, <1>3, <2>1
  <2>3. m = n - 1 /\ s = 0
    BY <1>2, <2>2
  <2> QED
    BY <1>2, <2>3 DEF m, s
<1>8. b = a \/ b = a + 1
  BY <1>2, <1>4, <1>5
<1> QED
  BY <1>2, <1>6, <1>7, <1>8 DEF m, s

\* The first m of a sequence without repetitions are m.
LEMMA FirstCounted ==
    ASSUME NEW s \in Seq(Keys), Distinct(s), NEW m \in 0 .. Len(s)
    PROVE  /\ IsFiniteSet({s[i] : i \in 1 .. m})
           /\ Cardinality({s[i] : i \in 1 .. m}) = m
<1> DEFINE T == {s[i] : i \in 1 .. m}
           f == [i \in 1 .. m |-> s[i]]
<1>1. f \in Bijection(1 .. m, T)
  <2>1. 1 .. m \subseteq DOMAIN s
    OBVIOUS
  <2>2. f \in Injection(1 .. m, T)
    BY <2>1 DEF Injection, IsInjective, Distinct
  <2>3. f \in Surjection(1 .. m, T)
    BY DEF Surjection
  <2> QED
    BY <2>2, <2>3 DEF Bijection
<1>2. ExistsBijection(1 .. m, T)
  BY <1>1 DEF ExistsBijection
<1>3. IsFiniteSet(1 .. m) /\ Cardinality(1 .. m) = m
  BY FS_Interval
<1> HIDE DEF T, f
<1>4. IsFiniteSet(T) /\ Cardinality(T) = m
  BY <1>2, <1>3, FS_Bijection
<1> QED
  BY <1>4 DEF T

\* Round robin's choice is the one at the index.
LEMMA ChoiceAtIndex ==
    ASSUME NEW s \in Seq(Keys), Distinct(s), NEW index \in Nat,
           NEW k \in RoundRobinStrategy(Members(s), s, index)
    PROVE  /\ Len(s) \in Nat \ {0}
           /\ (index % Len(s)) + 1 \in DOMAIN s
           /\ k = s[(index % Len(s)) + 1]
<1>1. k \in Members(s)
  BY DEF RoundRobinStrategy
<1>2. PICK p \in DOMAIN s : k = s[p]
  BY <1>1 DEF Members
<1>3. {c \in Members(s) : Before(s, c, k)} = {s[i] : i \in 1 .. (p - 1)}
  <2>1. ASSUME NEW c \in Members(s), Before(s, c, k) PROVE c \in {s[i] : i \in 1 .. (p - 1)}
    <3>1. PICK i \in DOMAIN s, j \in DOMAIN s : i < j /\ s[i] = c /\ s[j] = k
      BY <2>1 DEF Before
    <3>2. j = p
      BY <1>2, <3>1 DEF Distinct
    <3>3. i \in 1 .. (p - 1)
      BY <3>1, <3>2
    <3> QED
      BY <3>1, <3>3
  <2>2. ASSUME NEW i \in 1 .. (p - 1) PROVE s[i] \in Members(s) /\ Before(s, s[i], k)
    <3>1. i \in DOMAIN s /\ i < p
      BY <1>2, <2>2
    <3> QED
      BY <1>2, <3>1 DEF Members, Before
  <2> QED
    BY <2>1, <2>2
<1>4. p - 1 \in 0 .. Len(s) /\ p \in Nat /\ Len(s) \in Nat \ {0}
  BY <1>2
<1>5. Cardinality({c \in Members(s) : Before(s, c, k)}) = p - 1
  BY <1>3, <1>4, FirstCounted
<1>6. Cardinality(Members(s)) = Len(s)
  <2>1. Members(s) = {s[i] : i \in 1 .. Len(s)}
    BY DEF Members
  <2>2. Len(s) \in 0 .. Len(s)
    BY <1>4
  <2> QED
    BY <2>1, <2>2, FirstCounted
<1>7. p - 1 = index % Len(s)
  BY <1>5, <1>6 DEF RoundRobinStrategy
<1>8. p = (index % Len(s)) + 1
  BY <1>4, <1>7
<1> QED
  BY <1>2, <1>4, <1>8

\* The requests that were given k and are not yet counted.
Holders(k) == {r \in Requests : key[r] = k /\ pc[r] \in Holding}

\* Before the first failure nothing is excluded, and no request fails over.
Unfailed ==
    (\A k \in Keys : key_errors_total[k] = 0) =>
        \A r \in Requests : pc[r] \notin Ended => excluded[r] = {} /\ pc[r] \notin Failing

\* The first m keys have been given q + 1 times, the others q times.
Turned(q, m) ==
    \A p \in DOMAIN InitialKeys :
        /\ IsFiniteSet(Holders(InitialKeys[p]))
        /\ Load(InitialKeys[p]) = q + (IF p <= m THEN 1 ELSE 0)

\* Before the first failure, or edit, the keys up to the index have been given to one
\* request more than those from it on.
Rotated ==
    edits = 0 =>
        /\ definitions = InitialKeys
        /\ AllWell => \E q \in Nat : Turned(q, rr_index % Len(InitialKeys))

\* A request that has ended does nothing more.
LEMMA MovesOn == ASSUME NEW r \in Requests, Moves(r) PROVE pc[r] \notin Ended
<1> USE DEF Ended, Answered
<1>1. CASE Arrive(r) \/ AcquireLock(r) \/ AcquireKey(r) \/ ListAgain(r) \/ NoHealthyKeys(r)
             \/ ReadStates(r)
  BY <1>1 DEF Arrive, AcquireLock, AcquireKey, ListAgain, NoHealthyKeys, ReadStates, Listed,
              Listing
<1>2. CASE Forward(r) \/ Respond(r) \/ NetworkError(r) \/ ForwardRaises(r)
  BY <1>2 DEF Forward, Respond, NetworkError, ForwardRaises
<1>3. CASE RecordSuccess(r) \/ RecordTransientError(r) \/ MarkKeyQuotaExhausted(r)
             \/ RecordFailover(r) \/ KeyMissing(r)
  BY <1>3 DEF RecordSuccess, RecordTransientError, MarkKeyQuotaExhausted, RecordFailover,
              Read, KeyMissing, Reading
<1>4. CASE UpsertSuccess(r) \/ UpsertFailure(r) \/ UpsertFailover(r) \/ Wake(r)
  BY <1>4 DEF UpsertSuccess, UpsertFailure, UpsertFailover, Wake
<1>5. CASE StoreError(r) \/ Cancel(r)
  BY <1>5 DEF StoreError, Cancel, Storing, Pausing, Listing, Reading, Writing
<1> QED
  BY <1>1, <1>2, <1>3, <1>4, <1>5 DEF Serve, Moves

\* Only the record of a failure excludes a key and begins a failover.
LEMMA ExcludedKept ==
    ASSUME TypeOK, NEW r \in Requests, Moves(r), ~ UpsertFailure(r)
    PROVE  excluded' = excluded /\ (pc[r] \notin Failing => pc'[r] \notin Failing)
<1> USE DEF loop, Goto, TypeOK, RequestsTyped, Failing
<1>1. CASE Arrive(r) \/ AcquireLock(r) \/ AcquireKey(r) \/ ListAgain(r) \/ NoHealthyKeys(r)
             \/ ReadStates(r)
  BY <1>1 DEF Arrive, AcquireLock, AcquireKey, ListAgain, NoHealthyKeys, ReadStates
<1>2. CASE Forward(r) \/ Respond(r) \/ NetworkError(r) \/ ForwardRaises(r)
  BY <1>2 DEF Forward, Respond, NetworkError, ForwardRaises
<1>3. CASE RecordSuccess(r) \/ RecordTransientError(r) \/ MarkKeyQuotaExhausted(r)
             \/ RecordFailover(r) \/ KeyMissing(r)
  BY <1>3 DEF RecordSuccess, RecordTransientError, MarkKeyQuotaExhausted, RecordFailover,
              Read, KeyMissing
<1>4. CASE UpsertSuccess(r) \/ UpsertFailover(r) \/ Wake(r)
  BY <1>4 DEF UpsertSuccess, UpsertFailover, Wake
<1>5. CASE StoreError(r) \/ Cancel(r)
  BY <1>5 DEF StoreError, Cancel, Abandon
<1> QED
  BY <1>1, <1>2, <1>3, <1>4, <1>5 DEF Serve, Moves

\* A step after which no error is counted counts none, and excludes no key.
LEMMA NoErrorYet ==
    ASSUME Backend = "memory", TypeOK, NEW r \in Requests, Moves(r),
           \A k \in Keys : key_errors_total'[k] = 0
    PROVE  /\ ~ UpsertFailure(r)
           /\ key_errors_total' = key_errors_total /\ excluded' = excluded
           /\ pc[r] \notin Failing => pc'[r] \notin Failing
<1>1. ASSUME UpsertFailure(r) PROVE FALSE
  <2>1. pc[r] = "write"
    BY <1>1 DEF UpsertFailure
  <2>2. key[r] \in Keys
    BY <2>1 DEF TypeOK, RequestsTyped, HeldWhereUsed, Holding, Answering, Writing, Optional
  <2>3. key_errors_total'[key[r]] = key_errors_total[key[r]] + 1
    BY <1>1, <2>2 DEF UpsertFailure, TypeOK, MetricsTyped
  <2>4. key_errors_total[key[r]] \in Nat /\ key_errors_total'[key[r]] = 0
    BY <2>2 DEF TypeOK, MetricsTyped
  <2> QED
    BY <2>3, <2>4
<1>2. key_errors_total' = key_errors_total
  <2>1. CASE Writes(r)
    BY <1>1, <2>1 DEF Writes, UpsertSuccess, UpsertFailover
  <2>2. CASE ~ Writes(r)
    BY <2>2, StoreKept DEF WritesReturn, metrics
  <2> QED
    BY <2>1, <2>2
<1> QED
  BY <1>1, <1>2, ExcludedKept

LEMMA UnfailedStep ==
    ASSUME Backend = "memory", TypeOK, RetryInvariant, Unfailed, [Next]_vars
    PROVE  Unfailed'
<1> SUFFICES ASSUME \A k \in Keys : key_errors_total'[k] = 0,
                    NEW q \in Requests, pc'[q] \notin Ended
             PROVE  excluded'[q] = {} /\ pc'[q] \notin Failing
  BY DEF Unfailed
<1>1. ASSUME UNCHANGED <<key_errors_total, excluded>>, pc[q] \notin Ended
      PROVE  excluded'[q] = {} /\ pc[q] \notin Failing
  BY <1>1 DEF Unfailed
<1>2. ASSUME NEW r \in Requests, Moves(r) PROVE excluded'[q] = {} /\ pc'[q] \notin Failing
  <2>1. /\ UNCHANGED <<key_errors_total, excluded>>
        /\ pc[r] \notin Failing => pc'[r] \notin Failing
    BY <1>2, NoErrorYet
  <2>2. CASE q = r
    <3>1. pc[q] \notin Ended
      BY <1>2, <2>2, MovesOn
    <3> QED
      BY <1>1, <2>1, <2>2, <3>1
  <2>3. CASE q # r
    <3>1. pc'[q] = pc[q]
      BY <1>2, <2>3, OthersKept
    <3> QED
      BY <1>1, <2>1, <3>1
  <2> QED
    BY <2>2, <2>3
<1>3. ASSUME Restart PROVE excluded'[q] = {} /\ pc'[q] \notin Failing
  <2>1. pc[q] = "idle" /\ pc'[q] = "idle" /\ excluded' = excluded
    BY <1>3 DEF Restart, loop, Ended
  <2> QED
    BY <2>1 DEF RetryInvariant, LoopInvariant, Failing
<1>4. ASSUME UNCHANGED <<key_errors_total, excluded, pc>>
      PROVE  excluded'[q] = {} /\ pc'[q] \notin Failing
  BY <1>1, <1>4
<1>5. ASSUME NEW k \in Keys, add_key(k) \/ remove_key(k)
      PROVE  UNCHANGED <<key_errors_total, excluded, pc>>
  BY <1>5 DEF add_key, remove_key, Edit, loop, metrics
<1>6. ASSUME FinishEdit \/ EditFails \/ Tick \/ UNCHANGED vars
      PROVE  UNCHANGED <<key_errors_total, excluded, pc>>
  BY <1>6 DEF FinishEdit, EditFails, Tick, vars, loop, metrics
<1> QED
  BY <1>2, <1>3, <1>4, <1>5, <1>6 DEF Next, Moves

\* A step after which nothing has gone wrong is not one that goes wrong.
LEMMA WellBefore ==
    ASSUME Backend = "memory", TypeOK, NEW r \in Requests, Moves(r), AllWell'
    PROVE  /\ AllWell
           /\ ~ UpsertFailure(r)
           /\ pc'[r] \notin {"failed", "cancelled", "lost"}
<1>1. pc'[r] \notin {"failed", "cancelled", "lost"}
  BY DEF AllWell
<1>2. ~ UpsertFailure(r) /\ key_errors_total' = key_errors_total
  BY NoErrorYet DEF AllWell
<1>3. ASSUME NEW q \in Requests PROVE pc[q] \notin {"failed", "cancelled", "lost"}
  <2>1. CASE q # r
    <3>1. pc'[q] = pc[q]
      BY <2>1, OthersKept
    <3> QED
      BY <3>1 DEF AllWell
  <2>2. CASE q = r
    BY <2>2, MovesOn DEF Ended, Answered
  <2> QED
    BY <2>1, <2>2
<1> QED
  BY <1>1, <1>2, <1>3 DEF AllWell

\* A request that lists the keys before the first failure finds all of them.
LEMMA AllCandidates ==
    ASSUME TypeOK, RowsConsistent, NEW r \in Requests, Current(r), Listed(r), AllWell,
           MetricsFollowRows, Unfailed
    PROVE  Candidates(r) = Defined
<1>1. Candidates(r) = Available(r)
  BY CandidatesAvailable
<1>2. Defined \subseteq Keys
  BY DEF Defined, TypeOK, PoolTyped
<1>3. excluded[r] = {}
  BY DEF Listed, Listing, Ended, Answered, AllWell, Unfailed
<1>4. ASSUME NEW k \in Keys, store[k] # None PROVE store[k].cooldown_until = None
  <2>1. store[k] \in Rows
    BY <1>4 DEF Rows
  <2>2. store[k].error_count = 0
    BY <1>4 DEF MetricsFollowRows, AllWell
  <2> QED
    BY <2>1, <2>2 DEF RowsConsistent, RowConsistent
<1> QED
  BY <1>1, <1>2, <1>3, <1>4 DEF Available

\* It is given the key at the index.
LEMMA GivenAtIndex ==
    ASSUME Strategy = "round_robin", TypeOK, NEW r \in Requests, AcquireKey(r),
           Candidates(r) = Defined, Distinct(definitions)
    PROVE  /\ Len(definitions) \in Nat \ {0}
           /\ (rr_index % Len(definitions)) + 1 \in DOMAIN definitions
           /\ key'[r] = definitions[(rr_index % Len(definitions)) + 1]
           /\ rr_index' = rr_index + 1
<1>1. PICK k \in choose(Candidates(r), definitions, Seen(r), rr_index, clock) :
          key' = [key EXCEPT ![r] = k]
  BY DEF AcquireKey
<1>2. k \in RoundRobinStrategy(Members(definitions), definitions, rr_index)
  BY <1>1, DefinedMembers DEF choose
<1>3. definitions \in Seq(Keys) /\ rr_index \in Nat
  BY DEF TypeOK, PoolTyped
<1>4. key'[r] = k /\ rr_index' = rr_index + 1
  BY <1>1 DEF AcquireKey, TypeOK, RequestsTyped
<1> QED
  BY <1>2, <1>3, <1>4, ChoiceAtIndex

\* Who is given a key joins its holders.
LEMMA GivenHolds ==
    ASSUME TypeOK, NEW r \in Requests, AcquireKey(r), NEW k \in Keys, store[k] # None,
           IsFiniteSet(Holders(k))
    PROVE  /\ IsFiniteSet(Holders(k)')
           /\ Load(k)' = Load(k) + (IF k = key'[r] THEN 1 ELSE 0)
<1> USE DEF TypeOK, RequestsTyped
<1>1. /\ pc[r] \in Listing /\ pc' = [pc EXCEPT ![r] = "limit"] /\ store' = store
      /\ \E l : key' = [key EXCEPT ![r] = l]
  BY DEF AcquireKey, Listed, Goto
<1>2. r \notin Holders(k)
  BY <1>1 DEF Holders, Holding, Listing, Answering, Reading, Writing
<1>3. pc'[r] \in Holding
  BY <1>1 DEF Holding
<1>4. \A q \in Requests \ {r} : pc'[q] = pc[q] /\ key'[q] = key[q]
  BY <1>1
<1>5. Holders(k)' = IF k = key'[r] THEN Holders(k) \union {r} ELSE Holders(k)
  BY <1>2, <1>3, <1>4 DEF Holders
<1>6. store[k].total_requests \in Nat /\ Cardinality(Holders(k)) \in Nat
  BY FS_CardinalityType DEF PoolTyped, Optional, APIKeyState
<1>7. /\ IsFiniteSet(Holders(k) \union {r})
      /\ Cardinality(Holders(k) \union {r}) = Cardinality(Holders(k)) + 1
  BY <1>2, FS_AddElement
<1>8. Load(k) = store[k].total_requests + Cardinality(Holders(k))
  BY DEF Load, Holders
<1>9. Load(k)' = store[k].total_requests + Cardinality(Holders(k)')
  BY <1>1 DEF Load, Holders
<1>10. CASE k = key'[r]
  <2>1. IsFiniteSet(Holders(k)') /\ Cardinality(Holders(k)') = Cardinality(Holders(k)) + 1
    BY ONLY <1>5, <1>7, <1>10
  <2> QED
    BY ONLY <1>6, <1>8, <1>9, <1>10, <2>1
<1>11. CASE k # key'[r]
  <2>1. Holders(k)' = Holders(k)
    BY ONLY <1>5, <1>11
  <2>2. Load(k)' = Load(k) /\ Load(k) \in Nat
    BY ONLY <1>6, <1>8, <1>9, <2>1
  <2> QED
    BY ONLY <1>11, <2>1, <2>2, IsFiniteSet(Holders(k))
<1> QED
  BY <1>10, <1>11

\* Who has succeeded leaves the holders as the row counts one more.
LEMMA CountedLeaves ==
    ASSUME TypeOK, RowsConsistent, NEW r \in Requests, Current(r), UpsertSuccess(r),
           NEW k \in Keys, store[k] # None, IsFiniteSet(Holders(k))
    PROVE  IsFiniteSet(Holders(k)') /\ Load(k)' = Load(k)
<1> USE DEF TypeOK, RequestsTyped
<1>1. /\ pc[r] = "write" /\ pc' = [pc EXCEPT ![r] = "responded"]
      /\ key' = [key EXCEPT ![r] = None]
  BY DEF UpsertSuccess, Goto, Forget
<1>2. \A q \in Requests \ {r} : pc'[q] = pc[q] /\ key'[q] = key[q]
  BY <1>1
<1>3. pc[r] \in Holding /\ pc'[r] \notin Holding
  BY <1>1 DEF Holding, Answering, Reading, Writing
<1>4. Holders(k)' = IF k = key[r] THEN Holders(k) \ {r} ELSE Holders(k)
  BY <1>2, <1>3 DEF Holders
<1>5. Load(k) = store[k].total_requests + Cardinality(Holders(k))
  BY DEF Load, Holders
<1>6. Load(k)' = store'[k].total_requests + Cardinality(Holders(k)')
  BY DEF Load, Holders
<1>7. store[k].total_requests \in Nat /\ Cardinality(Holders(k)) \in Nat
  BY FS_CardinalityType DEF PoolTyped, Optional, APIKeyState
<1>8. CASE k = key[r]
  <2>1. r \in Holders(k)
    BY <1>3, <1>8 DEF Holders
  <2>2. /\ IsFiniteSet(Holders(k) \ {r})
        /\ Cardinality(Holders(k) \ {r}) = Cardinality(Holders(k)) - 1
    BY <2>1, FS_RemoveElement
  <2>3. store'[k].total_requests = store[k].total_requests + 1
    BY <1>8, WriteCounts, WriteStores DEF Writes, Counts
  <2>4. IsFiniteSet(Holders(k)') /\ Cardinality(Holders(k)') = Cardinality(Holders(k)) - 1
    BY ONLY <1>4, <1>8, <2>2
  <2> QED
    BY ONLY <1>5, <1>6, <1>7, <2>3, <2>4
<1>9. CASE k # key[r]
  BY <1>4, <1>5, <1>6, <1>9, WriteStores DEF Writes
<1> QED
  BY <1>8, <1>9

\* Whatever else a request does before the first failure, the loads stay.
LEMMA LoadsKept ==
    ASSUME Backend = "memory", TypeOK, NEW r \in Requests, Moves(r), AllWell', Unfailed,
           ~ AcquireKey(r), ~ UpsertSuccess(r)
    PROVE  rr_index' = rr_index /\ \A k \in Keys : Holders(k)' = Holders(k) /\ Load(k)' = Load(k)
<1> USE DEF TypeOK, RequestsTyped, Goto
<1>1. /\ AllWell /\ ~ UpsertFailure(r)
      /\ pc'[r] \notin {"failed", "cancelled", "lost"}
  BY WellBefore
<1>2. pc[r] \notin Failing
  BY <1>1, MovesOn DEF Unfailed, AllWell
<1>3. ~ RecordFailover(r) /\ ~ UpsertFailover(r) /\ ~ Wake(r)
  BY <1>2 DEF RecordFailover, Read, UpsertFailover, Wake, Failing
<1>4. ~ ForwardRaises(r) /\ ~ KeyMissing(r) /\ ~ StoreError(r) /\ ~ Cancel(r)
  BY <1>1 DEF ForwardRaises, KeyMissing, StoreError, Cancel, Abandon
<1>5. /\ rr_index' = rr_index /\ key' = key
      /\ pc[r] \in Holding <=> pc'[r] \in Holding
  <2> USE DEF Holding, Answering, Reading, Writing, pool
  <2>1. CASE Arrive(r) \/ AcquireLock(r) \/ ListAgain(r) \/ NoHealthyKeys(r) \/ ReadStates(r)
    BY <2>1 DEF Arrive, AcquireLock, ListAgain, NoHealthyKeys, ReadStates, Listed, Listing
  <2>2. CASE Forward(r) \/ Respond(r) \/ NetworkError(r)
    BY <1>1, <2>2 DEF Forward, Respond, NetworkError
  <2>3. CASE RecordSuccess(r) \/ RecordTransientError(r) \/ MarkKeyQuotaExhausted(r)
    BY <2>3 DEF RecordSuccess, RecordTransientError, MarkKeyQuotaExhausted, Read
  <2> QED
    BY <1>1, <1>3, <1>4, <2>1, <2>2, <2>3 DEF Serve, Moves
<1>6. store' = store
  BY <1>1, <1>3, StoreKept DEF Writes, WritesReturn
<1>7. \A q \in Requests \ {r} : pc'[q] = pc[q]
  BY OthersKept
<1>8. ASSUME NEW k \in Keys PROVE Holders(k)' = Holders(k) /\ Load(k)' = Load(k)
  <2>1. Holders(k)' = Holders(k)
    BY <1>5, <1>7 DEF Holders
  <2> QED
    BY <1>6, <2>1 DEF Load, Holders
<1> QED
  BY <1>5, <1>8

\* At the start, and after a restart over the in-memory store, nobody holds a key.
LEMMA RotatedInit == Init => Rotated
<1> SUFFICES ASSUME Init
             PROVE  /\ definitions = InitialKeys
                    /\ Turned(0, rr_index % Len(InitialKeys))
  BY DEF Rotated
<1>1. ASSUME NEW k \in Keys PROVE Holders(k) = {}
  BY NoneIsNothing DEF Init, Holders
<1>2. ASSUME NEW p \in DOMAIN InitialKeys
      PROVE  IsFiniteSet(Holders(InitialKeys[p])) /\ Load(InitialKeys[p]) = 0
  <2>1. InitialKeys[p] \in Keys
    BY EngineAssumption
  <2>2. store[InitialKeys[p]].total_requests = 0
    BY <2>1 DEF Init, Initialized, NoRows, Fresh
  <2> QED
    BY <1>1, <2>1, <2>2, FS_EmptySet DEF Load, Holders
<1>3. ASSUME NEW p \in DOMAIN InitialKeys PROVE ~ p <= rr_index % Len(InitialKeys)
  <2>1. rr_index = 0 /\ p \in 1 .. Len(InitialKeys) /\ Len(InitialKeys) \in Nat
    BY EngineAssumption DEF Init
  <2> QED
    BY <2>1
<1> QED
  BY <1>2, <1>3 DEF Init, Turned

\* The next key in turn is given once more, and behind the last the turn is over.
LEMMA TurnsOn ==
    ASSUME NEW n \in Nat \ {0}, n = Len(InitialKeys), NEW q \in Nat, rr_index \in Nat,
           Turned(q, rr_index % n), rr_index' = rr_index + 1,
           \A p \in 1 .. n :
               /\ IsFiniteSet(Holders(InitialKeys[p])')
               /\ Load(InitialKeys[p])' =
                     Load(InitialKeys[p]) + (IF p = (rr_index % n) + 1 THEN 1 ELSE 0)
    PROVE  \E t \in Nat : Turned(t, rr_index % n)'
<1> DEFINE m == rr_index % n
<1>1. /\ m \in 0 .. n - 1
      /\ (rr_index + 1) % n = IF m = n - 1 THEN 0 ELSE m + 1
  BY NextRemainder
<1>2. DOMAIN InitialKeys = 1 .. n
  BY EngineAssumption
<1> HIDE DEF m
<1>3. ASSUME NEW p \in 1 .. n
      PROVE  Load(InitialKeys[p])' = q + (IF p <= m + 1 THEN 1 ELSE 0)
  <2>1. Load(InitialKeys[p]) = q + (IF p <= m THEN 1 ELSE 0)
    BY <1>2 DEF Turned, m
  <2>2. Load(InitialKeys[p])' = Load(InitialKeys[p]) + (IF p = m + 1 THEN 1 ELSE 0)
    BY DEF m
  <2> QED
    BY <1>1, <2>1, <2>2
<1>4. CASE m = n - 1
  <2>1. (rr_index' % n) = 0
    BY <1>1, <1>4
  <2>2. ASSUME NEW p \in 1 .. n
        PROVE  Load(InitialKeys[p])' = (q + 1) + (IF p <= 0 THEN 1 ELSE 0)
    BY <1>3, <1>4
  <2>3. Turned(q + 1, rr_index % n)'
    BY <1>2, <2>1, <2>2 DEF Turned
  <2> QED
    BY <2>3
<1>5. CASE m # n - 1
  <2>1. (rr_index' % n) = m + 1
    BY <1>1, <1>5
  <2>2. Turned(q, rr_index % n)'
    BY <1>2, <1>3, <2>1 DEF Turned
  <2> QED
    BY <2>2
<1> QED
  BY <1>4, <1>5

LEMMA RotatedStep ==
    ASSUME Backend = "memory", Strategy = "round_robin", TypeOK, RowsConsistent,
           MemoryInvariant, Unedited, DefinitionsMatch, Unfailed, Rotated, [Next]_vars
    PROVE  Rotated'
<1> DEFINE n == Len(InitialKeys)
           next == \E q \in Nat : Turned(q, rr_index % n)'
<1> SUFFICES ASSUME edits' = 0 PROVE definitions' = InitialKeys /\ (AllWell' => next)
  BY DEF Rotated
<1>1. ASSUME NEW r \in Requests, Moves(r) PROVE edits' = edits /\ definitions' = definitions
  BY <1>1, WorldKept
<1>2. edits = 0
  BY <1>1 DEF Next, Moves, add_key, remove_key, Edit, FinishEdit, EditFails, Restart, Tick, vars, world,
     TypeOK, WorldTyped
<1>3. /\ definitions = InitialKeys /\ Distinct(InitialKeys)
      /\ admin = None /\ MetricsFollowRows
  BY <1>2 DEF Rotated, Unedited, DefinitionsMatch
<1>4. /\ DOMAIN InitialKeys = 1 .. n
      /\ \A p \in 1 .. n : InitialKeys[p] \in Keys /\ store[InitialKeys[p]] # None
  <2>1. DOMAIN InitialKeys = 1 .. n /\ \A p \in 1 .. n : InitialKeys[p] \in Keys
    BY EngineAssumption
  <2>2. \A p \in 1 .. n : InitialKeys[p] \in Defined
    BY <1>3, <2>1 DEF Defined
  <2> QED
    BY <1>3, <2>1, <2>2 DEF DefinitionsMatch
<1>5. ASSUME NEW e \in Keys PROVE ~ (add_key(e) \/ remove_key(e))
  BY <1>2 DEF add_key, remove_key, Edit
<1>6. ~ FinishEdit /\ ~ EditFails
  BY <1>3 DEF FinishEdit, EditFails
<1>7. ASSUME NEW r \in Requests, Moves(r), AllWell' PROVE next
  <2>1. AllWell
    BY <1>7, WellBefore
  <2>2. PICK q \in Nat : Turned(q, rr_index % n)
    BY <1>2, <2>1 DEF Rotated
  <2>3. Current(r) /\ rr_index \in Nat
    BY DEF MemoryInvariant, TypeOK, PoolTyped
  <2>4. CASE AcquireKey(r)
    <3>1. Candidates(r) = Defined
      BY <1>3, <2>1, <2>3, <2>4, AllCandidates DEF AcquireKey
    <3>2. /\ n \in Nat \ {0} /\ (rr_index % n) + 1 \in 1 .. n
          /\ key'[r] = InitialKeys[(rr_index % n) + 1]
          /\ rr_index' = rr_index + 1
      BY <1>3, <1>4, <2>4, <3>1, GivenAtIndex
    <3>3. ASSUME NEW p \in 1 .. n
          PROVE  /\ IsFiniteSet(Holders(InitialKeys[p])')
                 /\ Load(InitialKeys[p])' =
                       Load(InitialKeys[p]) + (IF p = (rr_index % n) + 1 THEN 1 ELSE 0)
      <4>1. InitialKeys[p] = key'[r] <=> p = (rr_index % n) + 1
        BY <1>3, <1>4, <3>2 DEF Distinct
      <4>2. IsFiniteSet(Holders(InitialKeys[p]))
        BY <1>4, <2>2 DEF Turned
      <4> QED
        BY <1>4, <2>4, <4>1, <4>2, GivenHolds
    <3> HIDE DEF n
    <3> QED
      BY <2>2, <2>3, <3>2, <3>3, TurnsOn DEF n
  <2>5. CASE UpsertSuccess(r)
    <3>1. rr_index' = rr_index
      BY <2>5 DEF UpsertSuccess, upsert_state
    <3>2. ASSUME NEW p \in 1 .. n
          PROVE  /\ IsFiniteSet(Holders(InitialKeys[p])')
                 /\ Load(InitialKeys[p])' = Load(InitialKeys[p])
      <4>1. IsFiniteSet(Holders(InitialKeys[p]))
        BY <1>4, <2>2 DEF Turned
      <4> QED
        BY <1>4, <2>3, <2>5, <4>1, CountedLeaves
    <3> QED
      BY <1>4, <2>2, <3>1, <3>2 DEF Turned
  <2>6. CASE ~ AcquireKey(r) /\ ~ UpsertSuccess(r)
    <3>1. rr_index' = rr_index /\ \A k \in Keys : Holders(k)' = Holders(k) /\ Load(k)' = Load(k)
      BY <1>7, <2>6, LoadsKept
    <3> QED
      BY <1>4, <2>2, <3>1 DEF Turned
  <2> QED
    BY <2>4, <2>5, <2>6
<1>8. ASSUME Restart PROVE definitions' = InitialKeys /\ next
  <2>1. /\ definitions' = InitialKeys /\ rr_index' = 0
        /\ \A r \in Requests : key'[r] = None
        /\ store' = Initialized(NoRows)
    BY <1>8 DEF Restart
  <2>2. ASSUME NEW p \in 1 .. n
        PROVE  IsFiniteSet(Holders(InitialKeys[p])') /\ Load(InitialKeys[p])' = 0
    <3>1. Holders(InitialKeys[p])' = {}
      BY <1>4, <2>1, NoneIsNothing DEF Holders
    <3>2. store'[InitialKeys[p]].total_requests = 0
      BY <1>4, <2>1 DEF Initialized, NoRows, Fresh
    <3>3. Load(InitialKeys[p])' =
              store'[InitialKeys[p]].total_requests + Cardinality(Holders(InitialKeys[p])')
      BY DEF Load, Holders
    <3> QED
      BY <3>1, <3>2, <3>3, FS_EmptySet
  <2>3. ASSUME NEW p \in 1 .. n PROVE ~ p <= rr_index' % n
    BY <2>1
  <2>4. Turned(0, rr_index % n)'
    BY <1>4, <2>2, <2>3 DEF Turned
  <2> QED
    BY <2>1, <2>4
<1>9. CASE Tick \/ UNCHANGED vars
  <2>1. UNCHANGED <<definitions, store, rr_index, pc, key, key_errors_total>>
    BY <1>9 DEF Tick, vars, pool, metrics
  <2>2. ASSUME AllWell' PROVE AllWell
    BY <2>1, <2>2 DEF AllWell
  <2>3. ASSUME NEW k PROVE Holders(k)' = Holders(k) /\ Load(k)' = Load(k)
    BY <2>1 DEF Holders, Load
  <2> QED
    BY <1>2, <1>3, <2>1, <2>2, <2>3 DEF Rotated, Turned
<1> QED
  BY <1>1, <1>3, <1>5, <1>6, <1>7, <1>8, <1>9 DEF Next, Moves

\* Round robin spreads requests evenly: until one fails, or the pool is edited, no
\* configured key is ahead of another by more than one request, those in flight
\* included (strategies/impl.py:16-27, key_pool.py:47-57), over the in-memory store.
THEOREM RotationStaysEven ==
    ASSUME Backend = "memory", Strategy = "round_robin"
    PROVE  Spec => [](edits = 0 => EvenRotation)
<1> DEFINE Inv == /\ TypeOK /\ RowsConsistent /\ RetryInvariant /\ MemoryInvariant
                  /\ Unedited /\ DefinitionsMatch /\ Unfailed /\ Rotated
<1>1. Init => Inv
  <2>1. Init => Unfailed
    BY DEF Init, Unfailed, Failing
  <2> QED
    BY <2>1, TypeInit, RowsInit, RetryInit, MemoryInit, MetricsInit, DefinitionsInit,
       RotatedInit
<1>2. Inv /\ [Next]_vars => Inv'
  BY TypeStep, RowsStep, RetryStep, MemoryStep, MetricsStep, DefinitionsStep, UnfailedStep,
     RotatedStep
<1>3. ASSUME Inv, edits = 0, AllWell, NEW k \in Defined, NEW l \in Defined
      PROVE  Load(k) <= Load(l) + 1
  <2>1. PICK i \in DOMAIN InitialKeys, j \in DOMAIN InitialKeys :
            k = InitialKeys[i] /\ l = InitialKeys[j]
    BY <1>3 DEF Rotated, Defined
  <2>2. PICK q \in Nat : Turned(q, rr_index % Len(InitialKeys))
    BY <1>3 DEF Rotated
  <2>3. Load(k) \in {q, q + 1} /\ Load(l) \in {q, q + 1}
    BY <2>1, <2>2 DEF Turned
  <2> QED
    BY <2>3
<1>4. Inv => (edits = 0 => EvenRotation)
  BY <1>3 DEF EvenRotation
<1> HIDE DEF Inv
<1> QED
  BY <1>1, <1>2, <1>4, PTL DEF Spec
=============================================================================
