--------------------------- MODULE RequestProofs ----------------------------
(***************************************************************************)
(* Proofs about the request engine, for any sets of requests and keys, any *)
(* backend, strategy and retry budget.                                     *)
(***************************************************************************)
EXTENDS RequestProperties, FiniteSetTheorems, TLAPS

-----------------------------------------------------------------------------
(* The rows                                                                *)

\* A fresh row is a row.
LEMMA FreshTyped == Fresh \in APIKeyState
BY DEF Fresh, APIKeyState, Optional

\* The row with these fields.
Row(total, errors, failovers, remaining, used, cooldown, limits) ==
    [ total_requests            |-> total,
      error_count               |-> errors,
      failover_count            |-> failovers,
      estimated_remaining_quota |-> remaining,
      last_used_at              |-> used,
      cooldown_until            |-> cooldown,
      consecutive_rate_limits   |-> limits ]

\* A row is made of its fields.
LEMMA RowOfFields ==
    ASSUME NEW s \in APIKeyState
    PROVE  s = Row(s.total_requests, s.error_count, s.failover_count,
                   s.estimated_remaining_quota, s.last_used_at, s.cooldown_until,
                   s.consecutive_rate_limits)
BY DEF APIKeyState, Row

\* What record_success makes of a row, field by field.
LEMMA SucceededRow ==
    ASSUME NEW s \in APIKeyState, NEW now, NEW q
    PROVE  Succeeded(s, now, q) =
             Row(s.total_requests + 1, s.error_count, s.failover_count,
                 IF q = None THEN s.estimated_remaining_quota ELSE q, now, None, 0)
<1> DEFINE total == s.total_requests + 1
           left  == IF q = None THEN s.estimated_remaining_quota ELSE q
           e == s.error_count
           f == s.failover_count
           c == s.cooldown_until
           m == s.consecutive_rate_limits
           h == s.estimated_remaining_quota
           u == s.last_used_at
<1>1. Succeeded(s, now, q) =
        [s EXCEPT !.total_requests = total, !.last_used_at = now,
                  !.consecutive_rate_limits = 0, !.cooldown_until = None,
                  !.estimated_remaining_quota = left]
  BY DEF Succeeded
<1>2. s = Row(s.total_requests, e, f, h, u, c, m)
  BY RowOfFields
<1> HIDE DEF total, left, e, f, c, m, h, u
<1>3. [s EXCEPT !.total_requests = total] = Row(total, e, f, h, u, c, m)
  BY <1>2 DEF Row
<1>4. [Row(total, e, f, h, u, c, m) EXCEPT !.last_used_at = now] =
        Row(total, e, f, h, now, c, m)
  BY DEF Row
<1>5. [Row(total, e, f, h, now, c, m) EXCEPT !.consecutive_rate_limits = 0] =
        Row(total, e, f, h, now, c, 0)
  BY DEF Row
<1>6. [Row(total, e, f, h, now, c, 0) EXCEPT !.cooldown_until = None] =
        Row(total, e, f, h, now, None, 0)
  BY DEF Row
<1>7. [Row(total, e, f, h, now, None, 0) EXCEPT !.estimated_remaining_quota = left] =
        Row(total, e, f, left, now, None, 0)
  BY DEF Row
<1>8. [s EXCEPT !.total_requests = total, !.last_used_at = now,
                !.consecutive_rate_limits = 0] = Row(total, e, f, h, now, c, 0)
  BY <1>3, <1>4, <1>5
<1>9. Succeeded(s, now, q) = Row(total, e, f, left, now, None, 0)
  BY <1>1, <1>8, <1>6, <1>7
<1> QED
  BY <1>9 DEF total, left, e, f

\* What record_transient_error makes of a row.
LEMMA TransientErrorRow ==
    ASSUME NEW s \in APIKeyState, NEW now, NEW why
    PROVE  TransientError(s, now, why) =
             Row(s.total_requests, s.error_count + 1, s.failover_count,
                 s.estimated_remaining_quota, now, s.cooldown_until,
                 IF why = "rate_limited" THEN s.consecutive_rate_limits + 1
                                         ELSE s.consecutive_rate_limits)
<1> DEFINE t == s.total_requests
           errors == s.error_count + 1
           f == s.failover_count
           h == s.estimated_remaining_quota
           u == s.last_used_at
           c == s.cooldown_until
           m == s.consecutive_rate_limits
           limits == IF why = "rate_limited" THEN s.consecutive_rate_limits + 1
                                             ELSE s.consecutive_rate_limits
<1>1. TransientError(s, now, why) =
        [s EXCEPT !.error_count = errors, !.last_used_at = now,
                  !.consecutive_rate_limits = limits]
  BY DEF TransientError
<1>2. s = Row(t, s.error_count, f, h, u, c, m)
  BY RowOfFields
<1> HIDE DEF t, errors, f, h, u, c, m, limits
<1>3. [s EXCEPT !.error_count = errors] = Row(t, errors, f, h, u, c, m)
  BY <1>2 DEF Row
<1>4. [Row(t, errors, f, h, u, c, m) EXCEPT !.last_used_at = now] =
        Row(t, errors, f, h, now, c, m)
  BY DEF Row
<1>5. [Row(t, errors, f, h, now, c, m) EXCEPT !.consecutive_rate_limits = limits] =
        Row(t, errors, f, h, now, c, limits)
  BY DEF Row
<1>6. TransientError(s, now, why) = Row(t, errors, f, h, now, c, limits)
  BY <1>1, <1>3, <1>4, <1>5
<1> QED
  BY <1>6 DEF t, errors, f, h, c, limits

\* What mark_key_quota_exhausted makes of a row.
LEMMA QuotaExhaustedRow ==
    ASSUME NEW s \in APIKeyState, NEW now
    PROVE  QuotaExhausted(s, now) =
             Row(s.total_requests, s.error_count + 1, s.failover_count,
                 IF s.estimated_remaining_quota = None THEN 0
                 ELSE IF s.estimated_remaining_quota > 0 THEN 0
                 ELSE s.estimated_remaining_quota,
                 now, now + Cooldown, s.consecutive_rate_limits + 1)
<1> DEFINE t == s.total_requests
           errors == s.error_count + 1
           f == s.failover_count
           h == s.estimated_remaining_quota
           u == s.last_used_at
           c == s.cooldown_until
           m == s.consecutive_rate_limits
           limits == s.consecutive_rate_limits + 1
           end == now + Cooldown
           left == IF s.estimated_remaining_quota = None THEN 0
                   ELSE IF s.estimated_remaining_quota > 0 THEN 0
                   ELSE s.estimated_remaining_quota
<1>1. QuotaExhausted(s, now) =
        [s EXCEPT !.error_count = errors, !.consecutive_rate_limits = limits,
                  !.cooldown_until = end, !.last_used_at = now,
                  !.estimated_remaining_quota = left]
  BY DEF QuotaExhausted
<1>2. s = Row(t, s.error_count, f, h, u, c, m)
  BY RowOfFields
<1> HIDE DEF t, errors, f, h, u, c, m, limits, end, left
<1>3. [s EXCEPT !.error_count = errors] = Row(t, errors, f, h, u, c, m)
  BY <1>2 DEF Row
<1>4. [Row(t, errors, f, h, u, c, m) EXCEPT !.consecutive_rate_limits = limits] =
        Row(t, errors, f, h, u, c, limits)
  BY DEF Row
<1>5. [Row(t, errors, f, h, u, c, limits) EXCEPT !.cooldown_until = end] =
        Row(t, errors, f, h, u, end, limits)
  BY DEF Row
<1>6. [Row(t, errors, f, h, u, end, limits) EXCEPT !.last_used_at = now] =
        Row(t, errors, f, h, now, end, limits)
  BY DEF Row
<1>7. [Row(t, errors, f, h, now, end, limits) EXCEPT !.estimated_remaining_quota = left] =
        Row(t, errors, f, left, now, end, limits)
  BY DEF Row
<1>8. [s EXCEPT !.error_count = errors, !.consecutive_rate_limits = limits,
                !.cooldown_until = end] = Row(t, errors, f, h, u, end, limits)
  BY <1>3, <1>4, <1>5
<1>9. QuotaExhausted(s, now) = Row(t, errors, f, left, now, end, limits)
  BY <1>1, <1>8, <1>6, <1>7
<1> QED
  BY <1>9 DEF t, errors, f, left, end, limits

\* What record_failover makes of a row.
LEMMA FailedOverRow ==
    ASSUME NEW s \in APIKeyState
    PROVE  FailedOver(s) =
             Row(s.total_requests, s.error_count, s.failover_count + 1,
                 s.estimated_remaining_quota, s.last_used_at, s.cooldown_until,
                 s.consecutive_rate_limits)
BY RowOfFields DEF FailedOver, Row

\* Each change of key_pool.py:59-95 makes a row of a row.
LEMMA RowsTyped ==
    ASSUME NEW s \in APIKeyState, NEW now \in Nat, NEW q \in Optional(Int), NEW why
    PROVE  /\ Succeeded(s, now, q) \in APIKeyState
           /\ TransientError(s, now, why) \in APIKeyState
           /\ QuotaExhausted(s, now) \in APIKeyState
           /\ FailedOver(s) \in APIKeyState
<1>1. Succeeded(s, now, q) \in APIKeyState
  BY SucceededRow DEF Row, APIKeyState, Optional
<1>2. TransientError(s, now, why) \in APIKeyState
  BY TransientErrorRow DEF Row, APIKeyState, Optional
<1>3. QuotaExhausted(s, now) \in APIKeyState
  BY QuotaExhaustedRow, CooldownAssumption, NoneAssumption DEF Row, APIKeyState, Optional
<1>4. FailedOver(s) \in APIKeyState
  BY FailedOverRow DEF Row, APIKeyState, Optional
<1> QED
  BY <1>1, <1>2, <1>3, <1>4

\* Each of them makes a consistent row, dated no later than now, of such a row.
LEMMA RowsStayConsistent ==
    ASSUME NEW s \in APIKeyState, RowConsistent(s), NEW now \in Nat,
           s.last_used_at # None => s.last_used_at <= now,
           NEW q \in Optional(Int), NEW why
    PROVE  /\ RowConsistent(Succeeded(s, now, q))
           /\ RowConsistent(TransientError(s, now, why))
           /\ RowConsistent(QuotaExhausted(s, now))
           /\ RowConsistent(FailedOver(s))
           /\ Succeeded(s, now, q).last_used_at = now
           /\ TransientError(s, now, why).last_used_at = now
           /\ QuotaExhausted(s, now).last_used_at = now
           /\ FailedOver(s).last_used_at = s.last_used_at
<1>1. /\ RowConsistent(Succeeded(s, now, q))
      /\ Succeeded(s, now, q).last_used_at = now
  BY SucceededRow, NoneAssumption DEF Row, RowConsistent, APIKeyState, Optional
<1>2. /\ RowConsistent(TransientError(s, now, why))
      /\ TransientError(s, now, why).last_used_at = now
  BY TransientErrorRow, NoneAssumption, CooldownAssumption
  DEF Row, RowConsistent, APIKeyState, Optional
<1>3. /\ RowConsistent(QuotaExhausted(s, now))
      /\ QuotaExhausted(s, now).last_used_at = now
  BY QuotaExhaustedRow, NoneAssumption, CooldownAssumption
  DEF Row, RowConsistent, APIKeyState, Optional
<1>4. /\ RowConsistent(FailedOver(s))
      /\ FailedOver(s).last_used_at = s.last_used_at
  BY FailedOverRow DEF Row, RowConsistent
<1> QED
  BY <1>1, <1>2, <1>3, <1>4

-----------------------------------------------------------------------------
(* The parts of a step                                                     *)

\* Dropping a key from the definitions leaves a sequence of keys.
LEMMA WithoutTyped ==
    ASSUME NEW s \in Seq(Keys), NEW k, \E i \in DOMAIN s : s[i] = k
    PROVE  Without(s, k) \in Seq(Keys)
<1> DEFINE j == CHOOSE i \in DOMAIN s : s[i] = k
<1>1. j \in 1 .. Len(s)
  OBVIOUS
<1>2. SubSeq(s, 1, j - 1) \in Seq(Keys) /\ SubSeq(s, j + 1, Len(s)) \in Seq(Keys)
  BY <1>1
<1> QED
  BY <1>2 DEF Without

\* initialize leaves typed rows.
LEMMA InitializedTyped ==
    ASSUME NEW rows \in [Keys -> Optional(APIKeyState)]
    PROVE  Initialized(rows) \in [Keys -> Optional(APIKeyState)]
BY FreshTyped DEF Initialized, Optional

\* What classify_response says of a response is one of the reasons.
LEMMA ReasonTyped ==
    ASSUME NEW a
    PROVE  Quota!classify_response(a).reason \in Reasons
BY DEF Quota!classify_response, Quota!Classification, Reasons

\* The strategies choose among the candidates.
LEMMA ChoiceIsCandidate ==
    ASSUME NEW cand, NEW order, NEW s, NEW index, NEW now,
           NEW k \in choose(cand, order, s, index, now)
    PROVE  k \in cand
BY DEF choose

LEMMA TypeInit == Init => TypeOK
<1> SUFFICES ASSUME Init PROVE TypeOK
  OBVIOUS
<1>1. PoolTyped
  <2>1. NoRows \in [Keys -> Optional(APIKeyState)]
    BY DEF NoRows, Optional
  <2> QED
    BY <2>1, InitializedTyped, EngineAssumption DEF Init, PoolTyped, Optional
<1>2. RequestsTyped
  BY DEF Init, RequestsTyped, Steps, Optional, NoRows
<1>3. HeldWhereUsed
  BY DEF Init, HeldWhereUsed, Holding, Answering, Reading, Writing
<1>4. MetricsTyped
  BY DEF Init, MetricsTyped
<1>5. WorldTyped
  BY DEF Init, WorldTyped, Optional
<1> QED
  BY <1>1, <1>2, <1>3, <1>4, <1>5 DEF TypeOK

\* What a request does on its own keeps the types.
LEMMA TypeServe ==
    ASSUME TypeOK, NEW r \in Requests, Serve(r)
    PROVE  TypeOK'
<1> USE NoneIsNothing, NoneAssumption
    DEF TypeOK, PoolTyped, RequestsTyped, HeldWhereUsed, MetricsTyped, WorldTyped,
        pool, loop, listing, answer, metrics, world, Goto, Forget, Read, upsert_state,
        Steps, Storing, Listing, Reading, Writing, Pausing, Ended, Answered, Holding,
        Answering, Optional, NoRows
<1>1. ASSUME AcquireLock(r) PROVE TypeOK'
  BY <1>1 DEF AcquireLock
<1>2. ASSUME ReadStates(r) PROVE TypeOK'
  BY <1>2 DEF ReadStates
<1>3. ASSUME AcquireKey(r) PROVE TypeOK'
  <2>1. PICK k \in choose(Candidates(r), definitions, Seen(r), rr_index, clock) :
            key' = [key EXCEPT ![r] = k]
    BY <1>3 DEF AcquireKey
  <2>2. k \in Candidates(r)
    BY ONLY <2>1, ChoiceIsCandidate
  <2>3. k \in Keys
    BY <2>2 DEF Candidates, Defined
  <2>4. RequestsTyped'
    BY <1>3, <2>1, <2>3 DEF AcquireKey, Listed
  <2>5. HeldWhereUsed'
    BY <1>3, <2>1, <2>3 DEF AcquireKey, Listed
  <2>6. PoolTyped' /\ MetricsTyped' /\ WorldTyped'
    BY <1>3 DEF AcquireKey
  <2> QED
    BY <2>4, <2>5, <2>6
<1>4. ASSUME ListAgain(r) PROVE TypeOK'
  BY <1>4 DEF ListAgain, Listed
<1>5. ASSUME NoHealthyKeys(r) PROVE TypeOK'
  BY <1>5 DEF NoHealthyKeys, Listed
<1>6. ASSUME Forward(r) PROVE TypeOK'
  BY <1>6 DEF Forward
<1>7. ASSUME Respond(r) PROVE TypeOK'
  <2>1. PICK a \in Answers :
          IF Quota!classify_response(a).reason = "ok" /\ Quota!extract_raises(a)
          THEN Goto(r, "failed") /\ Forget(r)
          ELSE /\ Goto(r, "read")
               /\ reason' = [reason EXCEPT ![r] = Quota!classify_response(a).reason]
               /\ quota' = [quota EXCEPT ![r] =
                     IF Quota!classify_response(a).reason = "ok"
                     THEN Quota!extract_remaining_quota(a) ELSE None]
               /\ UNCHANGED key
    BY <1>7 DEF Respond
  <2>2. /\ pc[r] = "send"
        /\ UNCHANGED <<pool, loop, listing, row, metrics, world>>
    BY <1>7 DEF Respond
  <2>3. PoolTyped' /\ MetricsTyped' /\ WorldTyped'
    BY <2>2
  <2>4. CASE Quota!classify_response(a).reason = "ok" /\ Quota!extract_raises(a)
    <3>1. Goto(r, "failed") /\ Forget(r)
      BY <2>1, <2>4
    <3>2. RequestsTyped' /\ HeldWhereUsed'
      BY <2>2, <3>1
    <3> QED
      BY <2>3, <3>2
  <2>5. CASE ~ (Quota!classify_response(a).reason = "ok" /\ Quota!extract_raises(a))
    <3> DEFINE why  == Quota!classify_response(a).reason
               left == IF why = "ok" THEN Quota!extract_remaining_quota(a) ELSE None
    <3>1. why \in Reasons
      BY ReasonTyped
    <3>2. left \in Optional(Int)
      BY EngineAssumption
    <3>3. /\ Goto(r, "read")
          /\ reason' = [reason EXCEPT ![r] = why]
          /\ quota' = [quota EXCEPT ![r] = left]
          /\ UNCHANGED key
      BY <2>1, <2>5
    <3> HIDE DEF why, left
    <3>4. RequestsTyped'
      BY <2>2, <3>1, <3>2, <3>3
    <3>5. HeldWhereUsed'
      BY <2>2, <3>1, <3>3
    <3> QED
      BY <2>3, <3>4, <3>5
  <2> QED
    BY <2>4, <2>5
<1>8. ASSUME NetworkError(r) PROVE TypeOK'
  <2>1. RequestsTyped'
    BY <1>8 DEF NetworkError, Reasons
  <2>2. HeldWhereUsed'
    BY <1>8 DEF NetworkError, Reasons
  <2>3. PoolTyped' /\ MetricsTyped' /\ WorldTyped'
    BY <1>8 DEF NetworkError
  <2> QED
    BY <2>1, <2>2, <2>3
<1>9. ASSUME ForwardRaises(r) PROVE TypeOK'
  BY <1>9 DEF ForwardRaises
<1>10. ASSUME NEW step \in Reading, NEW next \in Writing,
              step = "read" <=> next = "write",
              NEW s \in APIKeyState, Read(r, step, next, s)
       PROVE  TypeOK'
  <2>1. RequestsTyped'
    BY <1>10
  <2>2. HeldWhereUsed'
    BY <1>10
  <2>3. PoolTyped' /\ MetricsTyped' /\ WorldTyped'
    BY <1>10
  <2> QED
    BY <2>1, <2>2, <2>3
<1>11. ASSUME RecordSuccess(r) PROVE TypeOK'
  <2>1. store[key[r]] \in APIKeyState /\ quota[r] \in Optional(Int) /\ clock \in Nat
    BY <1>11 DEF RecordSuccess
  <2>2. Succeeded(store[key[r]], clock, quota[r]) \in APIKeyState
    BY <2>1, RowsTyped
  <2> QED
    BY <1>11, <2>2, <1>10 DEF RecordSuccess
<1>12. ASSUME RecordTransientError(r) PROVE TypeOK'
  <2>1. store[key[r]] \in APIKeyState /\ clock \in Nat
    BY <1>12 DEF RecordTransientError
  <2>2. TransientError(store[key[r]], clock, reason[r]) \in APIKeyState
    BY <2>1, RowsTyped
  <2> QED
    BY <1>12, <2>2, <1>10 DEF RecordTransientError
<1>13. ASSUME MarkKeyQuotaExhausted(r) PROVE TypeOK'
  <2>1. store[key[r]] \in APIKeyState /\ clock \in Nat
    BY <1>13 DEF MarkKeyQuotaExhausted
  <2>2. QuotaExhausted(store[key[r]], clock) \in APIKeyState
    BY <2>1, RowsTyped
  <2> QED
    BY <1>13, <2>2, <1>10 DEF MarkKeyQuotaExhausted
<1>14. ASSUME RecordFailover(r) PROVE TypeOK'
  <2>1. store[key[r]] \in APIKeyState
    BY <1>14 DEF RecordFailover
  <2>2. FailedOver(store[key[r]]) \in APIKeyState
    BY <2>1, RowsTyped
  <2> QED
    BY <1>14, <2>2, <1>10 DEF RecordFailover
<1>15. ASSUME UpsertSuccess(r) PROVE TypeOK'
  BY <1>15 DEF UpsertSuccess
<1>16. ASSUME UpsertFailure(r) PROVE TypeOK'
  BY <1>16 DEF UpsertFailure
<1>17. ASSUME UpsertFailover(r) PROVE TypeOK'
  <2>1. RequestsTyped'
    BY <1>17 DEF UpsertFailover
  <2>2. HeldWhereUsed'
    BY <1>17 DEF UpsertFailover
  <2>3. PoolTyped' /\ MetricsTyped' /\ WorldTyped'
    BY <1>17 DEF UpsertFailover
  <2> QED
    BY <2>1, <2>2, <2>3
<1>18. ASSUME KeyMissing(r) PROVE TypeOK'
  BY <1>18 DEF KeyMissing
<1>19. ASSUME Wake(r) PROVE TypeOK'
  <2>1. RequestsTyped'
    BY <1>19 DEF Wake
  <2>2. HeldWhereUsed'
    BY <1>19 DEF Wake
  <2>3. PoolTyped' /\ MetricsTyped' /\ WorldTyped'
    BY <1>19 DEF Wake
  <2> QED
    BY <2>1, <2>2, <2>3
<1> QED
  BY <1>1, <1>2, <1>3, <1>4, <1>5, <1>6, <1>7, <1>8, <1>9, <1>11, <1>12, <1>13, <1>14,
     <1>15, <1>16, <1>17, <1>18, <1>19
  DEF Serve

\* Every step keeps the types.
LEMMA TypeStep == TypeOK /\ [Next]_vars => TypeOK'
<1> SUFFICES ASSUME TypeOK, [Next]_vars PROVE TypeOK'
  OBVIOUS
<1> USE NoneIsNothing, NoneAssumption
    DEF TypeOK, PoolTyped, RequestsTyped, HeldWhereUsed, MetricsTyped, WorldTyped,
        pool, loop, listing, answer, metrics, world, Goto, Forget,
        Steps, Storing, Listing, Reading, Writing, Pausing, Ended, Answered, Holding,
        Answering, Optional, NoRows
<1>1. ASSUME NEW r \in Requests, Arrive(r) PROVE TypeOK'
  BY <1>1 DEF Arrive
<1>2. ASSUME NEW r \in Requests, Serve(r) PROVE TypeOK'
  BY <1>2, TypeServe
<1>3. ASSUME NEW r \in Requests, StoreError(r) PROVE TypeOK'
  BY <1>3 DEF StoreError, Abandon, MaybeWritten
<1>4. ASSUME NEW r \in Requests, Cancel(r) PROVE TypeOK'
  BY <1>4 DEF Cancel, Abandon, MaybeWritten
<1>5. ASSUME NEW k \in Keys, add_key(k) PROVE TypeOK'
  <2>1. definitions' \in Seq(Keys)
    BY <1>5 DEF add_key
  <2>2. admin' \in Edits
    BY <1>5 DEF add_key, Edit, Edits
  <2> QED
    BY <1>5, <2>1, <2>2 DEF add_key, Edit
<1>6. ASSUME NEW k \in Keys, remove_key(k) PROVE TypeOK'
  <2>1. definitions' \in Seq(Keys)
    BY <1>6, WithoutTyped DEF remove_key, Defined
  <2>2. admin' \in Edits
    BY <1>6 DEF remove_key, Edit, Edits
  <2> QED
    BY <1>6, <2>1, <2>2 DEF remove_key, Edit
<1>7. ASSUME FinishEdit \/ EditFails PROVE TypeOK'
  <2>1. CASE FinishEdit
    BY <2>1, FreshTyped DEF FinishEdit, Edits
  <2>2. CASE EditFails
    BY <2>2 DEF EditFails
  <2> QED
    BY <1>7, <2>1, <2>2
<1>8. ASSUME Restart PROVE TypeOK'
  <2>1. store' \in [Keys -> Optional(APIKeyState)]
    BY <1>8, InitializedTyped DEF Restart
  <2>2. PoolTyped'
    BY <1>8, <2>1, EngineAssumption DEF Restart
  <2>3. RequestsTyped'
    BY <1>8 DEF Restart
  <2>4. HeldWhereUsed'
    BY <1>8 DEF Restart
  <2>5. MetricsTyped' /\ WorldTyped'
    BY <1>8 DEF Restart
  <2> QED
    BY <2>2, <2>3, <2>4, <2>5
<1>9. ASSUME Tick PROVE TypeOK'
  BY <1>9 DEF Tick
<1>10. ASSUME UNCHANGED vars PROVE TypeOK'
  BY <1>10 DEF vars
<1> QED
  BY <1>1, <1>2, <1>3, <1>4, <1>5, <1>6, <1>7, <1>8, <1>9, <1>10 DEF Next

\* The type invariant holds, for any pool, backend, strategy and retry budget.
THEOREM TypeCorrect == Spec => []TypeOK
BY TypeInit, TypeStep, PTL DEF Spec

-----------------------------------------------------------------------------
(* Consistent rows                                                         *)

\* What RowsConsistent asks of one row.
Sound(s, now) == RowConsistent(s) /\ (s.last_used_at # None => s.last_used_at <= now)

\* No step sets the clock back.
LEMMA ClockForward ==
    ASSUME TypeOK, [Next]_vars
    PROVE  clock \in Nat /\ clock' \in Nat /\ clock <= clock'
<1> USE DEF TypeOK, WorldTyped
<1>1. ASSUME NEW r \in Requests, Arrive(r) \/ Serve(r) \/ StoreError(r) \/ Cancel(r)
      PROVE  clock' = clock
  BY <1>1 DEF Serve, Arrive, AcquireLock, ReadStates, AcquireKey, ListAgain, NoHealthyKeys,
        Forward, Respond, NetworkError, ForwardRaises, Read, RecordSuccess,
        RecordTransientError, MarkKeyQuotaExhausted, RecordFailover, UpsertSuccess,
        UpsertFailure, UpsertFailover, KeyMissing, Wake, StoreError, Cancel, Abandon, world
<1>2. ASSUME NEW k \in Keys, add_key(k) \/ remove_key(k) PROVE clock' = clock
  BY <1>2 DEF add_key, remove_key, Edit
<1> QED
  BY <1>1, <1>2 DEF Next, FinishEdit, EditFails, Restart, Tick, vars, world

\* A step that only drops rows, moves them and adds sound ones keeps them sound.
LEMMA SoundRowsKept ==
    ASSUME TypeOK, RowsConsistent, [Next]_vars, NEW s, Sound(s, clock'), s \in APIKeyState,
           Rows' \subseteq Rows \union {s}
    PROVE  RowsConsistent'
<1> SUFFICES ASSUME NEW w \in Rows' PROVE Sound(w, clock')
  BY DEF RowsConsistent, Sound
<1>1. CASE w = s
  BY <1>1
<1>2. CASE w \in Rows
  <2>1. Sound(w, clock)
    BY <1>2 DEF RowsConsistent, Sound
  <2>2. w \in APIKeyState
    BY <1>2 DEF Rows, TypeOK, PoolTyped, RequestsTyped, Optional
  <2> QED
    BY <2>1, <2>2, ClockForward, NoneAssumption DEF Sound, APIKeyState, Optional
<1> QED
  BY <1>1, <1>2

\* A fresh row is sound.
LEMMA FreshSound == ASSUME NEW now PROVE Sound(Fresh, now)
BY DEF Sound, Fresh, RowConsistent

LEMMA RowsInit == Init => RowsConsistent
<1> SUFFICES ASSUME Init, NEW w \in Rows PROVE Sound(w, clock)
  BY DEF RowsConsistent, Sound
<1>1. w = Fresh
  BY DEF Init, Initialized, NoRows, Rows
<1> QED
  BY <1>1, FreshSound

LEMMA RowsStep == TypeOK /\ RowsConsistent /\ [Next]_vars => RowsConsistent'
<1> SUFFICES ASSUME TypeOK, RowsConsistent, [Next]_vars PROVE RowsConsistent'
  OBVIOUS
<1>1. ASSUME Rows' \subseteq Rows \union {Fresh} PROVE RowsConsistent'
  BY <1>1, SoundRowsKept, FreshSound, FreshTyped
<1>2. ASSUME UNCHANGED <<store, row>> PROVE RowsConsistent'
  <2>1. Rows' = Rows
    BY <1>2 DEF Rows
  <2> QED
    BY <1>1, <2>1
<1>3. ASSUME NEW r \in Requests,
             Arrive(r) \/ AcquireLock(r) \/ ReadStates(r) \/ AcquireKey(r) \/ ListAgain(r)
               \/ NoHealthyKeys(r) \/ Forward(r) \/ Respond(r) \/ NetworkError(r)
               \/ ForwardRaises(r) \/ KeyMissing(r) \/ Wake(r)
      PROVE  RowsConsistent'
  BY <1>3, <1>2 DEF Arrive, AcquireLock, ReadStates, AcquireKey, ListAgain, NoHealthyKeys,
        Forward, Respond, NetworkError, ForwardRaises, KeyMissing, Wake, pool
<1>4. ASSUME NEW r \in Requests, NEW step \in Reading, NEW next, NEW s \in APIKeyState,
             Sound(s, clock), Read(r, step, next, s)
      PROVE  RowsConsistent'
  <2>1. store' = store /\ clock' = clock /\ row' = [row EXCEPT ![r] = s]
    BY <1>4 DEF Read, pool, world
  <2>2. Rows' \subseteq Rows \union {s}
    BY <2>1 DEF Rows, TypeOK, RequestsTyped
  <2>3. Sound(s, clock')
    BY <1>4, <2>1
  <2> QED
    BY <2>2, <2>3, SoundRowsKept
\* The row a request reads, and what it computes from it.
<1>5. ASSUME NEW r \in Requests, pc[r] \in Reading, store[key[r]] # None
      PROVE  /\ store[key[r]] \in APIKeyState
             /\ quota[r] \in Optional(Int) /\ clock \in Nat
             /\ Succeeded(store[key[r]], clock, quota[r]) \in APIKeyState
             /\ TransientError(store[key[r]], clock, reason[r]) \in APIKeyState
             /\ QuotaExhausted(store[key[r]], clock) \in APIKeyState
             /\ FailedOver(store[key[r]]) \in APIKeyState
             /\ Sound(Succeeded(store[key[r]], clock, quota[r]), clock)
             /\ Sound(TransientError(store[key[r]], clock, reason[r]), clock)
             /\ Sound(QuotaExhausted(store[key[r]], clock), clock)
             /\ Sound(FailedOver(store[key[r]]), clock)
  <2> DEFINE s == store[key[r]]
             q == quota[r]
             why == reason[r]
  <2>1. key[r] \in Keys
    BY <1>5 DEF TypeOK, RequestsTyped, HeldWhereUsed, Holding, Answering, Optional
  <2>2. s \in APIKeyState /\ q \in Optional(Int) /\ clock \in Nat
    BY <1>5, <2>1 DEF TypeOK, PoolTyped, RequestsTyped, WorldTyped, Optional
  <2>3. s \in Rows
    BY <1>5, <2>1 DEF Rows
  <2>4. RowConsistent(s) /\ (s.last_used_at # None => s.last_used_at <= clock)
    BY <2>3 DEF RowsConsistent
  <2> HIDE DEF s, q, why
  <2>5. /\ Succeeded(s, clock, q) \in APIKeyState
        /\ TransientError(s, clock, why) \in APIKeyState
        /\ QuotaExhausted(s, clock) \in APIKeyState
        /\ FailedOver(s) \in APIKeyState
    BY <2>2, RowsTyped
  <2>6. /\ RowConsistent(Succeeded(s, clock, q))
        /\ RowConsistent(TransientError(s, clock, why))
        /\ RowConsistent(QuotaExhausted(s, clock))
        /\ RowConsistent(FailedOver(s))
        /\ Succeeded(s, clock, q).last_used_at = clock
        /\ TransientError(s, clock, why).last_used_at = clock
        /\ QuotaExhausted(s, clock).last_used_at = clock
        /\ FailedOver(s).last_used_at = s.last_used_at
    BY <2>2, <2>4, RowsStayConsistent
  <2>7. /\ Sound(Succeeded(s, clock, q), clock)
        /\ Sound(TransientError(s, clock, why), clock)
        /\ Sound(QuotaExhausted(s, clock), clock)
        /\ Sound(FailedOver(s), clock)
    BY <2>2, <2>4, <2>6 DEF Sound
  <2> QED
    BY <2>2, <2>5, <2>7 DEF s, q, why
<1>6. ASSUME NEW r \in Requests, RecordSuccess(r) PROVE RowsConsistent'
  <2>1. /\ pc[r] \in Reading /\ store[key[r]] # None
        /\ Read(r, "read", "write", Succeeded(store[key[r]], clock, quota[r]))
    BY <1>6 DEF RecordSuccess, Read, Reading
  <2> QED
    BY <2>1, <1>4, <1>5 DEF Reading
<1>7. ASSUME NEW r \in Requests, RecordTransientError(r) PROVE RowsConsistent'
  <2>1. /\ pc[r] \in Reading /\ store[key[r]] # None
        /\ Read(r, "read", "write", TransientError(store[key[r]], clock, reason[r]))
    BY <1>7 DEF RecordTransientError, Read, Reading
  <2> QED
    BY <2>1, <1>4, <1>5 DEF Reading
<1>8. ASSUME NEW r \in Requests, MarkKeyQuotaExhausted(r) PROVE RowsConsistent'
  <2>1. /\ pc[r] \in Reading /\ store[key[r]] # None
        /\ Read(r, "read", "write", QuotaExhausted(store[key[r]], clock))
    BY <1>8 DEF MarkKeyQuotaExhausted, Read, Reading
  <2> QED
    BY <2>1, <1>4, <1>5 DEF Reading
<1>9. ASSUME NEW r \in Requests, RecordFailover(r) PROVE RowsConsistent'
  <2>1. /\ pc[r] \in Reading /\ store[key[r]] # None
        /\ Read(r, "read_failover", "write_failover", FailedOver(store[key[r]]))
    BY <1>9 DEF RecordFailover, Read, Reading
  <2> QED
    BY <2>1, <1>4, <1>5 DEF Reading
<1>10. ASSUME NEW r \in Requests, row' = [row EXCEPT ![r] = None],
              store' = store \/ store' = [store EXCEPT ![key[r]] = row[r]]
       PROVE  RowsConsistent'
  <2>1. Rows' \subseteq Rows
    BY <1>10 DEF Rows, TypeOK, PoolTyped, RequestsTyped
  <2> QED
    BY <1>1, <2>1
<1>11. ASSUME NEW r \in Requests, UpsertSuccess(r) \/ UpsertFailure(r) \/ UpsertFailover(r)
       PROVE  RowsConsistent'
  BY <1>11, <1>10 DEF UpsertSuccess, UpsertFailure, UpsertFailover, upsert_state
<1>12. ASSUME NEW r \in Requests, StoreError(r) \/ Cancel(r) PROVE RowsConsistent'
  BY <1>12, <1>10 DEF StoreError, Cancel, Abandon, MaybeWritten
<1>13. ASSUME (\E k \in Keys : add_key(k) \/ remove_key(k)) \/ EditFails PROVE RowsConsistent'
  BY <1>13, <1>2 DEF add_key, remove_key, Edit, EditFails, pool
<1>14. ASSUME FinishEdit PROVE RowsConsistent'
  <2>1. /\ row' = row
        /\ store' = [store EXCEPT ![admin.key] = IF admin.call = "add" THEN Fresh ELSE None]
    BY <1>14 DEF FinishEdit
  <2>2. Rows' \subseteq Rows \union {Fresh}
    BY <2>1 DEF Rows, TypeOK, PoolTyped
  <2> QED
    BY <1>1, <2>2
<1>15. ASSUME Restart PROVE RowsConsistent'
  <2>1. /\ row' = [r \in Requests |-> None]
        /\ store' = Initialized(IF Backend = "memory" THEN NoRows ELSE store)
    BY <1>15 DEF Restart
  <2>2. Rows' \subseteq Rows \union {Fresh}
    BY <2>1 DEF Rows, Initialized, NoRows
  <2> QED
    BY <1>1, <2>2
<1>16. ASSUME Tick \/ UNCHANGED vars PROVE RowsConsistent'
  BY <1>16, <1>2 DEF Tick, vars, pool
<1> QED
  BY <1>3, <1>6, <1>7, <1>8, <1>9, <1>11, <1>12, <1>13, <1>14, <1>15, <1>16 DEF Next, Serve

\* No interleaving, crash, failed write or edit of the pool tears a row.
THEOREM RowsNeverTorn == Spec => []RowsConsistent
<1>1. Init => TypeOK /\ RowsConsistent
  BY TypeInit, RowsInit
<1>2. TypeOK /\ RowsConsistent /\ [Next]_vars => (TypeOK /\ RowsConsistent)'
  BY TypeStep, RowsStep
<1> QED
  BY <1>1, <1>2, PTL DEF Spec

-----------------------------------------------------------------------------
(* The pool's lock.  LockAccounted is inductive with the types.            *)

LEMMA LockInit == Init => LockAccounted
BY NoneIsNothing DEF Init, LockAccounted, Listing

LEMMA LockStep == TypeOK /\ LockAccounted /\ [Next]_vars => LockAccounted'
<1> SUFFICES ASSUME TypeOK, LockAccounted, [Next]_vars PROVE LockAccounted'
  OBVIOUS
<1> USE NoneIsNothing
    DEF TypeOK, PoolTyped, RequestsTyped, LockAccounted, Listing, pool, Goto
<1>1. ASSUME NEW r \in Requests, AcquireLock(r) PROVE LockAccounted'
  BY <1>1 DEF AcquireLock
<1>2. ASSUME NEW r \in Requests, ReadStates(r) PROVE LockAccounted'
  BY <1>2 DEF ReadStates
<1>3. ASSUME NEW r \in Requests, AcquireKey(r) \/ NoHealthyKeys(r) PROVE LockAccounted'
  BY <1>3 DEF AcquireKey, NoHealthyKeys, Listed
<1>4. ASSUME NEW r \in Requests, ListAgain(r) PROVE LockAccounted'
  BY <1>4 DEF ListAgain, Listed
\* Away from the listing, a request neither holds the lock nor takes it.
<1>5. ASSUME NEW r \in Requests, NEW step \in Steps \ Listing, pc[r] \notin Listing,
             Goto(r, step), lock' = lock
      PROVE  LockAccounted'
  BY <1>5
<1>6. ASSUME NEW r \in Requests,
             Arrive(r) \/ Forward(r) \/ Respond(r) \/ NetworkError(r) \/ ForwardRaises(r)
      PROVE  LockAccounted'
  <2>1. PICK step \in {"acquire", "send", "read", "failed"} :
            Goto(r, step) /\ lock' = lock /\ pc[r] \notin Listing
    BY <1>6 DEF Arrive, Forward, Respond, NetworkError, ForwardRaises
  <2> QED
    BY <2>1, <1>5 DEF Steps, Pausing, Storing, Reading, Ended, Answered
<1>7. ASSUME NEW r \in Requests,
             RecordSuccess(r) \/ RecordTransientError(r) \/ MarkKeyQuotaExhausted(r)
               \/ RecordFailover(r) \/ KeyMissing(r) \/ Wake(r)
      PROVE  LockAccounted'
  <2>1. PICK step \in {"write", "write_failover", "failed", "acquire"} :
            Goto(r, step) /\ lock' = lock /\ pc[r] \notin Listing
    BY <1>7 DEF RecordSuccess, RecordTransientError, MarkKeyQuotaExhausted, RecordFailover,
                Read, KeyMissing, Reading, Wake
  <2> QED
    BY <2>1, <1>5 DEF Steps, Pausing, Storing, Writing, Ended, Answered
<1>8. ASSUME NEW r \in Requests, UpsertSuccess(r) \/ UpsertFailure(r) \/ UpsertFailover(r)
      PROVE  LockAccounted'
  <2>1. PICK step \in {"responded", "read_failover", "sleep", "bad_gateway", "relayed"} :
            Goto(r, step) /\ lock' = lock /\ pc[r] \notin Listing
    BY <1>8 DEF UpsertSuccess, UpsertFailure, UpsertFailover, upsert_state
  <2> QED
    BY <2>1, <1>5 DEF Steps, Pausing, Storing, Reading, Ended, Answered
<1>9. ASSUME NEW r \in Requests, StoreError(r) \/ Cancel(r) PROVE LockAccounted'
  <2>1. PICK end \in {"failed", "cancelled"} :
            Goto(r, end) /\ lock' = IF lock = r THEN None ELSE lock
    BY <1>9 DEF StoreError, Cancel, Abandon
  <2> QED
    BY <2>1
<1>10. ASSUME Restart PROVE LockAccounted'
  BY <1>10 DEF Restart, Ended, Answered
<1>11. ASSUME NEW k \in Keys, add_key(k) \/ remove_key(k) PROVE LockAccounted'
  BY <1>11 DEF add_key, remove_key, Edit
<1>12. ASSUME FinishEdit \/ EditFails \/ Tick \/ UNCHANGED vars PROVE LockAccounted'
  BY <1>12 DEF FinishEdit, EditFails, Tick, vars, pool
<1> QED
  BY <1>1, <1>2, <1>3, <1>4, <1>6, <1>7, <1>8, <1>9, <1>10, <1>11, <1>12 DEF Next, Serve

\* The lock is held by the one request that lists the keys (key_pool.py:47-57).
THEOREM LockReleased == Spec => []LockAccounted
<1>1. Init => TypeOK /\ LockAccounted
  BY TypeInit, LockInit
<1>2. TypeOK /\ LockAccounted /\ [Next]_vars => (TypeOK /\ LockAccounted)'
  BY TypeStep, LockStep
<1> QED
  BY <1>1, <1>2, PTL DEF Spec

-----------------------------------------------------------------------------
(* The retry loop.  RetryBudget and AttemptsAccounted become inductive     *)
(* together with where the two counts stand at every step of the loop.     *)

Trying  == {"acquire", "limit", "send", "read", "write"} \union Listing
Sending == {"limit", "send", "read", "write"}
Failing == {"read_failover", "write_failover", "sleep"}

LoopInvariant(r) ==
    /\ IsFiniteSet(excluded[r])
    /\ pc[r] = "idle" => excluded[r] = {}
    /\ pc[r] \in Trying => Cardinality(excluded[r]) = attempts[r] - 1
    /\ pc[r] \in Failing => Cardinality(excluded[r]) = attempts[r]
    /\ pc[r] \in Sending => key[r] \notin excluded[r]
    /\ attempts[r] > 1 => retryable[r] /\ attempts[r] <= RetryAttempts
    /\ pc[r] = "sleep" => should_retry(r)

RetryInvariant == \A r \in Requests : LoopInvariant(r)

LEMMA RetryInit == Init => RetryInvariant
<1> SUFFICES ASSUME Init, NEW r \in Requests PROVE LoopInvariant(r)
  BY DEF RetryInvariant
<1>1. IsFiniteSet(excluded[r])
  BY FS_EmptySet DEF Init
<1> QED
  BY <1>1 DEF Init, LoopInvariant, Trying, Listing, Sending, Failing

\* A request is not disturbed by what leaves its part of the state alone.
LEMMA LoopUndisturbed ==
    ASSUME NEW q, LoopInvariant(q),
           pc'[q] = pc[q], key'[q] = key[q], attempts'[q] = attempts[q],
           retryable'[q] = retryable[q], excluded'[q] = excluded[q]
    PROVE  LoopInvariant(q)'
BY DEF LoopInvariant, should_retry

\* Nor by ending.
LEMMA LoopEnds ==
    ASSUME NEW q, LoopInvariant(q), pc'[q] \in Ended, attempts'[q] = attempts[q],
           retryable'[q] = retryable[q], excluded'[q] = excluded[q]
    PROVE  LoopInvariant(q)'
BY DEF LoopInvariant, Ended, Answered, Trying, Listing, Sending, Failing

\* A step of r leaves what the loop has for other requests alone.
LEMMA OthersUndisturbed ==
    ASSUME TypeOK, NEW r \in Requests, NEW q \in Requests \ {r},
           Arrive(r) \/ Serve(r) \/ StoreError(r) \/ Cancel(r)
    PROVE  /\ pc'[q] = pc[q] /\ key'[q] = key[q] /\ attempts'[q] = attempts[q]
           /\ retryable'[q] = retryable[q] /\ excluded'[q] = excluded[q]
           /\ reason'[q] = reason[q]
<1> USE DEF TypeOK, RequestsTyped, Goto, Forget, loop, answer
<1>1. CASE Arrive(r) \/ AcquireLock(r) \/ ReadStates(r) \/ AcquireKey(r) \/ ListAgain(r)
             \/ NoHealthyKeys(r)
  BY <1>1 DEF Arrive, AcquireLock, ReadStates, AcquireKey, ListAgain, NoHealthyKeys
<1>2. CASE Forward(r) \/ Respond(r) \/ NetworkError(r) \/ ForwardRaises(r)
  BY <1>2 DEF Forward, Respond, NetworkError, ForwardRaises
<1>3. CASE RecordSuccess(r) \/ RecordTransientError(r) \/ MarkKeyQuotaExhausted(r)
             \/ RecordFailover(r) \/ KeyMissing(r)
  BY <1>3 DEF RecordSuccess, RecordTransientError, MarkKeyQuotaExhausted, RecordFailover,
              Read, KeyMissing
<1>4. CASE UpsertSuccess(r) \/ UpsertFailure(r) \/ UpsertFailover(r) \/ Wake(r)
  BY <1>4 DEF UpsertSuccess, UpsertFailure, UpsertFailover, Wake
<1>5. CASE StoreError(r) \/ Cancel(r)
  BY <1>5 DEF StoreError, Cancel, Abandon
<1> QED
  BY <1>1, <1>2, <1>3, <1>4, <1>5 DEF Serve

LEMMA RetryOwnStep ==
    ASSUME TypeOK, NEW r \in Requests, LoopInvariant(r),
           Arrive(r) \/ Serve(r) \/ StoreError(r) \/ Cancel(r)
    PROVE  LoopInvariant(r)'
<1> USE DEF TypeOK, RequestsTyped, Goto, loop
<1>1. CASE Arrive(r)
  <2>1. /\ pc'[r] = "acquire" /\ attempts'[r] = 1
        /\ excluded'[r] = {} /\ Cardinality(excluded'[r]) = 0
    BY <1>1, FS_EmptySet DEF Arrive, LoopInvariant
  <2> QED
    BY <2>1, FS_EmptySet DEF LoopInvariant, Trying, Listing, Sending, Failing
\* The steps from one place where the request is trying to another.
<1>2. ASSUME pc[r] \in Trying, pc'[r] \in Trying,
             pc'[r] \in Sending => key'[r] \notin excluded[r],
             UNCHANGED loop
      PROVE  LoopInvariant(r)'
  BY <1>2 DEF LoopInvariant, Trying, Listing, Sending, Failing
<1>3. CASE AcquireLock(r) \/ ReadStates(r) \/ ListAgain(r)
  BY <1>3, <1>2 DEF AcquireLock, ReadStates, ListAgain, Listed, Trying, Listing, Sending
<1>4. CASE AcquireKey(r)
  <2>1. PICK k \in choose(Candidates(r), definitions, Seen(r), rr_index, clock) :
            key' = [key EXCEPT ![r] = k]
    BY <1>4 DEF AcquireKey
  <2>2. k \in Candidates(r)
    BY ONLY <2>1, ChoiceIsCandidate
  <2>3. key'[r] \notin excluded[r]
    BY <2>1, <2>2 DEF Candidates
  <2> QED
    BY <1>4, <2>3, <1>2 DEF AcquireKey, Listed, Trying, Listing
<1>5. CASE Forward(r) \/ NetworkError(r)
  <2>1. pc[r] \in Sending /\ pc'[r] \in Sending /\ key'[r] = key[r] /\ UNCHANGED loop
    BY <1>5 DEF Forward, NetworkError, Sending
  <2> QED
    BY <2>1, <1>2 DEF LoopInvariant, Trying, Sending
<1>6. CASE Respond(r)
  <2>1. /\ pc[r] = "send" /\ UNCHANGED loop
        /\ pc'[r] = "failed" \/ (pc'[r] = "read" /\ key'[r] = key[r])
    BY <1>6 DEF Respond, Forget
  <2>2. CASE pc'[r] = "failed"
    BY <2>1, <2>2, LoopEnds DEF Ended, Answered
  <2>3. CASE pc'[r] = "read" /\ key'[r] = key[r]
    BY <2>1, <2>3, <1>2 DEF LoopInvariant, Trying, Sending
  <2> QED
    BY <2>1, <2>2, <2>3
<1>7. CASE RecordSuccess(r) \/ RecordTransientError(r) \/ MarkKeyQuotaExhausted(r)
  <2>1. pc[r] = "read" /\ pc'[r] = "write" /\ key'[r] = key[r] /\ UNCHANGED loop
    BY <1>7 DEF RecordSuccess, RecordTransientError, MarkKeyQuotaExhausted, Read
  <2> QED
    BY <2>1, <1>2 DEF LoopInvariant, Trying, Sending
<1>8. CASE UpsertFailure(r)
  <2>1. /\ pc[r] = "write" /\ pc'[r] = "read_failover"
        /\ attempts' = attempts /\ retryable' = retryable
        /\ excluded'[r] = excluded[r] \union {key[r]}
    BY <1>8 DEF UpsertFailure
  <2>2. /\ IsFiniteSet(excluded[r]) /\ key[r] \notin excluded[r]
        /\ Cardinality(excluded[r]) = attempts[r] - 1
    BY <2>1 DEF LoopInvariant, Trying, Sending
  <2>3. /\ IsFiniteSet(excluded[r] \union {key[r]})
        /\ Cardinality(excluded[r] \union {key[r]}) = Cardinality(excluded[r]) + 1
    BY ONLY <2>2, FS_AddElement
  <2>4. attempts[r] \in Nat /\ Cardinality(excluded'[r]) = attempts'[r]
    BY <2>1, <2>2, <2>3
  <2> QED
    BY <2>1, <2>3, <2>4 DEF LoopInvariant, Trying, Listing, Sending, Failing
<1>9. CASE RecordFailover(r)
  <2>1. pc[r] = "read_failover" /\ pc'[r] = "write_failover" /\ UNCHANGED loop
    BY <1>9 DEF RecordFailover, Read
  <2> QED
    BY <2>1 DEF LoopInvariant, Trying, Listing, Sending, Failing
<1>10. CASE UpsertFailover(r)
  <2>1. /\ pc[r] = "write_failover" /\ UNCHANGED loop
        /\ (pc'[r] = "sleep" /\ should_retry(r)) \/ pc'[r] \in Ended
    BY <1>10 DEF UpsertFailover, Ended, Answered
  <2>2. CASE pc'[r] = "sleep" /\ should_retry(r)
    BY <2>1, <2>2 DEF LoopInvariant, Trying, Listing, Sending, Failing, should_retry
  <2>3. CASE pc'[r] \in Ended
    BY <2>1, <2>3, LoopEnds
  <2> QED
    BY <2>1, <2>2, <2>3
<1>11. CASE Wake(r)
  <2>1. /\ pc[r] = "sleep" /\ pc'[r] = "acquire"
        /\ attempts'[r] = attempts[r] + 1
        /\ retryable' = retryable /\ excluded' = excluded
    BY <1>11 DEF Wake
  <2>2. /\ Cardinality(excluded[r]) = attempts[r] /\ attempts[r] \in Nat
        /\ retryable[r] /\ attempts[r] < RetryAttempts
    BY <2>1 DEF LoopInvariant, Failing, should_retry
  <2> QED
    BY <2>1, <2>2, EngineAssumption
    DEF LoopInvariant, Trying, Listing, Sending, Failing
<1>12. CASE NoHealthyKeys(r) \/ ForwardRaises(r) \/ KeyMissing(r) \/ UpsertSuccess(r)
              \/ StoreError(r) \/ Cancel(r)
  <2>1. pc'[r] \in Ended /\ UNCHANGED loop
    BY <1>12 DEF NoHealthyKeys, ForwardRaises, KeyMissing, UpsertSuccess, StoreError, Cancel,
                 Abandon, Ended, Answered
  <2> QED
    BY <2>1, LoopEnds
<1> QED
  BY <1>1, <1>3, <1>4, <1>5, <1>6, <1>7, <1>8, <1>9, <1>10, <1>11, <1>12 DEF Serve

LEMMA RetryStep == TypeOK /\ RetryInvariant /\ [Next]_vars => RetryInvariant'
<1> SUFFICES ASSUME TypeOK, RetryInvariant, [Next]_vars, NEW q \in Requests
             PROVE  LoopInvariant(q)'
  BY DEF RetryInvariant
<1>1. LoopInvariant(q)
  BY DEF RetryInvariant
<1>2. ASSUME NEW r \in Requests, Arrive(r) \/ Serve(r) \/ StoreError(r) \/ Cancel(r)
      PROVE  LoopInvariant(q)'
  <2>1. CASE q = r
    BY <1>1, <1>2, <2>1, RetryOwnStep
  <2>2. CASE q # r
    BY <1>1, <1>2, <2>2, OthersUndisturbed, LoopUndisturbed
  <2> QED
    BY <2>1, <2>2
<1>3. ASSUME Restart PROVE LoopInvariant(q)'
  <2>1. /\ UNCHANGED loop
        /\ pc'[q] = IF pc[q] \in {"idle"} \union Ended THEN pc[q] ELSE "lost"
    BY <1>3 DEF Restart
  <2>2. CASE pc[q] = "idle"
    BY <1>1, <2>1, <2>2 DEF loop, LoopInvariant, Trying, Listing, Sending, Failing
  <2>3. CASE pc[q] # "idle"
    BY <1>1, <2>1, <2>3, LoopEnds DEF loop, Ended
  <2> QED
    BY <2>2, <2>3
<1>4. ASSUME NEW k \in Keys, add_key(k) \/ remove_key(k) PROVE LoopInvariant(q)'
  BY <1>1, <1>4, LoopUndisturbed DEF add_key, remove_key, Edit, loop
<1>5. ASSUME FinishEdit \/ EditFails \/ Tick \/ UNCHANGED vars PROVE LoopInvariant(q)'
  BY <1>1, <1>5, LoopUndisturbed DEF FinishEdit, EditFails, Tick, vars, loop
<1> QED
  BY <1>2, <1>3, <1>4, <1>5 DEF Next

LEMMA RetryInvariantHolds == Spec => []RetryInvariant
<1>1. Init => TypeOK /\ RetryInvariant
  BY TypeInit, RetryInit
<1>2. TypeOK /\ RetryInvariant /\ [Next]_vars => (TypeOK /\ RetryInvariant)'
  BY TypeStep, RetryStep
<1> QED
  BY <1>1, <1>2, PTL DEF Spec

\* No request is sent more often than its method and retry_attempts allow
\* (retry/policy.py:28-31, app.py:87-141).
THEOREM RetriesBounded == Spec => []RetryBudget
<1>1. RetryInvariant => RetryBudget
  BY DEF RetryInvariant, LoopInvariant, RetryBudget
<1> QED
  BY <1>1, RetryInvariantHolds, PTL

\* No request is sent twice with one key, and its attempts are the keys it has
\* failed with and, while it tries, one more (app.py:87-139).
THEOREM KeysNeverReused == Spec => []AttemptsAccounted
<1>1. RetryInvariant => AttemptsAccounted
  BY DEF RetryInvariant, LoopInvariant, AttemptsAccounted, Trying, Listing, Sending, Failing
<1> QED
  BY <1>1, RetryInvariantHolds, PTL

-----------------------------------------------------------------------------
(* The contract with the callers, RequestContract.  Its variables are the  *)
(* retryable of the engine, its excluded for failed, and these two.        *)

Phases  == [r \in Requests |-> Phase(r)]
With(r) == IF Phase(r) \in {"out", "accepted"} THEN key[r] ELSE None
Withs   == [r \in Requests |-> With(r)]

\* The engine starts where the contract does.
LEMMA ContractInit == Init => Contract!Init
<1> SUFFICES ASSUME Init PROVE Contract!Init
  OBVIOUS
<1>1. \A r \in Requests : Phase(r) = "waiting"
  BY DEF Init, Phase, Ended, Answered
<1> QED
  BY <1>1 DEF Init, Contract!Init

\* What a step of r does to the phases.
LEMMA OwnPhase ==
    ASSUME TypeOK, NEW r \in Requests,
           Arrive(r) \/ Serve(r) \/ StoreError(r) \/ Cancel(r)
    PROVE  /\ Phases' = [Phases EXCEPT ![r] = Phase(r)']
           /\ Withs' = [Withs EXCEPT ![r] = With(r)']
<1>1. ASSUME NEW q \in Requests \ {r}
      PROVE  Phase(q)' = Phase(q) /\ With(q)' = With(q)
  BY <1>1, OthersUndisturbed DEF Phase, With
<1> QED
  BY <1>1 DEF Phases, Withs

\* A step that leaves r where it was for the contract is a stutter.
LEMMA ContractStutters ==
    ASSUME TypeOK, NEW r \in Requests,
           Arrive(r) \/ Serve(r) \/ StoreError(r) \/ Cancel(r),
           Phase(r)' = Phase(r), With(r)' = With(r),
           retryable' = retryable, excluded' = excluded
    PROVE  UNCHANGED Contract!vars
<1>1. Phases' = Phases /\ Withs' = Withs
  BY OwnPhase DEF Phases, Withs
<1> QED
  BY <1>1 DEF Contract!vars, Phases, Withs, With

\* One that ends r is an End of it alone.
LEMMA ContractEnds ==
    ASSUME TypeOK, NEW r \in Requests,
           Arrive(r) \/ Serve(r) \/ StoreError(r) \/ Cancel(r),
           pc'[r] \in Ended, retryable' = retryable, excluded' = excluded
    PROVE  Contract!End({r})
<1>1. Phase(r)' = "ended" /\ With(r)' = None
  BY DEF Phase, With, Ended, Answered
<1>2. /\ Phases' = [q \in Requests |-> IF q \in {r} THEN "ended" ELSE Phases[q]]
      /\ Withs' = [q \in Requests |-> IF q \in {r} THEN None ELSE Withs[q]]
  BY <1>1, OwnPhase DEF Phases, Withs
<1> QED
  BY <1>2 DEF Contract!End, Phases, Withs, With

\* The contract counts as the engine does.
LEMMA ContractCounts == \A S : Contract!Cardinality(S) = Cardinality(S)
BY DEF Contract!Cardinality, Cardinality

\* A key is sent out only within the budget.
LEMMA ContractSend ==
    ASSUME TypeOK, RetryInvariant, NEW r \in Requests, Forward(r)
    PROVE  Contract!Send(r)
<1> DEFINE tried == Cardinality(excluded[r])
<1>1. /\ pc[r] = "limit" /\ pc' = [pc EXCEPT ![r] = "send"]
      /\ key' = key /\ excluded' = excluded /\ retryable' = retryable
  BY DEF Forward, Goto, loop
<1>2. /\ IsFiniteSet(excluded[r]) /\ tried = attempts[r] - 1
      /\ key[r] \notin excluded[r]
      /\ attempts[r] > 1 => retryable[r] /\ attempts[r] <= RetryAttempts
  BY <1>1 DEF RetryInvariant, LoopInvariant, Trying, Sending
<1>3. attempts[r] \in Nat /\ key[r] \in Keys
  BY <1>1 DEF TypeOK, RequestsTyped, HeldWhereUsed, Holding, Optional
<1>4. excluded[r] = {} \/ (retryable[r] /\ tried < RetryAttempts)
  <2>1. CASE tried = 0
    BY <1>2, <2>1, FS_EmptySet
  <2>2. CASE tried # 0
    <3>1. tried \in Nat
      BY <1>2, FS_CardinalityType
    <3>2. attempts[r] > 1
      BY <1>2, <1>3, <2>2, <3>1
    <3> QED
      BY <1>2, <1>3, <3>1, <3>2, EngineAssumption
  <2> QED
    BY <2>1, <2>2
<1>5. Phase(r) = "waiting" /\ Phase(r)' = "out" /\ With(r)' = key[r]
  BY <1>1 DEF Phase, With, TypeOK, RequestsTyped, Ended, Answered
<1>6. /\ Phases' = [Phases EXCEPT ![r] = "out"]
      /\ Withs' = [Withs EXCEPT ![r] = key[r]]
  BY <1>5, OwnPhase DEF Serve
<1> QED
  BY <1>1, <1>2, <1>3, <1>4, <1>5, <1>6, ContractCounts
  DEF Contract!Send, Contract!MayRetry, Phases, Withs, With

\* Every step of the engine is one of the contract, or none.
LEMMA ContractStep ==
    ASSUME TypeOK, RetryInvariant, [Next]_vars
    PROVE  [Contract!Next]_Contract!vars
<1> USE DEF TypeOK, RequestsTyped, HeldWhereUsed, Goto, Forget, loop
<1>1. ASSUME NEW r \in Requests,
             Arrive(r) \/ Serve(r) \/ StoreError(r) \/ Cancel(r),
             Phase(r) = "waiting", Phase(r)' = "waiting",
             retryable' = retryable, excluded' = excluded
      PROVE  UNCHANGED Contract!vars
  BY <1>1, ContractStutters DEF With
<1>2. ASSUME NEW r \in Requests,
             Arrive(r) \/ AcquireLock(r) \/ ReadStates(r) \/ AcquireKey(r) \/ ListAgain(r)
               \/ RecordFailover(r) \/ Wake(r)
      PROVE  UNCHANGED Contract!vars
  <2>1. /\ pc[r] \in {"idle", "acquire", "list", "relist", "read_failover", "sleep"}
        /\ pc'[r] \in {"acquire", "list", "relist", "limit", "write_failover"}
        /\ retryable' = retryable /\ excluded' = excluded
    BY <1>2 DEF Arrive, AcquireLock, ReadStates, AcquireKey, ListAgain, Listed, Listing,
                RecordFailover, Read, Wake
  <2>2. Phase(r) = "waiting" /\ Phase(r)' = "waiting"
    BY <2>1 DEF Phase, Ended, Answered
  <2> QED
    BY <1>1, <1>2, <2>1, <2>2 DEF Serve
<1>3. ASSUME NEW r \in Requests, Forward(r) PROVE Contract!Next
  BY <1>3, ContractSend DEF Contract!Next
<1>4. ASSUME NEW r \in Requests,
             NoHealthyKeys(r) \/ ForwardRaises(r) \/ KeyMissing(r) \/ UpsertSuccess(r)
               \/ StoreError(r) \/ Cancel(r)
      PROVE  Contract!Next
  <2>1. pc'[r] \in Ended /\ retryable' = retryable /\ excluded' = excluded
    BY <1>4 DEF NoHealthyKeys, ForwardRaises, KeyMissing, UpsertSuccess, StoreError, Cancel,
                Abandon, Ended, Answered
  <2> QED
    BY <1>4, <2>1, ContractEnds DEF Serve, Contract!Next
<1>5. ASSUME NEW r \in Requests,
             RecordSuccess(r) \/ RecordTransientError(r) \/ MarkKeyQuotaExhausted(r)
      PROVE  UNCHANGED Contract!vars
  <2>1. /\ pc[r] = "read" /\ pc'[r] = "write" /\ key' = key /\ reason' = reason
        /\ retryable' = retryable /\ excluded' = excluded
    BY <1>5 DEF RecordSuccess, RecordTransientError, MarkKeyQuotaExhausted, Read, answer
  <2>2. Phase(r)' = Phase(r) /\ With(r)' = With(r)
    BY <2>1 DEF Phase, With, Ended, Answered
  <2> QED
    BY <1>5, <2>1, <2>2, ContractStutters DEF Serve
<1>6. ASSUME NEW r \in Requests, NetworkError(r) PROVE UNCHANGED Contract!vars
  <2>1. /\ pc[r] = "send" /\ pc'[r] = "read" /\ key' = key /\ reason'[r] = "network_error"
        /\ retryable' = retryable /\ excluded' = excluded
    BY <1>6 DEF NetworkError
  <2>2. Phase(r)' = Phase(r) /\ With(r)' = With(r)
    BY <2>1 DEF Phase, With, Ended, Answered
  <2> QED
    BY <1>6, <2>1, <2>2, ContractStutters DEF Serve
<1>7. ASSUME NEW r \in Requests, Respond(r) PROVE [Contract!Next]_Contract!vars
  <2>1. /\ pc[r] = "send" /\ retryable' = retryable /\ excluded' = excluded
        /\ pc'[r] = "failed" \/ (pc'[r] = "read" /\ key' = key)
    BY <1>7 DEF Respond
  <2>2. CASE pc'[r] = "failed"
    BY <1>7, <2>1, <2>2, ContractEnds DEF Serve, Contract!Next, Ended, Answered
  <2>3. CASE pc'[r] = "read" /\ key' = key /\ reason'[r] = "ok"
    <3>1. /\ Phase(r) = "out" /\ Phase(r)' = "accepted" /\ With(r)' = With(r)
      BY <2>1, <2>3 DEF Phase, With, Ended, Answered
    <3>2. Phases' = [Phases EXCEPT ![r] = "accepted"] /\ Withs' = Withs
      BY <1>7, <3>1, OwnPhase DEF Serve, Withs
    <3>3. Contract!Accept(r)
      BY <2>1, <3>1, <3>2 DEF Contract!Accept, Phases, Withs, With
    <3> QED
      BY <3>3 DEF Contract!Next
  <2>4. CASE pc'[r] = "read" /\ key' = key /\ reason'[r] # "ok"
    <3>1. Phase(r)' = Phase(r) /\ With(r)' = With(r)
      BY <2>1, <2>4 DEF Phase, With, Ended, Answered
    <3> QED
      BY <1>7, <2>1, <3>1, ContractStutters DEF Serve
  <2> QED
    BY <2>1, <2>2, <2>3, <2>4
<1>8. ASSUME NEW r \in Requests, UpsertFailure(r) PROVE Contract!Next
  <2>1. /\ pc[r] = "write" /\ reason[r] # "ok" /\ pc'[r] = "read_failover"
        /\ retryable' = retryable
        /\ excluded' = [excluded EXCEPT ![r] = @ \union {key[r]}]
    BY <1>8 DEF UpsertFailure
  <2>2. /\ Phase(r) = "out" /\ With(r) = key[r]
        /\ Phase(r)' = "waiting" /\ With(r)' = None
    BY <2>1 DEF Phase, With, Ended, Answered
  <2>3. /\ Phases' = [Phases EXCEPT ![r] = "waiting"]
        /\ Withs' = [Withs EXCEPT ![r] = None]
    BY <1>8, <2>2, OwnPhase DEF Serve
  <2>4. Contract!Fail(r)
    BY <2>1, <2>2, <2>3 DEF Contract!Fail, Phases, Withs, With
  <2> QED
    BY <2>4 DEF Contract!Next
<1>9. ASSUME NEW r \in Requests, UpsertFailover(r) PROVE [Contract!Next]_Contract!vars
  <2>1. /\ pc[r] = "write_failover" /\ retryable' = retryable /\ excluded' = excluded
        /\ pc'[r] = "sleep" \/ pc'[r] \in Ended
    BY <1>9 DEF UpsertFailover, Ended, Answered
  <2>2. CASE pc'[r] = "sleep"
    <3>1. Phase(r) = "waiting" /\ Phase(r)' = "waiting"
      BY <2>1, <2>2 DEF Phase, Ended, Answered
    <3> QED
      BY <1>1, <1>9, <2>1, <3>1 DEF Serve
  <2>3. CASE pc'[r] \in Ended
    <3>1. Contract!End({r})
      BY <1>9, <2>1, <2>3, ContractEnds DEF Serve
    <3> QED
      BY <3>1 DEF Contract!Next
  <2> QED
    BY <2>1, <2>2, <2>3
\* A crash ends every request that had begun.
<1>10. ASSUME Restart PROVE Contract!Next
  <2> PICK S \in SUBSET Requests : S = {r \in Requests : pc[r] # "idle"}
    OBVIOUS
  <2>1. /\ retryable' = retryable /\ excluded' = excluded
        /\ pc' = [r \in Requests |-> IF pc[r] \in {"idle"} \union Ended THEN pc[r] ELSE "lost"]
    BY <1>10 DEF Restart
  <2>2. \A r \in Requests :
          /\ Phase(r)' = IF r \in S THEN "ended" ELSE Phase(r)
          /\ With(r)' = IF r \in S THEN None ELSE With(r)
    BY <2>1 DEF Phase, With, Ended, Answered
  <2>3. Contract!End(S)
    BY <2>1, <2>2 DEF Contract!End, With
  <2> QED
    BY <2>3 DEF Contract!Next
<1>11. ASSUME (\E k \in Keys : add_key(k) \/ remove_key(k)) \/ FinishEdit \/ EditFails \/ Tick
                \/ UNCHANGED vars
       PROVE  UNCHANGED Contract!vars
  <2>1. pc' = pc /\ key' = key /\ reason' = reason /\ retryable' = retryable
          /\ excluded' = excluded
    BY <1>11 DEF add_key, remove_key, Edit, FinishEdit, EditFails, Tick, vars, answer
  <2>2. \A r \in Requests : Phase(r)' = Phase(r)
    BY <2>1 DEF Phase
  <2> QED
    BY <2>1, <2>2 DEF Contract!vars
<1> QED
  BY <1>2, <1>3, <1>4, <1>5, <1>6, <1>7, <1>8, <1>9, <1>10, <1>11 DEF Next, Serve

\* The engine makes the upstream calls RequestContract allows and no others, on any
\* backend and however its bookkeeping ends (app.py:87-150).
THEOREM ContractKept == Spec => ImplementsContract
<1>1. Init => TypeOK /\ RetryInvariant /\ Contract!Init
  BY TypeInit, RetryInit, ContractInit
<1>2. TypeOK /\ RetryInvariant /\ [Next]_vars => (TypeOK /\ RetryInvariant)'
  BY TypeStep, RetryStep
<1>3. TypeOK /\ RetryInvariant /\ [Next]_vars => [Contract!Next]_Contract!vars
  BY ContractStep
<1> QED
  BY <1>1, <1>2, <1>3, PTL DEF Spec, ImplementsContract, Contract!Spec
=============================================================================
