-------------------------- MODULE NodeClientProofs ---------------------------
(***************************************************************************)
(* Proofs about the embedded client for Node, for any requests, keys,      *)
(* retry budget, window and rate.                                          *)
(***************************************************************************)
EXTENDS NodeClient, SharedLemmas, FiniteSetTheorems

-----------------------------------------------------------------------------
(* The limiter's list, in terms of what has expired                        *)

\* The filter leaves the ages within the window.
LEMMA RecentDrops ==
    ASSUME NEW ts, Aged(Window, ts), NEW n, Expired(Window, ts, n)
    PROVE  Recent(ts) = Rest(ts, n)
<1> DEFINE N == Len(ts)
           Step(f, i) == IF i = 0 THEN <<>>
                         ELSE IF ts[i] > Window THEN f[i - 1] ELSE Append(f[i - 1], ts[i])
           Upto(f, m) == f = [i \in 0 .. m |-> Step(f, i)]
<1>1. /\ N \in Nat /\ n \in 0 .. N /\ ts \in Seq(Ages(Window))
      /\ \A i \in 1 .. N : ts[i] > Window <=> i <= n
  BY DEF Aged, Expired
<1>2. \E f : Upto(f, N)
  <2> DEFINE D == {i \in 1 .. N : ts[i] > Window}
  <2>1. PICK f : Filtering(ts, D, N, f)
    <3> HIDE DEF D, N
    <3> QED
      BY <1>1, FilteringExists
  <2>2. ASSUME NEW i \in 0 .. N PROVE f[i] = Step(f, i)
    <3>1. f[i] = IF i = 0 THEN <<>>
                 ELSE IF i \in D THEN f[i - 1] ELSE Append(f[i - 1], ts[i])
      BY <2>1 DEF Filtering
    <3>2. i # 0 => (i \in D <=> ts[i] > Window)
      BY <1>1
    <3> QED
      BY <3>1, <3>2
  <2>3. f = [i \in 0 .. N |-> f[i]]
    BY <2>1 DEF Filtering
  <2> HIDE DEF Step
  <2> QED
    BY <2>2, <2>3
<1>3. PICK kept : Upto(kept, N) /\ Recent(ts) = kept[N]
  BY <1>2 DEF Recent
<1>4. \A i \in 0 .. N : kept[i] = Step(kept, i)
  BY <1>3
<1> HIDE DEF N
<1> DEFINE T == {i \in 0 .. N : kept[i] = IF i <= n THEN <<>> ELSE SubSeq(ts, n + 1, i)}
<1>5. 0 \in T
  BY <1>1, <1>4
<1>6. ASSUME NEW i \in 1 .. N, i - 1 \in T PROVE i \in T
  <2>1. i \in 0 .. N /\ i # 0 /\ kept[i] = Step(kept, i)
    BY <1>1, <1>4, <1>6
  <2>2. kept[i - 1] = IF i - 1 <= n THEN <<>> ELSE SubSeq(ts, n + 1, i - 1)
    BY <1>6
  <2>3. CASE i <= n
    BY <1>1, <2>1, <2>2, <2>3
  <2>4. CASE i > n
    <3>1. ~ (ts[i] > Window)
      BY <1>1, <2>4
    <3>2. kept[i] = Append(kept[i - 1], ts[i])
      BY <2>1, <3>1
    <3>3. SubSeq(ts, n + 1, i) = SubSeq(ts, n + 1, i - 1) \o <<ts[i]>>
      <4>1. n + 1 \in 1 .. Len(ts) /\ i \in n + 1 .. Len(ts)
        BY <1>1, <2>4 DEF N
      <4> QED
        BY <1>1, <4>1, SubSeqRecursiveSecond
    <3>4. SubSeq(ts, n + 1, i - 1) \in Seq(Ages(Window))
      <4>1. \A j \in n + 1 .. i - 1 : ts[j] \in Ages(Window)
        BY <1>1 DEF N
      <4>2. n + 1 \in Int /\ i - 1 \in Int
        BY <1>1
      <4> QED
        BY <4>1, <4>2, SubSeqProperties
    <3>5. ts[i] \in Ages(Window)
      BY <1>1 DEF N
    <3>6. kept[i - 1] = SubSeq(ts, n + 1, i - 1)
      <4>1. CASE i - 1 <= n
        <5>1. i - 1 < n + 1 /\ n + 1 \in Int /\ i - 1 \in Int
          BY <1>1, <4>1
        <5> QED
          BY <2>2, <4>1, <5>1, SubSeqEmpty
      <4>2. CASE ~ (i - 1 <= n)
        BY <2>2, <4>2
      <4> QED
        BY <4>1, <4>2
    <3>7. Append(SubSeq(ts, n + 1, i - 1), ts[i]) = SubSeq(ts, n + 1, i - 1) \o <<ts[i]>>
      BY <3>4, <3>5, AppendIsConcat
    <3>8. kept[i] = SubSeq(ts, n + 1, i)
      BY <3>2, <3>3, <3>6, <3>7
    <3>9. ~ (i <= n)
      BY <1>1, <2>4
    <3> QED
      BY <2>1, <3>8, <3>9
  <2> QED
    BY <1>1, <2>3, <2>4
<1>7. kept[N] = IF N <= n THEN <<>> ELSE SubSeq(ts, n + 1, N)
  <2>1. 0 .. N \subseteq T
    <3> HIDE DEF T
    <3> QED
      BY <1>1, <1>5, <1>6, Climb
  <2> QED
    BY <1>1, <2>1
<1>8. CASE N <= n
  <2>1. N < n + 1 /\ n + 1 \in Int /\ N \in Int
    BY <1>1, <1>8
  <2> QED
    BY <1>3, <1>7, <1>8, <2>1, SubSeqEmpty DEF Rest, N
<1>9. CASE ~ (N <= n)
  BY <1>3, <1>7, <1>9 DEF Rest, N
<1> QED
  BY <1>8, <1>9

LEMMA RecentIs ==
    ASSUME NEW ts, Aged(Window, ts)
    PROVE  /\ Aged(Window, Recent(ts)) /\ Len(Recent(ts)) \in Nat
           /\ \A i \in 1 .. Len(Recent(ts)) : Recent(ts)[i] \in 0 .. Window
           /\ Recent(Recent(ts)) = Recent(ts)
<1> USE ClientAssumption
<1>1. PICK n : Expired(Window, ts, n)
  BY ExpiredExists
<1> DEFINE p == Recent(ts)
<1>2. /\ Aged(Window, p) /\ Len(p) = Len(ts) - n
      /\ \A i \in 1 .. Len(ts) - n : p[i] <= Window
  BY <1>1, RecentDrops, RestIs
<1> HIDE DEF p
<1>3. \A i \in 1 .. Len(p) : p[i] \in 0 .. Window + 1 /\ p[i] <= Window
  BY <1>2 DEF Aged, Ages
<1>4. Expired(Window, p, 0) /\ Rest(p, 0) = p
  BY <1>2, <1>3, RestOfYoung
<1>5. Recent(p) = p
  BY <1>2, <1>4, RecentDrops
<1>6. Len(p) \in Nat
  BY <1>2 DEF Aged
<1>7. \A i \in 1 .. Len(p) : p[i] \in 0 .. Window
  BY <1>3
<1> QED
  BY <1>2, <1>5, <1>6, <1>7 DEF p

\* So does what is pushed onto it.
LEMMA PushedRecent ==
    ASSUME NEW ts, Aged(Window, ts)
    PROVE  /\ Aged(Window, Append(Recent(ts), 0))
           /\ Recent(Append(Recent(ts), 0)) = Append(Recent(ts), 0)
<1> USE ClientAssumption
<1> DEFINE p == Recent(ts)
           q == Append(p, 0)
<1>1. /\ Aged(Window, p) /\ Len(p) \in Nat
      /\ \A i \in 1 .. Len(p) : p[i] \in 0 .. Window
  BY RecentIs
<1> HIDE DEF p
<1>2. /\ Aged(Window, q) /\ Len(q) = Len(p) + 1
      /\ \A i \in 1 .. Len(p) : q[i] = p[i]
      /\ q[Len(p) + 1] = 0
  BY <1>1, AppendAged
<1> HIDE DEF q
<1>3. \A i \in 1 .. Len(q) : q[i] <= Window
  BY <1>1, <1>2
<1>4. Recent(q) = q
  BY <1>2, <1>3, RestOfYoung, RecentDrops
<1> QED
  BY <1>2, <1>4 DEF p, q

-----------------------------------------------------------------------------
(* The types, the order of the limiter's list, and the window              *)

NodeTyped == TypeOK /\ Aged(Window, timestamps)

LEMMA TypeInit == Init => NodeTyped
<1> SUFFICES ASSUME Init PROVE NodeTyped
  OBVIOUS
<1>1. timestamps = <<>> /\ Aged(Window, timestamps)
  BY DEF Init, Aged
<1>2. timestamps \in Seq(0 .. Window + 1)
  BY <1>1
<1>3. /\ pc \in [Requests -> Places]
      /\ aborted \in [Requests -> BOOLEAN]
      /\ left \in [Requests -> Nat] /\ attempts \in [Requests -> Nat]
      /\ excluded \in [Requests -> SUBSET Keys] /\ cooling \in SUBSET Keys
      /\ key \in [Requests -> Keys \union {None}]
      /\ retryable \in [Requests -> BOOLEAN]
  BY DEF Init, Places
<1>4. \A r \in Requests : key[r] # None <=> pc[r] \in {"asleep", "send", "out"}
  BY DEF Init
<1> QED
  BY <1>1, <1>2, <1>3, <1>4 DEF NodeTyped, TypeOK

\* What the limiter does with a request that asks it.
LEMMA LimiterAsked ==
    ASSUME NodeTyped, NEW r \in Requests, acquireRateLimit(r)
    PROVE  /\ timestamps' \in Seq(0 .. Window + 1) /\ Aged(Window, timestamps')
           /\ left' \in [Requests -> Nat]
           /\ \/ pc' = [pc EXCEPT ![r] = "send"] /\ Limit!Admit
              \/ pc' = [pc EXCEPT ![r] = "asleep"] /\ Recent(timestamps') = Recent(timestamps)
<1> DEFINE p == Recent(timestamps)
<1>1. /\ Aged(Window, timestamps) /\ left \in [Requests -> Nat]
  BY DEF NodeTyped, TypeOK
<1>2. /\ Aged(Window, p) /\ Len(p) \in Nat /\ Recent(p) = p
      /\ \A i \in 1 .. Len(p) : p[i] \in 0 .. Window
      /\ Aged(Window, Append(p, 0)) /\ Recent(Append(p, 0)) = Append(p, 0)
  BY <1>1, RecentIs, PushedRecent
<1>3. CASE /\ Len(p) < MaxRequests
           /\ timestamps' = Append(p, 0)
           /\ pc' = [pc EXCEPT ![r] = "send"]
           /\ left' = left
  <2>1. Limit!Admit
    BY <1>2, <1>3 DEF Limit!Admit
  <2> HIDE DEF p
  <2>2. timestamps' \in Seq(0 .. Window + 1) /\ Aged(Window, timestamps')
    BY <1>2, <1>3 DEF Aged, Ages
  <2> QED
    BY <1>1, <1>3, <2>1, <2>2
<1>4. CASE /\ Len(p) >= MaxRequests
           /\ timestamps' = p
           /\ pc' = [pc EXCEPT ![r] = "asleep"]
           /\ left' = [left EXCEPT ![r] = Larger(Window - p[1], 1) * Window]
  <2>1. Recent(timestamps') = Recent(timestamps)
    BY <1>2, <1>4
  <2> HIDE DEF p
  <2>2. p[1] \in 0 .. Window
    BY <1>2, <1>4, ClientAssumption
  <2>3. Larger(Window - p[1], 1) \in Nat
    BY <2>2, ClientAssumption DEF Larger
  <2>4. \A a, b \in Nat : a * b \in Nat
    OBVIOUS
  <2>5. Larger(Window - p[1], 1) * Window \in Nat
    BY <2>3, <2>4, ClientAssumption
  <2>6. left' \in [Requests -> Nat]
    BY <1>1, <1>4, <2>5
  <2>7. timestamps' \in Seq(0 .. Window + 1) /\ Aged(Window, timestamps')
    BY <1>2, <1>4 DEF Aged, Ages
  <2> QED
    BY <1>4, <2>1, <2>6, <2>7
<1> QED
  BY <1>3, <1>4 DEF acquireRateLimit, Goto

\* And with one that asks for a key first.
LEMMA KeyAsked ==
    ASSUME NodeTyped, NEW r \in Requests, acquireKey(r)
    PROVE  \/ /\ pc' = [pc EXCEPT ![r] = "settled"]
              /\ UNCHANGED <<key, timestamps, left>>
           \/ /\ \E k \in Keys \ excluded[r] : key' = [key EXCEPT ![r] = k]
              /\ acquireRateLimit(r)
BY DEF acquireKey, Goto, limiter

\* Other requests keep what they have, whatever r does.
LEMMA OthersKept ==
    ASSUME NodeTyped, NEW r \in Requests, Request(r) \/ Serve(r) \/ Abort(r)
    PROVE  /\ retryable' = retryable
           /\ \A q \in Requests \ {r} :
                 /\ pc'[q] = pc[q] /\ key'[q] = key[q] /\ attempts'[q] = attempts[q]
                 /\ excluded'[q] = excluded[q] /\ aborted'[q] = aborted[q]
<1> USE DEF NodeTyped, TypeOK, loop, limiter, Goto
<1>1. CASE Request(r) \/ Retry(r)
  <2>1. acquireKey(r)
    BY <1>1 DEF Request, Retry
  <2>2. /\ \E k : pc' = [pc EXCEPT ![r] = k]
        /\ key' = key \/ \E k : key' = [key EXCEPT ![r] = k]
    BY <2>1, KeyAsked, LimiterAsked
  <2> QED
    BY <2>1, <2>2 DEF acquireKey
<1>2. CASE Wake(r)
  <2>1. \E k : pc' = [pc EXCEPT ![r] = k]
    BY <1>2, LimiterAsked DEF Wake
  <2> QED
    BY <1>2, <2>1 DEF Wake
<1>3. CASE Send(r) \/ RespondOk(r) \/ Abort(r)
  BY <1>3 DEF Send, RespondOk, Abort
<1>4. CASE FetchRejects(r) \/ RespondQuotaExceeded(r) \/ RespondTransient(r)
  BY <1>4 DEF FetchRejects, RespondQuotaExceeded, RespondTransient, Failover
<1> QED
  BY <1>1, <1>2, <1>3, <1>4 DEF Serve

\* Where a step of r leaves it: with a key exactly where it needs one.
LEMMA OwnTyped ==
    ASSUME NodeTyped, NEW r \in Requests, Request(r) \/ Serve(r) \/ Abort(r)
    PROVE  /\ pc' \in [Requests -> Places]
           /\ key' \in [Requests -> Keys \union {None}]
           /\ attempts' \in [Requests -> Nat]
           /\ excluded' \in [Requests -> SUBSET Keys]
           /\ aborted' \in [Requests -> BOOLEAN]
           /\ cooling' \in SUBSET Keys
           /\ key'[r] # None <=> pc'[r] \in {"asleep", "send", "out"}
<1> USE ClientAssumption DEF NodeTyped, TypeOK, loop, limiter, Goto, Places
<1>1. CASE Request(r) \/ Retry(r)
  <2>1. acquireKey(r) /\ pc[r] \in {"idle", "backoff"}
    BY <1>1 DEF Request, Retry
  <2>2. /\ attempts' = [attempts EXCEPT ![r] = @ + 1]
        /\ UNCHANGED <<excluded, aborted, cooling>>
    BY <2>1 DEF acquireKey
  <2>3. /\ attempts' \in [Requests -> Nat] /\ excluded' \in [Requests -> SUBSET Keys]
        /\ aborted' \in [Requests -> BOOLEAN] /\ cooling' \in SUBSET Keys
    BY <2>2
  <2>4. CASE pc' = [pc EXCEPT ![r] = "settled"] /\ key' = key
    BY <2>1, <2>3, <2>4
  <2>5. CASE acquireRateLimit(r) /\ \E k \in Keys \ excluded[r] : key' = [key EXCEPT ![r] = k]
    <3>1. \E k \in {"send", "asleep"} : pc' = [pc EXCEPT ![r] = k]
      BY <2>5, LimiterAsked
    <3> QED
      BY <2>3, <2>5, <3>1
  <2> QED
    BY <2>1, <2>4, <2>5, KeyAsked
<1>2. CASE Wake(r)
  <2>1. \E k \in {"send", "asleep"} : pc' = [pc EXCEPT ![r] = k]
    BY <1>2, LimiterAsked DEF Wake
  <2> QED
    BY <1>2, <2>1 DEF Wake
<1>3. CASE Send(r)
  BY <1>3 DEF Send
<1>4. CASE Abort(r)
  <2>1. aborted' \in [Requests -> BOOLEAN]
    BY <1>4 DEF Abort
  <2> QED
    BY <1>4, <2>1 DEF Abort
<1>5. CASE RespondOk(r)
  BY <1>5 DEF RespondOk
<1>6. CASE FetchRejects(r) \/ RespondQuotaExceeded(r) \/ RespondTransient(r)
  <2>1. Failover(r) /\ cooling' \in {cooling, cooling \union {key[r]}} /\ pc[r] \in {"send", "out"}
    BY <1>6 DEF FetchRejects, RespondQuotaExceeded, RespondTransient
  <2>2. key[r] \in Keys
    BY <2>1
  <2> QED
    BY <2>1, <2>2 DEF Failover
<1> QED
  BY <1>1, <1>2, <1>3, <1>4, <1>5, <1>6 DEF Serve

\* What a step of r does to the limiter.
LEMMA OwnWindow ==
    ASSUME NodeTyped, NEW r \in Requests, Request(r) \/ Serve(r) \/ Abort(r)
    PROVE  /\ timestamps' \in Seq(0 .. Window + 1) /\ Aged(Window, timestamps')
           /\ left' \in [Requests -> Nat]
           /\ Limit!Admit \/ Recent(timestamps') = Recent(timestamps)
<1> USE DEF NodeTyped, TypeOK, limiter
<1>1. CASE Request(r) \/ Retry(r)
  BY <1>1, KeyAsked, LimiterAsked DEF Request, Retry
<1>2. CASE Wake(r)
  BY <1>2, LimiterAsked DEF Wake
<1>3. CASE Send(r) \/ RespondOk(r) \/ Abort(r)
  BY <1>3 DEF Send, RespondOk, Abort
<1>4. CASE FetchRejects(r) \/ RespondQuotaExceeded(r) \/ RespondTransient(r)
  BY <1>4 DEF FetchRejects, RespondQuotaExceeded, RespondTransient, Failover
<1> QED
  BY <1>1, <1>2, <1>3, <1>4 DEF Serve

\* Time passes: what leaves the window is forgotten, the rest is a tick older.
LEMMA TickWindow ==
    ASSUME NodeTyped, Tick
    PROVE  Aged(Window, timestamps') /\ Limit!Tick
<1> USE ClientAssumption
<1>1. Aged(Window, timestamps)
  BY DEF NodeTyped
<1>2. /\ Aged(Window, timestamps') /\ Len(timestamps') = Len(timestamps)
      /\ \A i \in 1 .. Len(timestamps) :
            timestamps'[i] = IF timestamps[i] > Window THEN timestamps[i]
                                                     ELSE timestamps[i] + 1
  BY <1>1, AgeingKeepsOrder DEF Tick
<1>3. PICK n : Expired(Window, timestamps, n)
  BY <1>1, ExpiredExists
<1>4. PICK m : Expired(Window, timestamps', m)
  BY <1>2, ExpiredExists
<1> DEFINE p == Recent(timestamps)
<1>5. /\ m - n \in 0 .. Len(p)
      /\ \A i \in 1 .. Len(p) : p[i] >= Window <=> i <= m - n
      /\ Recent(timestamps') = [i \in 1 .. Len(p) - (m - n) |-> p[i + (m - n)] + 1]
  BY <1>1, <1>2, <1>3, <1>4, RecentDrops, AgeingForgets
<1> QED
  BY <1>2, <1>5 DEF Limit!Tick

LEMMA TypeStep ==
    ASSUME NodeTyped, [Next]_vars
    PROVE  NodeTyped' /\ [Limit!Next]_(Recent(timestamps))
<1>1. ASSUME NEW r \in Requests, Request(r) \/ Serve(r) \/ Abort(r)
      PROVE  NodeTyped' /\ [Limit!Next]_(Recent(timestamps))
  <2>1. /\ pc' \in [Requests -> Places]
        /\ key' \in [Requests -> Keys \union {None}]
        /\ attempts' \in [Requests -> Nat]
        /\ excluded' \in [Requests -> SUBSET Keys]
        /\ aborted' \in [Requests -> BOOLEAN]
        /\ cooling' \in SUBSET Keys
        /\ key'[r] # None <=> pc'[r] \in {"asleep", "send", "out"}
    BY <1>1, OwnTyped
  <2>2. retryable' \in [Requests -> BOOLEAN]
    BY <1>1, OthersKept DEF NodeTyped, TypeOK
  <2>3. ASSUME NEW q \in Requests
        PROVE  key'[q] # None <=> pc'[q] \in {"asleep", "send", "out"}
    <3>1. CASE q = r
      BY <2>1, <3>1
    <3>2. CASE q # r
      <4>1. key'[q] = key[q] /\ pc'[q] = pc[q]
        BY <1>1, <3>2, OthersKept
      <4> QED
        BY <4>1 DEF NodeTyped, TypeOK
    <3> QED
      BY <3>1, <3>2
  <2>4. /\ timestamps' \in Seq(0 .. Window + 1) /\ Aged(Window, timestamps')
        /\ left' \in [Requests -> Nat]
        /\ Limit!Admit \/ Recent(timestamps') = Recent(timestamps)
    BY <1>1, OwnWindow
  <2> QED
    BY <2>1, <2>2, <2>3, <2>4 DEF NodeTyped, TypeOK, Limit!Next
<1>2. ASSUME Tick PROVE NodeTyped' /\ [Limit!Next]_(Recent(timestamps))
  <2>1. Aged(Window, timestamps') /\ Limit!Tick
    BY <1>2, TickWindow
  <2>2. timestamps' \in Seq(0 .. Window + 1)
    BY <2>1 DEF Aged, Ages
  <2>3. left' \in [Requests -> Nat]
    BY <1>2 DEF Tick, NodeTyped, TypeOK
  <2>4. UNCHANGED <<pc, retryable, attempts, excluded, key, aborted, cooling>>
    BY <1>2 DEF Tick, loop
  <2> QED
    BY <2>1, <2>2, <2>3, <2>4 DEF NodeTyped, TypeOK, Limit!Next
<1>3. ASSUME NEW k \in Keys, Recover(k) PROVE NodeTyped' /\ [Limit!Next]_(Recent(timestamps))
  BY <1>3 DEF Recover, loop, limiter, NodeTyped, TypeOK
<1>4. ASSUME UNCHANGED vars PROVE NodeTyped' /\ [Limit!Next]_(Recent(timestamps))
  BY <1>4 DEF vars, loop, limiter, NodeTyped, TypeOK
<1> QED
  BY <1>1, <1>2, <1>3, <1>4 DEF Next

\* A request has a key from acquireKey to its recording, and nowhere else
\* (index.js:186-262).
THEOREM TypeCorrect == Spec => []TypeOK
<1>1. NodeTyped /\ [Next]_vars => NodeTyped'
  BY TypeStep
<1>2. NodeTyped => TypeOK
  BY DEF NodeTyped
<1> QED
  BY <1>1, <1>2, TypeInit, PTL DEF Spec

\* The limiter without a lock implements the sliding window of one second, however
\* many sleepers wake together (index.js:326-336).
THEOREM WindowKept == Spec => ImplementsWindow
<1>1. NodeTyped /\ [Next]_vars => NodeTyped' /\ [Limit!Next]_(Recent(timestamps))
  BY TypeStep
<1>2. ASSUME Init PROVE Limit!Init
  <2>1. Aged(Window, timestamps) /\ Len(timestamps) = 0 /\ timestamps = <<>>
    BY <1>2 DEF Init, Aged
  <2>2. Expired(Window, timestamps, 0) /\ Rest(timestamps, 0) = timestamps
    BY <2>1, RestOfYoung, ClientAssumption
  <2> QED
    BY <2>1, <2>2, RecentDrops DEF Limit!Init
<1> QED
  BY <1>1, <1>2, TypeInit, PTL DEF Spec, ImplementsWindow, Limit!Spec

-----------------------------------------------------------------------------
(* The contract with the callers                                           *)

\* Where excludedKeys and the loop's counter stand.
LoopInvariant(r) ==
    /\ IsFiniteSet(excluded[r])
    /\ pc[r] = "idle" => excluded[r] = {} /\ attempts[r] = 0
    /\ pc[r] \in {"asleep", "send", "out"} =>
          /\ key[r] \notin excluded[r]
          /\ Cardinality(excluded[r]) = attempts[r] - 1
          /\ attempts[r] > 1 => retryable[r] /\ attempts[r] <= RetryAttempts
    /\ pc[r] = "backoff" =>
          Cardinality(excluded[r]) = attempts[r] /\ retryDecision(r)

NodeInvariant == NodeTyped /\ \A r \in Requests : LoopInvariant(r)

LEMMA LoopInit == Init => \A r \in Requests : LoopInvariant(r)
BY FS_EmptySet DEF Init, LoopInvariant

LEMMA LoopStep ==
    ASSUME NodeInvariant, NEW r \in Requests, Request(r) \/ Serve(r) \/ Abort(r)
    PROVE  LoopInvariant(r)'
<1> USE ClientAssumption DEF NodeInvariant, NodeTyped, TypeOK, loop, limiter, Goto
<1>0. LoopInvariant(r) /\ IsFiniteSet(excluded[r])
  BY DEF LoopInvariant
<1>1. CASE Request(r) \/ Retry(r)
  <2>1. /\ pc[r] \in {"idle", "backoff"} /\ acquireKey(r)
        /\ attempts' = [attempts EXCEPT ![r] = @ + 1]
        /\ excluded' = excluded /\ retryable' = retryable
    BY <1>1 DEF Request, Retry, acquireKey
  <2>2. Cardinality(excluded[r]) = attempts[r]
    BY <1>0, <2>1, FS_EmptySet DEF LoopInvariant
  <2>3. attempts'[r] > 1 => retryable[r] /\ attempts'[r] <= RetryAttempts
    BY <1>0, <2>1 DEF LoopInvariant, retryDecision
  <2>4. attempts'[r] - 1 = attempts[r]
    BY <2>1
  <2>5. pc'[r] \in {"settled", "send", "asleep"}
    BY <2>1, KeyAsked, LimiterAsked
  <2>6. pc'[r] # "settled" => key'[r] \notin excluded[r]
    BY <2>1, KeyAsked
  <2> QED
    BY <1>0, <2>1, <2>2, <2>3, <2>4, <2>5, <2>6 DEF LoopInvariant
<1>2. CASE Wake(r)
  <2>1. pc[r] = "asleep" /\ UNCHANGED <<retryable, attempts, excluded, key>>
        /\ pc'[r] \in {"send", "asleep"}
    BY <1>2, LimiterAsked DEF Wake
  <2> QED
    BY <1>0, <2>1 DEF LoopInvariant
<1>3. CASE Send(r)
  BY <1>0, <1>3 DEF Send, LoopInvariant
<1>4. CASE RespondOk(r)
  BY <1>0, <1>4 DEF RespondOk, LoopInvariant
<1>5. CASE FetchRejects(r) \/ RespondQuotaExceeded(r) \/ RespondTransient(r)
  <2>1. /\ pc[r] \in {"send", "out"}
        /\ excluded' = [excluded EXCEPT ![r] = @ \union {key[r]}]
        /\ pc' = [pc EXCEPT ![r] = IF retryDecision(r) THEN "backoff" ELSE "settled"]
        /\ retryable' = retryable /\ attempts' = attempts
    BY <1>5 DEF FetchRejects, RespondQuotaExceeded, RespondTransient, Failover
  <2>2. key[r] \notin excluded[r] /\ Cardinality(excluded[r]) = attempts[r] - 1
    BY <1>0, <2>1 DEF LoopInvariant
  <2>3. /\ IsFiniteSet(excluded[r] \union {key[r]})
        /\ Cardinality(excluded[r] \union {key[r]}) = attempts[r] - 1 + 1
    BY <1>0, <2>2, FS_AddElement
  <2>4. IsFiniteSet(excluded'[r]) /\ Cardinality(excluded'[r]) = attempts'[r]
    BY <2>1, <2>3
  <2>5. pc'[r] = "backoff" => retryDecision(r)'
    BY <2>1 DEF retryDecision
  <2> QED
    BY <2>1, <2>4, <2>5 DEF LoopInvariant
<1>6. CASE Abort(r)
  BY <1>0, <1>6 DEF Abort, LoopInvariant, retryDecision
<1> QED
  BY <1>1, <1>2, <1>3, <1>4, <1>5, <1>6 DEF Serve

LEMMA InvariantStep == ASSUME NodeInvariant, [Next]_vars PROVE NodeInvariant'
<1>1. NodeTyped'
  BY TypeStep DEF NodeInvariant
<1>2. ASSUME NEW r \in Requests, Request(r) \/ Serve(r) \/ Abort(r), NEW q \in Requests
      PROVE  LoopInvariant(q)'
  <2>1. CASE q = r
    BY <1>2, <2>1, LoopStep
  <2>2. CASE q # r
    BY <1>2, <2>2, OthersKept DEF NodeInvariant, LoopInvariant, retryDecision
  <2> QED
    BY <2>1, <2>2
<1>3. ASSUME UNCHANGED <<pc, retryable, attempts, excluded, key>>, NEW q \in Requests
      PROVE  LoopInvariant(q)'
  BY <1>3 DEF NodeInvariant, LoopInvariant, retryDecision
<1>4. ASSUME Tick \/ (\E k \in Keys : Recover(k)) \/ UNCHANGED vars
      PROVE  UNCHANGED <<pc, retryable, attempts, excluded, key>>
  BY <1>4 DEF Tick, Recover, vars, loop
<1> QED
  BY <1>1, <1>2, <1>3, <1>4 DEF NodeInvariant, Next

\* The phases of the contract, and the keys in use.
Phase(r) == IF pc[r] \in {"send", "out"} THEN "out"
            ELSE IF pc[r] = "settled" THEN "ended" ELSE "waiting"
Phases   == [r \in Requests |-> Phase(r)]
With(r)  == IF pc[r] \in {"send", "out"} THEN key[r] ELSE None
Withs    == [r \in Requests |-> With(r)]

\* The contract counts as the client does.
LEMMA ContractCounts == \A S : Contract!Cardinality(S) = Cardinality(S)
BY DEF Contract!Cardinality, Cardinality

\* What a step of r does to them.
LEMMA OwnPhase ==
    ASSUME NodeTyped, NEW r \in Requests, Request(r) \/ Serve(r) \/ Abort(r)
    PROVE  /\ Phases' = [Phases EXCEPT ![r] = Phase(r)']
           /\ Withs' = [Withs EXCEPT ![r] = With(r)']
           /\ retryable' = retryable
<1>1. ASSUME NEW q \in Requests \ {r}
      PROVE  Phase(q)' = Phase(q) /\ With(q)' = With(q)
  BY <1>1, OthersKept DEF Phase, With
<1> QED
  BY <1>1, OthersKept DEF Phases, Withs

\* One that ends r and marks no key is an End of it alone.
LEMMA ContractEnds ==
    ASSUME NodeTyped, NEW r \in Requests, Request(r) \/ Serve(r) \/ Abort(r),
           pc'[r] = "settled", excluded' = excluded
    PROVE  Contract!End({r})
<1>1. Phase(r)' = "ended" /\ With(r)' = None
  BY DEF Phase, With
<1>2. /\ Phases' = [q \in Requests |-> IF q \in {r} THEN "ended" ELSE Phases[q]]
      /\ Withs' = [q \in Requests |-> IF q \in {r} THEN None ELSE Withs[q]]
      /\ retryable' = retryable
  BY <1>1, OwnPhase DEF Phases, Withs
<1> QED
  BY <1>2 DEF Contract!End, Phases, Withs, Phase, With

\* One that leaves r where it was for the contract is a stutter.
LEMMA ContractStutters ==
    ASSUME NodeTyped, NEW r \in Requests, Request(r) \/ Serve(r) \/ Abort(r),
           Phase(r)' = Phase(r), With(r)' = With(r), excluded' = excluded
    PROVE  UNCHANGED Contract!vars
<1>1. Phases' = Phases /\ Withs' = Withs /\ retryable' = retryable
  BY OwnPhase DEF Phases, Withs
<1> QED
  BY <1>1 DEF Contract!vars, Phases, Withs, Phase, With

\* One that lets r through the limiter sends it, within the budget.
LEMMA ContractSends ==
    ASSUME NodeInvariant, NodeInvariant', NEW r \in Requests, Request(r) \/ Serve(r) \/ Abort(r),
           pc[r] \in {"idle", "asleep", "backoff"}, pc'[r] = "send", excluded' = excluded
    PROVE  Contract!Send(r)
<1>1. /\ key'[r] \in Keys \ excluded[r]
      /\ IsFiniteSet(excluded[r]) /\ Cardinality(excluded[r]) = attempts'[r] - 1
      /\ attempts'[r] > 1 => retryable[r] /\ attempts'[r] <= RetryAttempts
      /\ attempts'[r] \in Nat
  <2>1. LoopInvariant(r)' /\ retryable' = retryable /\ key'[r] # None
        /\ key'[r] \in Keys \union {None} /\ attempts'[r] \in Nat
    BY OthersKept DEF NodeInvariant, NodeTyped, TypeOK
  <2> QED
    BY <2>1 DEF LoopInvariant
<1>2. excluded[r] = {} \/ (retryable[r] /\ Cardinality(excluded[r]) < RetryAttempts)
  <2>1. CASE Cardinality(excluded[r]) = 0
    BY <1>1, <2>1, FS_EmptySet
  <2>2. CASE Cardinality(excluded[r]) # 0
    <3>1. Cardinality(excluded[r]) \in Nat
      BY <1>1, FS_CardinalityType
    <3> QED
      BY <1>1, <2>2, <3>1, ClientAssumption
  <2> QED
    BY <2>1, <2>2
<1>3. Phase(r) = "waiting" /\ Phase(r)' = "out" /\ With(r)' = key'[r]
  BY DEF Phase, With
<1>4. /\ Phases' = [Phases EXCEPT ![r] = "out"]
      /\ Withs' = [Withs EXCEPT ![r] = key'[r]]
      /\ retryable' = retryable
  BY <1>3, OwnPhase DEF NodeInvariant
<1>5. PICK k \in Keys \ excluded[r] : k = key'[r]
  BY <1>1
<1> QED
  BY <1>2, <1>3, <1>4, <1>5, ContractCounts
  DEF Contract!Send, Contract!MayRetry, Phases, Withs, Phase, With

LEMMA ContractStep ==
    ASSUME NodeInvariant, [Next]_vars
    PROVE  [Contract!Next]_Contract!vars
<1> USE DEF NodeInvariant, NodeTyped, TypeOK, Goto, loop, limiter
<1>1. ASSUME NEW r \in Requests, Request(r) \/ Retry(r) \/ Wake(r)
      PROVE  [Contract!Next]_Contract!vars
  <2>1. /\ pc[r] \in {"idle", "asleep", "backoff"}
        /\ pc'[r] \in {"settled", "send", "asleep"} /\ excluded' = excluded
    <3>1. CASE Request(r) \/ Retry(r)
      BY <3>1, KeyAsked, LimiterAsked DEF Request, Retry, acquireKey
    <3>2. CASE Wake(r)
      BY <3>2, LimiterAsked DEF Wake
    <3> QED
      BY <1>1, <3>1, <3>2
  <2>2. Request(r) \/ Serve(r) \/ Abort(r)
    BY <1>1 DEF Serve
  <2>3. CASE pc'[r] = "settled"
    BY <2>1, <2>2, <2>3, ContractEnds DEF Contract!Next
  <2>4. CASE pc'[r] = "asleep"
    BY <2>1, <2>2, <2>4, ContractStutters DEF Phase, With
  <2>5. CASE pc'[r] = "send"
    BY <2>1, <2>2, <2>5, InvariantStep, ContractSends DEF Contract!Next
  <2> QED
    BY <2>1, <2>3, <2>4, <2>5
<1>2. ASSUME NEW r \in Requests, Send(r) \/ Abort(r) PROVE UNCHANGED Contract!vars
  <2>1. Phase(r)' = Phase(r) /\ With(r)' = With(r) /\ excluded' = excluded
    BY <1>2 DEF Send, Abort, Phase, With
  <2> QED
    BY <1>2, <2>1, ContractStutters DEF Serve
<1>3. ASSUME NEW r \in Requests, RespondOk(r) PROVE Contract!Next
  <2>1. pc'[r] = "settled" /\ excluded' = excluded
    BY <1>3 DEF RespondOk
  <2> QED
    BY <1>3, <2>1, ContractEnds DEF Serve, Contract!Next
<1>4. ASSUME NEW r \in Requests,
             FetchRejects(r) \/ RespondQuotaExceeded(r) \/ RespondTransient(r)
      PROVE  Contract!Next
  <2>1. /\ pc[r] \in {"send", "out"} /\ pc'[r] \in {"backoff", "settled"}
        /\ excluded' = [excluded EXCEPT ![r] = @ \union {key[r]}]
    BY <1>4 DEF FetchRejects, RespondQuotaExceeded, RespondTransient, Failover
  <2>2. /\ Phase(r) = "out" /\ With(r) = key[r]
        /\ Phase(r)' \in {"waiting", "ended"} /\ With(r)' = None
    BY <2>1 DEF Phase, With
  <2>3. /\ Phases' = [Phases EXCEPT ![r] = Phase(r)']
        /\ Withs' = [Withs EXCEPT ![r] = None]
        /\ retryable' = retryable
    BY <1>4, <2>2, OwnPhase DEF Serve
  <2>4. Contract!Fail(r)
    BY <2>1, <2>2, <2>3 DEF Contract!Fail, Phases, Withs, Phase, With
  <2> QED
    BY <2>4 DEF Contract!Next
<1>5. ASSUME (\E k \in Keys : Recover(k)) \/ Tick \/ UNCHANGED vars
      PROVE  UNCHANGED Contract!vars
  <2>1. UNCHANGED <<pc, retryable, excluded, key>>
    BY <1>5 DEF Recover, Tick, vars
  <2> QED
    BY <2>1 DEF Contract!vars
<1> QED
  BY <1>1, <1>2, <1>3, <1>4, <1>5 DEF Next, Serve

\* The client makes the upstream calls RequestContract allows and no others, with
\* aborts and time-outs spending attempts and keys (index.js:186-262).
THEOREM ContractKept == Spec => ImplementsContract
<1>1. Init => Contract!Init
  BY DEF Init, Contract!Init
<1>2. Init => NodeInvariant
  BY TypeInit, LoopInit DEF NodeInvariant
<1>3. NodeInvariant /\ [Next]_vars => NodeInvariant'
  BY InvariantStep
<1>4. NodeInvariant /\ [Next]_vars => [Contract!Next]_Contract!vars
  BY ContractStep
<1> QED
  BY <1>1, <1>2, <1>3, <1>4, PTL DEF Spec, ImplementsContract, Contract!Spec
=============================================================================
