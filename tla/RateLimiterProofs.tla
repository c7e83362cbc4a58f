-------------------------- MODULE RateLimiterProofs --------------------------
(***************************************************************************)
(* Proofs about the rate limiter, for any tasks, window, rate and shortest *)
(* sleep.  That the window is kept rests on sleeps that end after their    *)
(* deadline, Late = 1.                                                     *)
(***************************************************************************)
EXTENDS RateLimiter, SharedLemmas

-----------------------------------------------------------------------------
(* The deque, in terms of what has expired                                 *)

\* The poplefts drop exactly the expired ages.
LEMMA PrunedDrops ==
    ASSUME NEW ts, Aged(Window, ts), NEW n, Expired(Window, ts, n)
    PROVE  Pruned(ts) = Rest(ts, n)
<1> USE LimiterAssumption DEF Aged, Ages, Expired
<1> DEFINE P(m) == /\ \A i \in 1 .. m : ts[i] > Window
                   /\ m < Len(ts) => ts[m + 1] <= Window
<1>1. n \in 0 .. Len(ts) /\ P(n)
  OBVIOUS
<1>2. ASSUME NEW m \in 0 .. Len(ts), P(m) PROVE m = n
  <2>1. CASE m < n
    BY <1>2, <2>1
  <2>2. CASE m > n
    BY <1>2, <2>2
  <2> QED
    BY <2>1, <2>2
<1>3. (CHOOSE m \in 0 .. Len(ts) : P(m)) = n
  BY <1>1, <1>2
<1> QED
  BY <1>3 DEF Pruned, Rest

\* What is left is the ages within the window, in their order.
LEMMA PrunedIs ==
    ASSUME NEW ts, Aged(Window, ts), NEW n, Expired(Window, ts, n)
    PROVE  /\ Aged(Window, Pruned(ts))
           /\ Len(Pruned(ts)) = Len(ts) - n
           /\ \A i \in 1 .. Len(ts) - n : Pruned(ts)[i] = ts[n + i] /\ Pruned(ts)[i] <= Window
BY LimiterAssumption, PrunedDrops, RestIs

\* A deque without expired ages is as it is.
LEMMA PrunedSame ==
    ASSUME NEW ts, Aged(Window, ts), \A i \in 1 .. Len(ts) : ts[i] <= Window
    PROVE  Pruned(ts) = ts
BY LimiterAssumption, RestOfYoung, PrunedDrops

-----------------------------------------------------------------------------
(* The types                                                               *)

\* Leaving the queue.
LEMMA Leave ==
    ASSUME queue \in Seq(Tasks), NEW i \in 1 .. Len(queue), NEW s,
           s = SubSeq(queue, 1, i - 1) \o SubSeq(queue, i + 1, Len(queue))
    PROVE  /\ s \in Seq(Tasks)
           /\ Len(s) = Len(queue) - 1
           /\ \A j \in 1 .. Len(s) : s[j] = IF j < i THEN queue[j] ELSE queue[j + 1]
<1> DEFINE a == SubSeq(queue, 1, i - 1)
           b == SubSeq(queue, i + 1, Len(queue))
<1>1. /\ a \in Seq(Tasks) /\ Len(a) = i - 1
      /\ \A j \in 1 .. i - 1 : a[j] = queue[j]
  OBVIOUS
<1>2. /\ b \in Seq(Tasks) /\ Len(b) = Len(queue) - i
      /\ \A j \in 1 .. Len(queue) - i : b[j] = queue[i + j]
  OBVIOUS
<1> HIDE DEF a, b
<1>3. /\ a \o b \in Seq(Tasks)
      /\ Len(a \o b) = Len(a) + Len(b)
      /\ \A j \in 1 .. Len(a) + Len(b) : (a \o b)[j] = IF j <= Len(a) THEN a[j] ELSE b[j - Len(a)]
  BY <1>1, <1>2, ConcatProperties
<1>4. s = a \o b
  BY DEF a, b
<1>n. Len(queue) \in Nat /\ i \in Nat /\ i >= 1 /\ i <= Len(queue)
  OBVIOUS
<1>5. s \in Seq(Tasks) /\ Len(s) = Len(queue) - 1
  <2>1. Len(a) + Len(b) = Len(queue) - 1
    BY ONLY <1>1, <1>2, <1>n
  <2> QED
    BY ONLY <1>3, <1>4, <2>1
<1>6. ASSUME NEW j \in 1 .. Len(s) PROVE s[j] = IF j < i THEN queue[j] ELSE queue[j + 1]
  <2>1. j \in Nat /\ j >= 1 /\ j <= Len(queue) - 1
    <3> DEFINE m == Len(s)
    <3>1. m = Len(queue) - 1 /\ j \in 1 .. m
      BY <1>5
    <3> HIDE DEF m
    <3> QED
      BY ONLY <3>1, <1>n
  <2>2. j \in 1 .. Len(a) + Len(b)
    BY ONLY <1>1, <1>2, <1>n, <2>1
  <2>3. s[j] = IF j <= Len(a) THEN a[j] ELSE b[j - Len(a)]
    BY <1>3, <1>4, <2>2
  <2>4. CASE j < i
    <3>1. j <= Len(a) /\ j \in 1 .. i - 1
      BY ONLY <1>1, <1>n, <2>1, <2>4
    <3> QED
      BY <1>1, <2>3, <2>4, <3>1
  <2>5. CASE ~ (j < i)
    <3>1. ~ (j <= Len(a)) /\ j - Len(a) \in 1 .. Len(queue) - i /\ i + (j - Len(a)) = j + 1
      BY ONLY <1>1, <1>n, <2>1, <2>5
    <3> QED
      BY <1>2, <2>3, <2>5, <3>1
  <2> QED
    BY <2>4, <2>5
<1> QED
  BY <1>5, <1>6

Queued(q) ==
    /\ q \in Seq(Tasks)
    /\ \A i, j \in 1 .. Len(q) : q[i] = q[j] => i = j

\* The type invariant in these terms.
LEMMA TypeParts ==
    TypeOK <=> /\ Aged(Window, timestamps) /\ Queued(queue)
               /\ sleeping \in BOOLEAN /\ left \in Int
               /\ sleeping => queue # <<>>
BY DEF TypeOK, Aged, Ages, Queued

LEMMA LimitTyped == max_requests \in Nat \ {0}
BY LimiterAssumption DEF max_requests, requests_per_second, Larger

LEMMA TypeInit == Init => TypeOK
<1> SUFFICES ASSUME Init PROVE TypeOK
  OBVIOUS
<1>1. Aged(Window, timestamps) /\ Queued(queue)
  BY DEF Init, Aged, Queued
<1>2. left \in Int
  BY DEF Init
<1>3. sleeping \in BOOLEAN /\ (sleeping => queue # <<>>)
  BY Zenon DEF Init
<1> QED
  BY <1>1, <1>2, <1>3, TypeParts

\* The deque after a tick.
LEMMA TickAged ==
    ASSUME Aged(Window, timestamps), Tick
    PROVE  /\ Aged(Window, timestamps') /\ Len(timestamps') = Len(timestamps)
           /\ \A i \in 1 .. Len(timestamps) :
                 timestamps'[i] = IF timestamps[i] > Window THEN timestamps[i]
                                                          ELSE timestamps[i] + 1
BY LimiterAssumption, AgeingKeepsOrder DEF Tick

LEMMA TypeStep == TypeOK /\ [Next]_vars => TypeOK'
<1> SUFFICES ASSUME TypeOK, [Next]_vars PROVE TypeOK'
  OBVIOUS
<1>1. /\ Aged(Window, timestamps) /\ Queued(queue)
      /\ sleeping \in BOOLEAN /\ left \in Int /\ (sleeping => queue # <<>>)
  BY TypeParts
<1>2. ASSUME Aged(Window, timestamps'), Queued(queue'), sleeping' \in BOOLEAN, left' \in Int,
             sleeping' => queue' # <<>>
      PROVE  TypeOK'
  <2>1. DOMAIN timestamps' = 1 .. Len(timestamps') /\ DOMAIN queue' = 1 .. Len(queue')
    BY <1>2 DEF Aged, Queued
  <2> QED
    BY <1>2, <2>1 DEF TypeOK, Aged, Ages, Queued
<1>3. PICK n : Expired(Window, timestamps, n)
  BY <1>1, LimiterAssumption, ExpiredExists
<1>4. /\ Aged(Window, Pruned(timestamps)) /\ Len(Pruned(timestamps)) = Len(timestamps) - n
      /\ Aged(Window, Append(Pruned(timestamps), 0))
  BY <1>1, <1>3, LimiterAssumption, PrunedIs, AppendAged
<1>5. ASSUME NEW t \in Tasks, Call(t) PROVE TypeOK'
  <2>1. Queued(queue') /\ queue' # <<>>
    BY <1>1, <1>5 DEF Call, Waiting, Queued
  <2> QED
    BY <1>1, <1>2, <1>5, <2>1 DEF Call
<1>6. ASSUME NEW t \in Tasks, Cancel(t) PROVE TypeOK'
  <2>1. PICK i \in DOMAIN queue :
          /\ queue' = SubSeq(queue, 1, i - 1) \o SubSeq(queue, i + 1, Len(queue))
          /\ sleeping' = (sleeping /\ i # 1)
          /\ left' = IF i = 1 THEN 0 ELSE left
    BY <1>6 DEF Cancel
  <2>2. i \in 1 .. Len(queue) /\ queue \in Seq(Tasks)
    BY <1>1 DEF Queued
  <2>3. /\ queue' \in Seq(Tasks) /\ Len(queue') = Len(queue) - 1
        /\ \A j \in 1 .. Len(queue') : queue'[j] = IF j < i THEN queue[j] ELSE queue[j + 1]
    <3> DEFINE s == queue'
    <3>1. s = SubSeq(queue, 1, i - 1) \o SubSeq(queue, i + 1, Len(queue))
      BY <2>1
    <3> HIDE DEF s
    <3>2. /\ s \in Seq(Tasks) /\ Len(s) = Len(queue) - 1
          /\ \A j \in 1 .. Len(s) : s[j] = IF j < i THEN queue[j] ELSE queue[j + 1]
      BY <2>2, <3>1, Leave
    <3> QED
      BY <3>2 DEF s
  <2>4. Queued(queue')
    BY <1>1, <2>2, <2>3 DEF Queued
  <2>5. sleeping' => queue' # <<>>
    <3>1. sleeping' => i # 1
      BY <2>1
    <3>2. i # 1 => Len(queue') > 0
      BY <2>2, <2>3
    <3> QED
      BY <3>1, <3>2
  <2>6. sleeping' \in BOOLEAN /\ left' \in Int /\ timestamps' = timestamps
    BY <1>1, <1>6, <2>1 DEF Cancel
  <2> QED
    BY <1>1, <1>2, <2>4, <2>5, <2>6
<1>7. ASSUME queue # <<>>, LetThrough PROVE TypeOK'
  <2>1. Queued(queue')
    BY <1>1, <1>7 DEF LetThrough, Queued
  <2>2. timestamps' = Append(Pruned(timestamps), 0) /\ sleeping' = FALSE /\ left' = 0
    BY <1>7 DEF LetThrough
  <2>3. Aged(Window, timestamps')
    BY <1>4, <2>2
  <2>4. left' \in Int
    BY <2>2
  <2>5. sleeping' \in BOOLEAN /\ (sleeping' => queue' # <<>>)
    BY <2>2, Zenon
  <2> QED
    BY <1>2, <2>1, <2>3, <2>4, <2>5
<1>8. ASSUME Sleep PROVE TypeOK'
  <2>1. Pruned(timestamps)[1] \in Int
    BY <1>4, <1>8, LimitTyped, LimiterAssumption DEF Sleep, Aged, Ages
  <2>2. left' \in Int
    BY <1>8, <2>1, LimiterAssumption DEF Sleep, Larger
  <2> QED
    BY <1>1, <1>2, <1>4, <1>8, <2>2 DEF Sleep
<1>9. ASSUME Tick PROVE TypeOK'
  <2>1. left' \in Int
    BY <1>1, <1>9, LimiterAssumption DEF Tick
  <2> QED
    BY <1>1, <1>2, <1>9, <2>1, TickAged DEF Tick
<1>10. ASSUME UNCHANGED vars PROVE TypeOK'
  BY <1>10 DEF vars, TypeOK
<1> QED
  BY <1>1, <1>5, <1>6, <1>7, <1>8, <1>9, <1>10 DEF Next, Step, Admit, Wake

\* The deque is in order, nobody is in acquire twice, and whoever sleeps is there.
THEOREM TypeCorrect == Spec => []TypeOK
BY TypeInit, TypeStep, PTL DEF Spec

-----------------------------------------------------------------------------
(* The window.  A sleeper waits for the oldest call of the deque to leave  *)
(* it, so once it is past its deadline there is room for one more.         *)

SleepsLongEnough ==
    sleeping =>
        /\ timestamps # <<>>
        /\ timestamps[1] > Window \/ left + timestamps[1] >= Window

LimiterInvariant == TypeOK /\ DequeBounded /\ SleepsLongEnough

LEMMA LimiterInit == Init => LimiterInvariant
<1> SUFFICES ASSUME Init PROVE LimiterInvariant
  OBVIOUS
<1>1. DequeBounded
  BY LimitTyped DEF Init, DequeBounded
<1>2. SleepsLongEnough
  BY Zenon DEF Init, SleepsLongEnough
<1> QED
  BY <1>1, <1>2, TypeInit DEF LimiterInvariant

\* Letting a call through where there is room.
LEMMA LetThroughKeeps ==
    ASSUME LimiterInvariant, LetThrough, Len(Pruned(timestamps)) < max_requests
    PROVE  DequeBounded' /\ SleepsLongEnough' /\ Limit!Admit
<1>1. Aged(Window, timestamps)
  BY TypeParts DEF LimiterInvariant
<1>2. PICK n : Expired(Window, timestamps, n)
  BY <1>1, LimiterAssumption, ExpiredExists
<1> DEFINE p == Pruned(timestamps)
<1>3. /\ Aged(Window, p) /\ Len(p) \in Nat
      /\ \A i \in 1 .. Len(p) : p[i] <= Window
  <2>1. /\ Aged(Window, p) /\ Len(p) = Len(timestamps) - n
        /\ \A i \in 1 .. Len(timestamps) - n : p[i] <= Window
    BY <1>1, <1>2, PrunedIs
  <2>2. Len(p) \in Nat
    BY <2>1 DEF Aged
  <2> QED
    BY <2>1, <2>2
<1>4. /\ timestamps' = Append(p, 0) /\ sleeping' = FALSE
  BY DEF LetThrough
<1> HIDE DEF p
<1>5. /\ Aged(Window, timestamps') /\ Len(timestamps') = Len(p) + 1
      /\ \A i \in 1 .. Len(timestamps') : timestamps'[i] <= Window
  <2>1. /\ Aged(Window, timestamps') /\ Len(timestamps') = Len(p) + 1
        /\ \A i \in 1 .. Len(p) : timestamps'[i] = p[i]
        /\ timestamps'[Len(p) + 1] = 0
    BY <1>3, <1>4, LimiterAssumption, AppendAged
  <2> QED
    BY <1>3, <2>1, LimiterAssumption
<1>6. Pruned(timestamps') = timestamps'
  BY <1>5, PrunedSame
<1>7. Len(p) + 1 <= max_requests
  BY <1>3, LimitTyped DEF p
<1>8. DequeBounded'
  BY <1>5, <1>7 DEF DequeBounded, max_requests, requests_per_second, Larger
<1>9. SleepsLongEnough'
  BY <1>4, Zenon DEF SleepsLongEnough
<1>10. Limit!Admit
  BY <1>4, <1>6 DEF Limit!Admit, p
<1> QED
  BY <1>8, <1>9, <1>10

\* A task goes to sleep: the deque is full, and what was expired is gone.
LEMMA SleepKeeps ==
    ASSUME LimiterInvariant, Sleep
    PROVE  DequeBounded' /\ SleepsLongEnough' /\ Pruned(timestamps') = Pruned(timestamps)
<1>1. Aged(Window, timestamps) /\ Len(timestamps) <= max_requests
  BY TypeParts DEF LimiterInvariant, DequeBounded
<1>2. PICK n : Expired(Window, timestamps, n)
  BY <1>1, LimiterAssumption, ExpiredExists
<1> DEFINE p == Pruned(timestamps)
<1>3. /\ Aged(Window, p) /\ Len(p) = Len(timestamps) - n
      /\ \A i \in 1 .. Len(timestamps) - n : p[i] <= Window
  BY <1>1, <1>2, PrunedIs
<1>4. /\ timestamps' = p /\ Len(p) >= max_requests
      /\ left' = Larger(Window - p[1], MinSleep)
  BY DEF Sleep
<1> HIDE DEF p
<1>5. Len(p) \in Nat /\ Len(p) <= Len(timestamps) /\ Len(timestamps) \in Nat
  BY <1>1, <1>2, <1>3 DEF Aged, Expired
<1>6. DequeBounded'
  BY <1>1, <1>4, <1>5, LimitTyped
  DEF DequeBounded, max_requests, requests_per_second, Larger
<1>7. p # <<>> /\ p[1] \in Int
  BY <1>3, <1>4, <1>5, LimitTyped, LimiterAssumption DEF Aged, Ages
<1>8. left' + p[1] >= Window
  BY <1>4, <1>7, LimiterAssumption DEF Larger
<1>9. SleepsLongEnough'
  BY <1>4, <1>7, <1>8 DEF SleepsLongEnough
<1>10. Pruned(p) = p
  BY <1>3, PrunedSame
<1> QED
  BY <1>4, <1>6, <1>9, <1>10 DEF p

\* After the sleep the oldest call has left the window.
LEMMA WakeHasRoom ==
    ASSUME Late = 1, LimiterInvariant, Wake
    PROVE  Len(Pruned(timestamps)) < max_requests
<1>1. /\ Aged(Window, timestamps) /\ Len(timestamps) <= max_requests /\ left \in Int
      /\ timestamps # <<>>
      /\ timestamps[1] > Window \/ left + timestamps[1] >= Window
      /\ left <= -1
  BY TypeParts DEF LimiterInvariant, DequeBounded, SleepsLongEnough, Wake
<1>2. PICK n : Expired(Window, timestamps, n)
  BY <1>1, LimiterAssumption, ExpiredExists
<1>3. Len(Pruned(timestamps)) = Len(timestamps) - n
  BY <1>1, <1>2, PrunedIs
<1>4. Len(timestamps) \in Nat \ {0} /\ 1 \in 1 .. Len(timestamps) /\ timestamps[1] \in Int
  BY <1>1, LimiterAssumption DEF Aged, Ages
<1>5. timestamps[1] > Window
  BY <1>1, <1>4, LimiterAssumption
<1>6. n >= 1 /\ n \in Nat
  BY <1>2, <1>4, <1>5 DEF Expired
<1> QED
  BY <1>1, <1>3, <1>4, <1>6, LimitTyped

\* Time passes: what leaves the window is forgotten, the rest is a tick older.
LEMMA TickKeeps ==
    ASSUME LimiterInvariant, Tick
    PROVE  DequeBounded' /\ SleepsLongEnough' /\ Limit!Tick
<1> USE LimiterAssumption
<1>1. Aged(Window, timestamps) /\ Len(timestamps) <= max_requests /\ left \in Int
  BY TypeParts DEF LimiterInvariant, DequeBounded
<1>2. /\ Aged(Window, timestamps') /\ Len(timestamps') = Len(timestamps)
      /\ \A i \in 1 .. Len(timestamps) :
            timestamps'[i] = IF timestamps[i] > Window THEN timestamps[i]
                                                     ELSE timestamps[i] + 1
  BY <1>1, TickAged
<1>3. DequeBounded'
  BY <1>1, <1>2 DEF DequeBounded, max_requests, requests_per_second, Larger
<1>4. SleepsLongEnough'
  <2>1. ASSUME sleeping
        PROVE  /\ timestamps' # <<>>
               /\ timestamps'[1] > Window \/ left' + timestamps'[1] >= Window
    <3>1. /\ timestamps # <<>>
          /\ timestamps[1] > Window \/ left + timestamps[1] >= Window
      BY <2>1 DEF LimiterInvariant, SleepsLongEnough
    <3>2. Len(timestamps) \in Nat \ {0} /\ timestamps[1] \in Int
      BY <1>1, <3>1 DEF Aged, Ages
    <3>3. timestamps' # <<>>
      BY <1>2, <3>2 DEF Aged
    <3>4. left' \in {left, left - 1}
      BY DEF Tick
    <3>5. timestamps'[1] = IF timestamps[1] > Window THEN timestamps[1] ELSE timestamps[1] + 1
      BY <1>2, <3>2
    <3> QED
      BY <1>1, <3>1, <3>2, <3>3, <3>4, <3>5
  <2>2. sleeping' = sleeping
    BY DEF Tick
  <2> QED
    BY <2>1, <2>2 DEF SleepsLongEnough
<1>5. Limit!Tick
  <2>1. PICK n : Expired(Window, timestamps, n)
    BY <1>1, LimiterAssumption, ExpiredExists
  <2>2. PICK m : Expired(Window, timestamps', m)
    BY <1>2, LimiterAssumption, ExpiredExists
  <2>3. /\ m - n \in 0 .. Len(Pruned(timestamps))
        /\ \A i \in 1 .. Len(Pruned(timestamps)) : Pruned(timestamps)[i] >= Window <=> i <= m - n
        /\ Pruned(timestamps') = [i \in 1 .. Len(Pruned(timestamps)) - (m - n) |->
                                    Pruned(timestamps)[i + (m - n)] + 1]
    BY <1>1, <1>2, <2>1, <2>2, PrunedDrops, AgeingForgets
  <2> QED
    BY <2>3 DEF Limit!Tick
<1> QED
  BY <1>3, <1>4, <1>5

\* Every step keeps the invariant and is one of the window's, or none.
LEMMA WindowStep ==
    ASSUME Late = 1, LimiterInvariant, [Next]_vars
    PROVE  LimiterInvariant' /\ [Limit!Next]_(Pruned(timestamps))
<1>1. TypeOK'
  BY TypeStep DEF LimiterInvariant
<1>2. ASSUME timestamps' = timestamps,
             \/ sleeping' = sleeping /\ left' = left
             \/ ~ sleeping'
      PROVE  DequeBounded' /\ SleepsLongEnough' /\ Pruned(timestamps') = Pruned(timestamps)
  BY <1>2 DEF LimiterInvariant, DequeBounded, SleepsLongEnough, max_requests,
              requests_per_second, Larger
<1>3. ASSUME NEW t \in Tasks, Call(t) PROVE UNCHANGED <<timestamps, sleeping, left>>
  BY <1>3 DEF Call
<1>4. ASSUME NEW t \in Tasks, Cancel(t)
      PROVE  timestamps' = timestamps /\ ((sleeping' = sleeping /\ left' = left) \/ ~ sleeping')
  <2>1. PICK i \in DOMAIN queue :
          sleeping' = (sleeping /\ i # 1) /\ left' = IF i = 1 THEN 0 ELSE left
    BY <1>4 DEF Cancel
  <2>2. timestamps' = timestamps /\ sleeping \in BOOLEAN
    BY <1>4, TypeParts DEF Cancel, LimiterInvariant
  <2> QED
    BY <2>1, <2>2
<1>5. ASSUME Admit PROVE DequeBounded' /\ SleepsLongEnough' /\ Limit!Admit
  BY <1>5, LetThroughKeeps DEF Admit
<1>6. ASSUME Wake PROVE DequeBounded' /\ SleepsLongEnough' /\ Limit!Admit
  BY <1>6, WakeHasRoom, LetThroughKeeps DEF Wake
<1>7. ASSUME Sleep
      PROVE  DequeBounded' /\ SleepsLongEnough' /\ Pruned(timestamps') = Pruned(timestamps)
  BY <1>7, SleepKeeps
<1>8. ASSUME Tick PROVE DequeBounded' /\ SleepsLongEnough' /\ Limit!Tick
  BY <1>8, TickKeeps
<1>9. ASSUME UNCHANGED vars PROVE UNCHANGED <<timestamps, sleeping, left>>
  BY <1>9 DEF vars
<1> QED
  BY <1>1, <1>2, <1>3, <1>4, <1>5, <1>6, <1>7, <1>8, <1>9
  DEF Next, Step, LimiterInvariant, Limit!Next

\* The deque never outgrows max_requests (app.py:59-72).
THEOREM DequeNeverOutgrows == ASSUME Late = 1 PROVE Spec => []DequeBounded
<1>1. LimiterInvariant /\ [Next]_vars => LimiterInvariant'
  BY WindowStep
<1>2. LimiterInvariant => DequeBounded
  BY DEF LimiterInvariant
<1> QED
  BY <1>1, <1>2, LimiterInit, PTL DEF Spec

\* acquire implements the sliding window of one second (app.py:59-72).
THEOREM WindowKept == ASSUME Late = 1 PROVE Spec => ImplementsWindow
<1>1. LimiterInvariant /\ [Next]_vars => LimiterInvariant' /\ [Limit!Next]_(Pruned(timestamps))
  BY WindowStep
<1>2. ASSUME Init PROVE Limit!Init
  <2>1. Aged(Window, timestamps) /\ Len(timestamps) = 0
    BY <1>2 DEF Init, Aged
  <2>2. Pruned(timestamps) = timestamps
    BY <2>1, PrunedSame
  <2> QED
    BY <1>2, <2>2 DEF Init, Limit!Init
<1> QED
  BY <1>1, <1>2, LimiterInit, PTL DEF Spec, ImplementsWindow, Limit!Spec
=============================================================================
