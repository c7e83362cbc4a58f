---------------------------- MODULE RateLimiter -----------------------------
(***************************************************************************)
(* AsyncRateLimiter (proxy/app.py:52-72): a deque of the times of recent   *)
(* calls, and one asyncio.Lock around the whole of acquire, its sleep      *)
(* included.  Times are kept as ages, in ticks: the code only ever         *)
(* compares a timestamp with now - 1.0.  Calls queue for the lock in order *)
(* of arrival; the head of the queue holds it.                             *)
(***************************************************************************)
EXTENDS Integers, Sequences

CONSTANTS
    Tasks,          \* tasks that call acquire, again and again
    Window,         \* ticks in one second
    TenthsPerSecond,\* rate_limit_per_second, in tenths of a request
    MinSleep,       \* the 0.001 s that every sleep lasts at least
    Late            \* a sleep ends at the earliest Late ticks after its deadline.
                    \* 1: strictly later, as on a clock much finer than the code
                    \* between reading it and going to sleep; 0: it may end on the
                    \* tick of the deadline, as on a coarse clock

ASSUME LimiterAssumption ==
    /\ Window \in Nat \ {0} /\ TenthsPerSecond \in Int /\ MinSleep \in Nat
    /\ Late \in {0, 1}

VARIABLES
    timestamps,     \* _timestamps as ages, oldest first; Window + 1 is "older"
    queue,          \* tasks in acquire, the head inside the lock
    sleeping,       \* whether the head is in asyncio.sleep
    left            \* ticks until its deadline, negative when it is past

vars == <<timestamps, queue, sleeping, left>>

Larger(a, b) == IF a > b THEN a ELSE b

\* requests_per_second is at least 0.1, max_requests its ceiling: the limiter
\* keeps to the rate rounded up, and so to one call a second at least.
requests_per_second == Larger(TenthsPerSecond, 1)
max_requests        == Larger(1, (requests_per_second + 9) \div 10)

\* The loop of poplefts: drop from the left while older than one second.
Pruned(ts) ==
    LET n == CHOOSE m \in 0 .. Len(ts) :
                 /\ \A i \in 1 .. m : ts[i] > Window
                 /\ m < Len(ts) => ts[m + 1] <= Window
    IN  SubSeq(ts, n + 1, Len(ts))

Waiting(t) == \E i \in DOMAIN queue : queue[i] = t

Init ==
    /\ timestamps = <<>>
    /\ queue = <<>>
    /\ sleeping = FALSE
    /\ left = 0

\* Mutated form: the last to call is the first served after the head.
CallAhead(t) ==
    /\ ~ Waiting(t)
    /\ queue' = IF queue = <<>> THEN <<t>> ELSE <<Head(queue), t>> \o Tail(queue)
    /\ UNCHANGED <<timestamps, sleeping, left>>

Call(t) ==
    /\ ~ Waiting(t)
    /\ queue' = Append(queue, t)
    /\ UNCHANGED <<timestamps, sleeping, left>>

LetThrough ==
    /\ timestamps' = Append(Pruned(timestamps), 0)
    /\ queue' = Tail(queue)
    /\ sleeping' = FALSE
    /\ left' = 0

Admit ==
    /\ queue # <<>> /\ ~ sleeping
    /\ Len(Pruned(timestamps)) < max_requests
    /\ LetThrough

\* Mutated form: the delay is one tick short.
SleepShort ==
    /\ queue # <<>> /\ ~ sleeping
    /\ Len(Pruned(timestamps)) >= max_requests
    /\ timestamps' = Pruned(timestamps)
    /\ sleeping' = TRUE
    /\ left' = Larger(Window - Pruned(timestamps)[1] - 1, MinSleep)
    /\ UNCHANGED queue

Sleep ==
    /\ queue # <<>> /\ ~ sleeping
    /\ Len(Pruned(timestamps)) >= max_requests
    /\ timestamps' = Pruned(timestamps)
    /\ sleeping' = TRUE
    /\ left' = Larger(Window - Pruned(timestamps)[1], MinSleep)
    /\ UNCHANGED queue

\* Mutated form: nothing is dropped after the sleep.
WakeWithoutPruning ==
    /\ sleeping
    /\ left <= - Late
    /\ timestamps' = Append(timestamps, 0)
    /\ queue' = Tail(queue)
    /\ sleeping' = FALSE
    /\ left' = 0

\* After its one sleep the task goes through without looking again.
Wake ==
    /\ sleeping
    /\ left <= - Late
    /\ LetThrough

\* Mutated form: the sleep outlives its task.
CancelKeepsSleep(t) ==
    /\ \E i \in DOMAIN queue :
          /\ queue[i] = t
          /\ queue' = SubSeq(queue, 1, i - 1) \o SubSeq(queue, i + 1, Len(queue))
    /\ UNCHANGED <<timestamps, sleeping, left>>

\* The caller cancels: a waiter leaves the queue, the head also the sleep.
Cancel(t) ==
    /\ \E i \in DOMAIN queue :
          /\ queue[i] = t
          /\ queue' = SubSeq(queue, 1, i - 1) \o SubSeq(queue, i + 1, Len(queue))
          /\ sleeping' = (sleeping /\ i # 1)
          /\ left' = IF i = 1 THEN 0 ELSE left
    /\ UNCHANGED timestamps

Tick ==
    /\ timestamps' = [i \in DOMAIN timestamps |->
          IF timestamps[i] > Window THEN timestamps[i] ELSE timestamps[i] + 1]
    /\ left' = IF sleeping /\ left > - Late THEN left - 1 ELSE left
    /\ UNCHANGED <<queue, sleeping>>

Step == Admit \/ Sleep \/ Wake

Next ==
    \/ \E t \in Tasks : Call(t) \/ Cancel(t)
    \/ Step
    \/ Tick

Spec == Init /\ [][Next]_vars

\* Time passes, and the event loop runs what can run.  No task has to call, and
\* no caller has to cancel.
FairSpec == Spec /\ WF_vars(Step) /\ WF_vars(Tick)

-----------------------------------------------------------------------------

\* Ages fit the deque: bounded, never younger behind older ones; and sleeping
\* belongs to a head of the queue.
TypeOK ==
    /\ timestamps \in Seq(0 .. Window + 1)
    /\ \A i, j \in DOMAIN timestamps : i <= j => timestamps[i] >= timestamps[j]
    /\ queue \in Seq(Tasks)
    /\ \A i, j \in DOMAIN queue : queue[i] = queue[j] => i = j
    /\ sleeping \in BOOLEAN /\ left \in Int
    /\ sleeping => queue # <<>>

\* The deque never outgrows max_requests: acquire tests its length once, before
\* it sleeps, and relies on the sleep having made room (app.py:65-72).
DequeBounded == Len(timestamps) <= max_requests

\* acquire implements the sliding window: it lets a call through only when fewer
\* than max_requests went through in the second before (app.py:59-72).
Limit == INSTANCE SlidingWindow WITH MaxRequests <- max_requests, log <- Pruned(timestamps)
ImplementsWindow == Limit!Spec

\* Every call of acquire returns or is cancelled, however many others call.
EveryCallReturns == \A t \in Tasks : Waiting(t) ~> ~ Waiting(t)
=============================================================================
