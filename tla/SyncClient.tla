----------------------------- MODULE SyncClient ------------------------------
(***************************************************************************)
(* PoolSwitchClient (client.py): the caller's threads hand coroutines to   *)
(* an event loop that runs in a thread of its own, and wait for the        *)
(* result; close() closes the asynchronous client on that loop, then stops *)
(* the loop, which cancels what is left and closes.                        *)
(*                                                                         *)
(* The loop is asyncio's: a queue of callbacks, run in batches.  A         *)
(* coroutine suspends at most once here, where the code suspends any       *)
(* number of times; what a request does in between is RequestEngine's.     *)
(***************************************************************************)
EXTENDS Naturals, Sequences, FiniteSets

CONSTANTS
    Callers,      \* threads, each of which calls request() or status() once
    Closers,      \* threads, each of which calls close() once
    Maker,        \* the thread that runs the constructor
    AcloseFails,  \* whether aclose() may raise (the HTTP client's or Redis' does)
    None

Threads == Callers \union Closers \union {Maker}

\* How a coroutine may end.
Outcomes == {"ok", "error", "cancelled"}

ASSUME ClientAssumption ==
    /\ IsFiniteSet(Threads)
    /\ Callers \intersect Closers = {} /\ Maker \notin Callers \union Closers
    /\ AcloseFails \in BOOLEAN
    /\ None \notin Threads \union Outcomes

VARIABLES
    closed,      \* PoolSwitchClient._closed
    aclosed,     \* AsyncPoolSwitchClient._closed
    pc,          \* where each thread is
    task, result,\* the task of each thread's coroutine, and how it ended
    ready, todo, \* the loop's callbacks, and how many are left of this batch
    stopping,    \* loop._stopping
    phase,       \* where the loop's thread is in _run_loop
    pending      \* the tasks _run_loop has cancelled and gathered

client == <<closed, aclosed>>
tasks  == <<task, result>>
loop   == <<ready, todo, stopping, phase, pending>>
vars   == <<client, pc, tasks, loop>>

-----------------------------------------------------------------------------
(* Threads: "call" is before the first test of _closed, "submit" before    *)
(* that of _submit, "append" behind it, "wait" in future.result(), "stop"  *)
(* after close() has set _closed, "join" in thread.join.                   *)
Returned == {"answered", "raised", "closed"}
Places   == {"call", "submit", "append", "wait", "stop", "join"} \union Returned
Unended  == {"created", "suspended", "resumed"}
TaskStates == {"none", "finished", "resolved"} \union Unended
Handles  == [run : {"spawn", "step", "resolve"}, of : Threads] \union [run : {"stop"}, of : {None}]

Handle(run, t)   == [run |-> run, of |-> t]
Goto(t, place)   == pc' = [pc EXCEPT ![t] = place]
Become(t, state) == task' = [task EXCEPT ![t] = state]

\* The constructor has started the loop's thread and submitted _create_client.
Init ==
    /\ closed = FALSE /\ aclosed = FALSE
    /\ pc = [t \in Threads |-> IF t = Maker THEN "wait" ELSE "call"]
    /\ task = [t \in Threads |-> "none"]
    /\ result = [t \in Threads |-> None]
    /\ ready = <<Handle("spawn", Maker)>>
    /\ todo = 0
    /\ stopping = FALSE
    /\ phase = "running"
    /\ pending = {}

\* request, status and close begin with the same test.
Call(t) ==
    /\ pc[t] = "call" /\ pc[Maker] = "answered"
    /\ \/ ~ closed /\ Goto(t, "submit")
       \/ closed /\ t \in Callers /\ Goto(t, "raised")
       \/ closed /\ t \in Closers /\ Goto(t, "closed")
    /\ UNCHANGED <<client, tasks, loop>>

\* call_soon_threadsafe raises once the loop is closed.
call_soon_threadsafe(h) ==
    /\ phase # "closed"
    /\ ready' = Append(ready, h)
    /\ UNCHANGED <<todo, stopping, phase, pending>>

_submit(t) ==
    /\ pc[t] = "submit"
    /\ \/ ~ closed /\ Goto(t, "append")
       \/ closed /\ Goto(t, "raised")
    /\ UNCHANGED <<client, tasks, loop>>

\* What _submit found may be over: the loop stopping, draining, closed or dead.
run_coroutine_threadsafe(t) ==
    /\ pc[t] = "append"
    /\ \/ call_soon_threadsafe(Handle("spawn", t)) /\ Goto(t, "wait")
       \/ phase = "closed" /\ Goto(t, "raised") /\ UNCHANGED loop
    /\ UNCHANGED <<client, tasks>>

\* future.result() returns; close() goes on.
Result(t) ==
    /\ pc[t] = "wait" /\ task[t] = "resolved"
    /\ \/ result[t] # "ok" /\ Goto(t, "raised") /\ UNCHANGED closed
       \/ result[t] = "ok" /\ t \notin Closers /\ Goto(t, "answered") /\ UNCHANGED closed
       \/ result[t] = "ok" /\ t \in Closers /\ Goto(t, "stop") /\ closed' = TRUE
    /\ UNCHANGED <<aclosed, tasks, loop>>

\* Mutated form: the loop is not told.
StopUntold(t) ==
    /\ pc[t] = "stop"
    /\ Goto(t, "join")
    /\ UNCHANGED <<client, tasks, loop>>

Stop(t) ==
    /\ pc[t] = "stop"
    /\ \/ call_soon_threadsafe(Handle("stop", None)) /\ Goto(t, "join")
       \/ phase = "closed" /\ Goto(t, "raised") /\ UNCHANGED loop
    /\ UNCHANGED <<client, tasks>>

\* join ends with the thread, or after five seconds.
Join(t) ==
    /\ pc[t] = "join"
    /\ Goto(t, "closed")
    /\ UNCHANGED <<client, tasks, loop>>

-----------------------------------------------------------------------------
(* The loop.  BaseEventLoop._run_once runs the callbacks that were there   *)
(* when it began.                                                          *)

Batch ==
    /\ phase \in {"running", "draining"} /\ todo = 0 /\ ~ stopping
    /\ ready # <<>>
    /\ todo' = Len(ready)
    /\ UNCHANGED <<client, pc, tasks, ready, stopping, phase, pending>>

\* What t's task awaits is there: an answer, a timeout, an error.
Wakeup(t) ==
    /\ phase \in {"running", "draining"} /\ todo = 0 /\ ~ stopping
    /\ task[t] = "suspended"
    /\ Become(t, "resumed")
    /\ ready' = Append(ready, Handle("step", t))
    /\ UNCHANGED <<client, pc, result, todo, stopping, phase, pending>>

\* Mutated form: the batch does not get shorter.
RunUncounted(run, t, more) ==
    /\ todo > 0
    /\ Head(ready) = Handle(run, t)
    /\ ready' = Tail(ready) \o more
    /\ UNCHANGED <<pc, closed, todo, phase, pending>>

\* The first callback of the batch runs, and puts more behind the others.
Run(run, t, more) ==
    /\ todo > 0
    /\ Head(ready) = Handle(run, t)
    /\ ready' = Tail(ready) \o more
    /\ todo' = todo - 1
    /\ UNCHANGED <<pc, closed, phase, pending>>

\* run_coroutine_threadsafe's callback makes the task.
Spawn(t) ==
    /\ Run("spawn", t, <<Handle("step", t)>>)
    /\ Become(t, "created")
    /\ UNCHANGED <<aclosed, result, stopping>>

\* A task cancelled before its first step does not take it.
StartsNow(t) == task[t] = "created" /\ t \notin pending

\* Mutated form: aclose() does not refuse what is submitted after it.
EnterUnchecked(t) ==
    /\ StartsNow(t)
    /\ ~ (aclosed /\ t \in Closers)
    /\ Run("step", t, <<>>)
    /\ Become(t, "suspended")
    /\ aclosed' = (aclosed \/ t \in Closers)
    /\ UNCHANGED <<result, stopping>>

\* _ensure_ready and aclose test AsyncPoolSwitchClient._closed, then suspend.
Enter(t) ==
    /\ StartsNow(t) /\ ~ aclosed
    /\ Run("step", t, <<>>)
    /\ Become(t, "suspended")
    /\ aclosed' = (t \in Closers)
    /\ UNCHANGED <<result, stopping>>

\* How the last step of t's task may end it.
Endings(t) ==
    IF t \in pending THEN {"cancelled"}
    ELSE IF task[t] = "created" THEN IF t \in Closers THEN {"ok"} ELSE {"error"}
    ELSE IF t \in Closers /\ ~ AcloseFails THEN {"ok"} ELSE {"ok", "error"}

\* The task ends: refused at its first step, cancelled, or with what it awaited.
Finish(t) ==
    /\ StartsNow(t) => aclosed
    /\ Run("step", t, <<Handle("resolve", t)>>)
    /\ Become(t, "finished")
    /\ \E o \in Endings(t) : result' = [result EXCEPT ![t] = o]
    /\ UNCHANGED <<aclosed, stopping>>

\* The last of the gathered tasks to be done stops the drain.
Gathered(t) ==
    IF t \in pending /\ \A u \in pending \ {t} : task[u] = "resolved"
    THEN <<Handle("stop", None)>> ELSE <<>>

\* The task's done callback sets the future the thread waits for.
Resolve(t) ==
    /\ Run("resolve", t, Gathered(t))
    /\ Become(t, "resolved")
    /\ UNCHANGED <<aclosed, result, stopping>>

RunStop ==
    /\ Run("stop", None, <<>>)
    /\ stopping' = TRUE
    /\ UNCHANGED <<aclosed, tasks>>

\* The orders in which a set of tasks may be gone through.
Orders(S) == {o \in [1..Cardinality(S) -> S] : \A t \in S : \E i \in DOMAIN o : o[i] = t}

\* Mutated form: the tasks are cancelled, nobody waits for them.
RunForeverEndsAtOnce ==
    /\ phase = "running" /\ todo = 0 /\ stopping
    /\ phase' = "closed" /\ stopping' = FALSE
    /\ pending' = {t \in Threads : task[t] \in Unended}
    /\ ready' = <<>>
    /\ UNCHANGED <<client, pc, tasks, todo>>

\* run_forever returns: the tasks there are cancelled, which schedules those
\* that are suspended, and gathered.  Callbacks left in the queue stay there.
RunForeverEnds ==
    /\ phase = "running" /\ todo = 0 /\ stopping
    /\ stopping' = FALSE
    /\ pending' = {t \in Threads : task[t] \in Unended}
    /\ task' = [t \in Threads |-> IF task[t] = "suspended" THEN "resumed" ELSE task[t]]
    /\ \/ /\ pending' # {}
          /\ phase' = "draining"
          /\ \E order \in Orders({t \in Threads : task[t] = "suspended"}) :
                ready' = ready \o [i \in DOMAIN order |-> Handle("step", order[i])]
       \/ /\ pending' = {}
          /\ phase' = "closed"
          /\ ready' = <<>>
    /\ UNCHANGED <<client, pc, result, todo>>

\* Mutated form: the loop is not closed.
DrainEndsOpen ==
    /\ phase = "draining" /\ todo = 0 /\ stopping
    /\ stopping' = FALSE
    /\ phase' = "dead"
    /\ UNCHANGED <<client, pc, tasks, ready, todo, pending>>

\* run_until_complete returns, and the loop is closed; or a second stop has
\* ended it too early: it raises, and the thread dies without closing the loop.
DrainEnds ==
    /\ phase = "draining" /\ todo = 0 /\ stopping
    /\ stopping' = FALSE
    /\ \/ /\ \A t \in pending : task[t] = "resolved"
          /\ phase' = "closed"
          /\ ready' = <<>>
       \/ /\ \E t \in pending : task[t] # "resolved"
          /\ phase' = "dead"
          /\ UNCHANGED ready
    /\ UNCHANGED <<client, pc, tasks, todo, pending>>

-----------------------------------------------------------------------------
Loop ==
    \/ Batch \/ RunStop \/ RunForeverEnds \/ DrainEnds
    \/ \E t \in Threads : Spawn(t) \/ Enter(t) \/ Finish(t) \/ Resolve(t)

Proceed(t) ==
    \/ _submit(t) \/ run_coroutine_threadsafe(t) \/ Result(t) \/ Stop(t) \/ Join(t)

Next ==
    \/ Loop
    \/ \E t \in Threads : Call(t) \/ Proceed(t) \/ Wakeup(t)

Spec == Init /\ [][Next]_vars

\* The loop's thread runs, what a task awaits comes or times out, and a thread
\* that has begun a call goes on with it.
Fairness ==
    /\ WF_vars(Loop)
    /\ \A t \in Threads : WF_vars(Wakeup(t)) /\ WF_vars(Proceed(t))

FairSpec == Spec /\ Fairness

-----------------------------------------------------------------------------
\* The type invariant.
TypeOK ==
    /\ closed \in BOOLEAN /\ aclosed \in BOOLEAN
    /\ pc \in [Threads -> Places]
    /\ task \in [Threads -> TaskStates]
    /\ result \in [Threads -> Outcomes \union {None}]
    /\ ready \in Seq(Handles)
    /\ todo \in 0..Len(ready)
    /\ stopping \in BOOLEAN
    /\ phase \in {"running", "draining", "closed", "dead"}
    /\ pending \in SUBSET Threads

\* Once close() has returned, no request starts: neither one that is still queued,
\* nor one of a thread that had passed the tests of _closed and puts its coroutine
\* in the queue only now (client.py:368-370, 401-404).
NothingStartsAfterClose ==
    [][ (\E c \in Closers : pc[c] = "closed") =>
          \A t \in Callers : task[t] = "created" => task'[t] # "suspended" ]_vars

\* The loop's thread dies with its loop open only where two threads have closed
\* the client at once, the second's stop falling into the drain after the first's
\* (client.py:357-360, 399-403).
DiesOnlyOfTwoCloses ==
    phase = "dead" => Cardinality({c \in Closers : pc[c] \in {"join", "closed"}}) >= 2

\* What is unfinished when the loop stops is cancelled and its caller is told,
\* whatever is queued behind the stop or put there during the drain, unless the
\* drain is cut short (client.py:357-362, 368-370).
UnfinishedCallsAnswered ==
    \A t \in Threads : t \in pending ~> pc[t] \in Returned \/ phase = "dead"

\* A call of close() returns or another has closed the client, and the loop ends
\* behind it: neither aclose, nor the drain, nor the coroutines that threads put
\* in the queue after _closed was set hold it up (client.py:368-370, 398-405).
CloseEnds ==
    /\ \A c \in Closers : pc[c] = "wait" ~> pc[c] \in Returned \/ closed
    /\ closed ~> phase \in {"closed", "dead"}

\* docs/architecture.md on the lifecycle of a request: "It returns the final
\* parsed result or final error."  No caller waits for ever.
EveryCallAnswered ==
    \A t \in Threads : pc[t] = "wait" ~> pc[t] \in Returned
=============================================================================
