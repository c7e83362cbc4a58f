-------------------------- MODULE SyncClientProofs ---------------------------
(***************************************************************************)
(* Proofs about the synchronous client, for any number of threads that     *)
(* call it and close it.                                                   *)
(***************************************************************************)
EXTENDS SyncClient, SequenceTheorems, FiniteSetTheorems, TLAPS

-----------------------------------------------------------------------------
(* The inductive invariant                                                 *)

\* A callback of the loop is there for the state its task is in.
Agrees(h, state) ==
    /\ h.run = "spawn" => state = "none"
    /\ h.run = "step" => state \in {"created", "resumed"}
    /\ h.run = "resolve" => state = "finished"

Unsubmitted == {"call", "submit", "append"}

Queued(t) == \E i \in DOMAIN ready : ready[i].of = t

\* A thread has at most one callback in the queue, and none before it submits.
HandlesSound ==
    /\ \A i \in DOMAIN ready : ready[i].of # None => Agrees(ready[i], task[ready[i].of])
    /\ \A i, j \in DOMAIN ready : ready[i].of = ready[j].of /\ ready[i].of # None => i = j
    /\ \A t \in Threads : pc[t] \in Unsubmitted => task[t] = "none" /\ ~ Queued(t)

\* What a close() has passed it has passed after aclose() began on the loop.
AcloseFirst ==
    /\ closed => aclosed
    /\ \A c \in Closers :
          task[c] \in {"suspended", "resumed"} \/ result[c] = "ok" \/ pc[c] \in {"stop", "join", "closed"}
            => aclosed

Behind(c)   == pc[c] \in {"join", "closed"}
TwoClosed   == \E c, d \in Closers : c # d /\ Behind(c) /\ Behind(d)
OneClosed   == \E c \in Closers : Behind(c)
IsStop(i)   == ready[i].run = "stop"
NoStop      == \A i \in DOMAIN ready : ~ IsStop(i)
OneStop     == \A i, j \in DOMAIN ready : IsStop(i) /\ IsStop(j) => i = j
AllResolved == \A t \in pending : task[t] = "resolved"

\* Each stop of the loop is one close()'s, but for that of a drain that is over.
StopsCounted ==
    /\ \A t \in Threads : pc[t] \in {"stop", "join", "closed"} => t \in Closers
    /\ phase = "running" =>
          /\ pending = {}
          /\ \/ TwoClosed
             \/ NoStop /\ ~ stopping
             \/ OneClosed /\ stopping /\ NoStop
             \/ OneClosed /\ ~ stopping /\ OneStop
    /\ phase = "draining" => TwoClosed \/ AllResolved \/ (OneClosed /\ NoStop /\ ~ stopping)
    /\ phase = "dead" => TwoClosed

SyncInvariant == TypeOK /\ HandlesSound /\ AcloseFirst /\ StopsCounted

-----------------------------------------------------------------------------
(* The queue                                                               *)

\* What is left of a sequence without its head, with at most one element more.
LEMMA TailMore ==
    ASSUME NEW s \in Seq(Handles), s # <<>>, NEW m \in Seq(Handles), Len(m) <= 1
    PROVE  /\ Tail(s) \o m \in Seq(Handles)
           /\ Len(Tail(s) \o m) = Len(s) - 1 + Len(m)
           /\ \A i \in 1 .. Len(s) - 1 + Len(m) :
                 \/ i + 1 \in DOMAIN s /\ (Tail(s) \o m)[i] = s[i + 1]
                 \/ i = Len(s) /\ Len(m) = 1 /\ (Tail(s) \o m)[i] = m[1]
<1> DEFINE u == Tail(s)
<1>1. /\ u \in Seq(Handles) /\ Len(u) = Len(s) - 1
      /\ \A i \in 1 .. Len(s) - 1 : u[i] = s[i + 1]
      /\ Len(s) \in Nat /\ Len(s) >= 1
      /\ DOMAIN s = 1 .. Len(s)
  OBVIOUS
<1>0. Len(m) \in {0, 1}
  <2>1. Len(m) \in Nat /\ Len(m) <= 1
    OBVIOUS
  <2>2. \A n \in Nat : n <= 1 => n \in {0, 1}
    OBVIOUS
  <2> QED
    BY <2>1, <2>2
<1> HIDE DEF u
<1>2. /\ u \o m \in Seq(Handles) /\ Len(u \o m) = Len(u) + Len(m)
      /\ \A i \in 1 .. Len(u) + Len(m) :
            (u \o m)[i] = IF i <= Len(u) THEN u[i] ELSE m[i - Len(u)]
  BY <1>1
<1>3. ASSUME NEW i \in 1 .. Len(s) - 1 + Len(m)
      PROVE  \/ i + 1 \in DOMAIN s /\ (u \o m)[i] = s[i + 1]
             \/ i = Len(s) /\ Len(m) = 1 /\ (u \o m)[i] = m[1]
  <2>1. i \in 1 .. Len(u) + Len(m)
    BY <1>1
  <2>2. CASE i <= Len(u)
    <3>1. (u \o m)[i] = u[i]
      BY ONLY <1>2, <2>1, <2>2
    <3>2. i \in 1 .. Len(s) - 1 /\ i + 1 \in 1 .. Len(s)
      BY <1>1, <2>1, <2>2
    <3>3. u[i] = s[i + 1]
      BY <1>1, <3>2
    <3> QED
      BY <1>1, <3>1, <3>2, <3>3
  <2>3. CASE ~ (i <= Len(u))
    <3> DEFINE a == Len(s)
               b == Len(m)
    <3>0. a \in Nat /\ b \in {0, 1} /\ Len(u) = a - 1 /\ i \in 1 .. a - 1 + b
      BY <1>0, <1>1, <2>1
    <3> HIDE DEF a, b
    <3>1. i = a /\ b = 1 /\ i - Len(u) = 1
      BY ONLY <3>0, <2>3
    <3>2. (u \o m)[i] = m[i - Len(u)]
      BY <1>2, <2>1, <2>3
    <3> QED
      BY <3>1, <3>2 DEF a, b
  <2> QED
    BY <2>2, <2>3
<1> QED
  BY <1>1, <1>2, <1>3 DEF u

\* A callback that runs leaves the queue, and puts at most one more behind the rest.
LEMMA RunIs ==
    ASSUME TypeOK, NEW run, NEW t, NEW more \in Seq(Handles), Len(more) <= 1, Run(run, t, more)
    PROVE  /\ DOMAIN ready = 1 .. Len(ready) /\ Len(ready) \in Nat /\ 1 \in DOMAIN ready
           /\ ready[1] = Handle(run, t)
           /\ ready' \in Seq(Handles) /\ todo' \in 0 .. Len(ready')
           /\ DOMAIN ready' = 1 .. Len(ready) - 1 + Len(more)
           /\ \A i \in DOMAIN ready' :
                 \/ i + 1 \in DOMAIN ready /\ ready'[i] = ready[i + 1]
                 \/ i = Len(ready) /\ Len(more) = 1 /\ ready'[i] = more[1]
<1>1. /\ ready \in Seq(Handles) /\ todo \in 0 .. Len(ready) /\ todo > 0
      /\ todo' = todo - 1 /\ Head(ready) = Handle(run, t) /\ ready' = Tail(ready) \o more
  BY DEF TypeOK, Run
<1>2. Len(ready) \in Nat /\ Len(more) \in Nat /\ ready # <<>> /\ DOMAIN ready = 1 .. Len(ready)
      /\ todo \in Nat /\ todo <= Len(ready)
  BY <1>1
<1>3. 1 \in DOMAIN ready /\ ready[1] = Handle(run, t)
  BY <1>1, <1>2
<1> DEFINE r == Tail(ready) \o more
<1>4. /\ r \in Seq(Handles)
      /\ Len(r) = Len(ready) - 1 + Len(more)
      /\ \A i \in 1 .. Len(ready) - 1 + Len(more) :
            \/ i + 1 \in DOMAIN ready /\ r[i] = ready[i + 1]
            \/ i = Len(ready) /\ Len(more) = 1 /\ r[i] = more[1]
  <2>1. more \in Seq(Handles) /\ Len(more) <= 1
    OBVIOUS
  <2> QED
    BY <1>1, <1>2, <2>1, TailMore, Zenon
<1>5. ready' = r
  BY <1>1
<1> HIDE DEF r
<1>6. DOMAIN r = 1 .. Len(ready) - 1 + Len(more)
  BY <1>4
<1>7. todo' \in 0 .. Len(r)
  <2>1. todo' = todo - 1 /\ todo > 0 /\ Len(r) = Len(ready) - 1 + Len(more)
    BY <1>1, <1>4
  <2> QED
    BY ONLY <1>2, <2>1
<1> QED
  BY ONLY <1>2, <1>3, <1>4, <1>5, <1>6, <1>7

\* One that is appended is the last.
LEMMA AppendIs ==
    ASSUME TypeOK, NEW h \in Handles, ready' = Append(ready, h)
    PROVE  /\ DOMAIN ready = 1 .. Len(ready) /\ Len(ready) \in Nat
           /\ ready' \in Seq(Handles) /\ Len(ready') = Len(ready) + 1
           /\ DOMAIN ready' = 1 .. Len(ready) + 1
           /\ \A i \in DOMAIN ready : ready'[i] = ready[i]
           /\ ready'[Len(ready) + 1] = h
  BY DEF TypeOK

LEMMA HandleIs ==
    /\ \A t \in Threads : t # None
    /\ \A run, t : Handle(run, t).run = run /\ Handle(run, t).of = t
    /\ \A t \in Threads, run \in {"spawn", "step", "resolve"} : Handle(run, t) \in Handles
    /\ Handle("stop", None) \in Handles
    /\ \A h \in Handles : /\ h.of # None => h.of \in Threads /\ h.run # "stop"
                          /\ h.of = None => h.run = "stop"
  BY ClientAssumption DEF Handle, Handles

-----------------------------------------------------------------------------
(* One callback for each thread                                            *)

LEMMA RunSound ==
    ASSUME TypeOK, HandlesSound, NEW run, NEW t, NEW more \in Seq(Handles), Len(more) <= 1,
           Run(run, t, more),
           \A u \in Threads \ {t} : task'[u] = task[u],
           Len(more) = 1 => \/ more[1].of = None
                            \/ more[1].of = t /\ Agrees(more[1], task'[t])
    PROVE  HandlesSound'
<1>1. /\ DOMAIN ready = 1 .. Len(ready) /\ Len(ready) \in Nat /\ 1 \in DOMAIN ready
      /\ ready[1].of = t
      /\ DOMAIN ready' = 1 .. Len(ready) - 1 + Len(more)
  BY RunIs, HandleIs
<1>2. \A i \in DOMAIN ready' : \/ i + 1 \in DOMAIN ready /\ ready'[i] = ready[i + 1]
                               \/ i = Len(ready) /\ Len(more) = 1 /\ ready'[i] = more[1]
  BY RunIs
<1>3. \A i \in DOMAIN ready : ready[i].of # None => ready[i].of \in Threads
  BY HandleIs DEF TypeOK
<1>4. \A i \in DOMAIN ready' : i \in Nat /\ i >= 1
  BY <1>1
<1>5. \A i \in DOMAIN ready : i # 1 /\ ready[i].of # None => ready[i].of # t
  BY <1>1 DEF HandlesSound
<1>6. ASSUME NEW i \in DOMAIN ready', ready'[i].of # None
      PROVE  Agrees(ready'[i], task'[ready'[i].of])
  <2>1. CASE i + 1 \in DOMAIN ready /\ ready'[i] = ready[i + 1]
    <3>1. i + 1 # 1
      BY <1>4
    <3>2. ready[i + 1].of \in Threads \ {t} /\ Agrees(ready[i + 1], task[ready[i + 1].of])
      BY <1>3, <1>5, <1>6, <2>1, <3>1 DEF HandlesSound
    <3> QED
      BY <2>1, <3>2
  <2>2. CASE Len(more) = 1 /\ ready'[i] = more[1]
    BY <1>6, <2>2
  <2> QED
    BY <1>2, <2>1, <2>2
<1>7. ASSUME NEW i \in DOMAIN ready', NEW j \in DOMAIN ready',
             ready'[i].of = ready'[j].of, ready'[i].of # None
      PROVE  i = j
  <2>1. CASE i + 1 \in DOMAIN ready /\ ready'[i] = ready[i + 1]
    <3>1. ready'[i].of # t
      BY <1>4, <1>5, <1>7, <2>1
    <3>2. j + 1 \in DOMAIN ready /\ ready'[j] = ready[j + 1]
      BY <1>2, <1>7, <3>1
    <3>3. i + 1 = j + 1
      BY <1>7, <2>1, <3>2 DEF HandlesSound
    <3> QED
      BY <1>4, <3>3
  <2>2. CASE i = Len(ready) /\ Len(more) = 1 /\ ready'[i] = more[1]
    <3>1. ready'[j].of = t
      BY <1>7, <2>2
    <3>2. ~ (j + 1 \in DOMAIN ready /\ ready'[j] = ready[j + 1])
      BY <1>4, <1>5, <1>7, <3>1
    <3>3. j = Len(ready)
      BY <1>2, <3>2
    <3> QED
      BY <2>2, <3>3
  <2> QED
    BY <1>2, <2>1, <2>2
<1>8. ASSUME NEW u \in Threads, pc'[u] \in Unsubmitted
      PROVE  task'[u] = "none" /\ ~ Queued(u)'
  <2>1. pc[u] \in Unsubmitted
    BY <1>8 DEF Run
  <2>2. task[u] = "none" /\ \A i \in DOMAIN ready : ready[i].of # u
    BY <2>1 DEF HandlesSound, Queued
  <2>3. u # t /\ u # None
    BY <1>1, <2>2, HandleIs
  <2>4. \A i \in DOMAIN ready' : ready'[i].of # u
    BY <1>2, <2>2, <2>3
  <2> QED
    BY <2>2, <2>3, <2>4 DEF Queued
<1> QED
  BY <1>6, <1>7, <1>8 DEF HandlesSound

\* A callback is put at the end for a thread that has none.
LEMMA AppendSound ==
    ASSUME TypeOK, HandlesSound, NEW h \in Handles, ready' = Append(ready, h),
           \A u \in Threads : task'[u] = task[u] \/ (u = h.of /\ h.of # None),
           h.of # None => ~ Queued(h.of) /\ Agrees(h, task'[h.of]),
           \A u \in Threads : pc'[u] \in Unsubmitted =>
              pc[u] \in Unsubmitted /\ u # h.of
    PROVE  HandlesSound'
<1>1. /\ DOMAIN ready = 1 .. Len(ready) /\ Len(ready) \in Nat
      /\ DOMAIN ready' = 1 .. Len(ready) + 1
      /\ \A i \in DOMAIN ready : ready'[i] = ready[i]
      /\ ready'[Len(ready) + 1] = h
  BY AppendIs
<1>2. \A i \in DOMAIN ready' : \/ i \in DOMAIN ready /\ ready'[i] = ready[i]
                               \/ i = Len(ready) + 1 /\ ready'[i] = h
  BY <1>1
<1>3. \A i \in DOMAIN ready : ready[i].of # None => ready[i].of \in Threads /\ ready[i].of # h.of
  BY HandleIs DEF TypeOK, Queued
<1>4. \A i \in DOMAIN ready' : ready'[i].of # None => Agrees(ready'[i], task'[ready'[i].of])
  BY <1>2, <1>3 DEF HandlesSound
<1>5. ASSUME NEW i \in DOMAIN ready', NEW j \in DOMAIN ready',
             ready'[i].of = ready'[j].of, ready'[i].of # None
      PROVE  i = j
  BY <1>2, <1>3, <1>5 DEF HandlesSound
<1>6. ASSUME NEW u \in Threads, pc'[u] \in Unsubmitted
      PROVE  task'[u] = "none" /\ ~ Queued(u)'
  BY <1>2, <1>6 DEF HandlesSound, Queued
<1> QED
  BY <1>4, <1>5, <1>6 DEF HandlesSound

\* An order goes through each of the tasks once.
LEMMA OrderIs ==
    ASSUME NEW S \in SUBSET Threads, NEW order \in Orders(S)
    PROVE  /\ Cardinality(S) \in Nat
           /\ order \in [1 .. Cardinality(S) -> S]
           /\ \A i, j \in 1 .. Cardinality(S) : order[i] = order[j] => i = j
<1> DEFINE n == Cardinality(S)
<1>1. IsFiniteSet(S)
  BY ClientAssumption, FS_Subset
<1>2. n \in Nat
  BY <1>1, FS_CardinalityType
<1>3. order \in [1 .. n -> S] /\ \A t \in S : \E i \in 1 .. n : order[i] = t
  BY DEF Orders
<1> HIDE DEF n
<1>4. order \in Surjection(1 .. n, S)
  BY <1>3 DEF Surjection
<1>5. IsFiniteSet(1 .. n) /\ Cardinality(1 .. n) = n
  BY <1>2, FS_Interval
<1>6. order \in Injection(1 .. n, S)
  BY <1>4, <1>5, FS_SurjSameCardinalityImpliesInj DEF n
<1>7. \A i, j \in 1 .. n : order[i] = order[j] => i = j
  BY <1>6 DEF Injection, IsInjective
<1> QED
  BY <1>2, <1>3, <1>7 DEF n

\* The cancelled tasks that were suspended are scheduled behind what is queued.
LEMMA ScheduleSound ==
    ASSUME TypeOK, HandlesSound,
           NEW S, S = {t \in Threads : task[t] = "suspended"}, NEW order \in Orders(S),
           ready' = ready \o [i \in DOMAIN order |-> Handle("step", order[i])],
           task' = [t \in Threads |-> IF task[t] = "suspended" THEN "resumed" ELSE task[t]],
           pc' = pc
    PROVE  HandlesSound' /\ ready' \in Seq(Handles)
<1> DEFINE n == Cardinality(S)
           m == [i \in DOMAIN order |-> Handle("step", order[i])]
           L == Len(ready)
<1>1. /\ n \in Nat /\ order \in [1 .. n -> S] /\ S \subseteq Threads
      /\ \A i, j \in 1 .. n : order[i] = order[j] => i = j
  BY OrderIs
<1>2. m \in Seq(Handles) /\ Len(m) = n /\ \A i \in 1 .. n : m[i] = Handle("step", order[i])
  <2>1. DOMAIN order = 1 .. n /\ \A i \in 1 .. n : Handle("step", order[i]) \in Handles
    BY <1>1, HandleIs
  <2> HIDE DEF n
  <2> QED
    BY <1>1, <2>1
<1>3. ready \in Seq(Handles) /\ L \in Nat /\ DOMAIN ready = 1 .. L
  BY DEF TypeOK
<1> HIDE DEF m, n
<1>4. ready' = ready \o m
  BY DEF m
<1>5. /\ ready' \in Seq(Handles) /\ Len(ready') = L + n
      /\ \A i \in 1 .. L + n : ready'[i] = IF i <= L THEN ready[i] ELSE m[i - L]
  <2>1. /\ ready \o m \in Seq(Handles) /\ Len(ready \o m) = Len(ready) + Len(m)
        /\ \A i \in 1 .. Len(ready) + Len(m) :
              (ready \o m)[i] = IF i <= Len(ready) THEN ready[i] ELSE m[i - Len(ready)]
    BY <1>2, <1>3, ConcatProperties
  <2> QED
    BY <1>2, <1>4, <2>1
<1>6. DOMAIN ready' = 1 .. L + n
  BY <1>1, <1>3, <1>5
<1> HIDE DEF L
<1>7. ASSUME NEW i \in DOMAIN ready'
      PROVE  \/ i \in DOMAIN ready /\ ready'[i] = ready[i]
             \/ i - L \in 1 .. n /\ ready'[i] = Handle("step", order[i - L]) /\ order[i - L] \in S
  <2>1. CASE i <= L
    BY <1>3, <1>5, <1>6, <2>1
  <2>2. CASE ~ (i <= L)
    <3>1. i - L \in 1 .. n
      BY <1>1, <1>3, <1>6, <2>2
    <3>2. ready'[i] = m[i - L]
      BY <1>5, <1>6, <2>2
    <3> QED
      BY <1>1, <1>2, <3>1, <3>2
  <2> QED
    BY <2>1, <2>2
<1>8. \A i \in DOMAIN ready : ready[i].of \notin S /\ (ready[i].of # None => ready[i].of \in Threads)
  <2> TAKE i \in DOMAIN ready
  <2>1. ready[i] \in Handles
    BY DEF TypeOK
  <2>2. CASE ready[i].of = None
    BY <1>1, <2>2, HandleIs
  <2>3. CASE ready[i].of # None
    <3>1. Agrees(ready[i], task[ready[i].of]) /\ ready[i].of \in Threads
      BY <2>1, <2>3, HandleIs DEF HandlesSound
    <3>2. ready[i].run \in {"spawn", "step", "resolve"}
      BY <2>1, <2>3, HandleIs DEF Handles
    <3>3. task[ready[i].of] # "suspended"
      BY <3>1, <3>2 DEF Agrees
    <3> QED
      BY <3>1, <3>3
  <2> QED
    BY <2>2, <2>3
<1>9. \A t \in Threads : /\ t \in S => task'[t] = "resumed"
                         /\ t \notin S => task'[t] = task[t]
  OBVIOUS
<1>10. ASSUME NEW i \in DOMAIN ready', ready'[i].of # None
       PROVE  Agrees(ready'[i], task'[ready'[i].of])
  <2>1. CASE i \in DOMAIN ready /\ ready'[i] = ready[i]
    BY <1>8, <1>9, <1>10, <2>1 DEF HandlesSound
  <2>2. CASE ready'[i] = Handle("step", order[i - L]) /\ order[i - L] \in S
    <3>1. ready'[i].run = "step" /\ task'[ready'[i].of] = "resumed"
      BY <1>1, <1>9, <2>2, HandleIs
    <3> QED
      BY <3>1 DEF Agrees
  <2> QED
    BY <1>7, <2>1, <2>2
<1>11. ASSUME NEW i \in DOMAIN ready', NEW j \in DOMAIN ready',
              ready'[i].of = ready'[j].of, ready'[i].of # None
       PROVE  i = j
  <2>1. CASE i \in DOMAIN ready /\ ready'[i] = ready[i]
    <3>1. ready'[j].of \notin S
      BY <1>8, <1>11, <2>1
    <3>2. j \in DOMAIN ready /\ ready'[j] = ready[j]
      <4>1. ASSUME ready'[j] = Handle("step", order[j - L]), order[j - L] \in S PROVE FALSE
        BY <3>1, <4>1, HandleIs
      <4> QED
        BY <1>7, <4>1
    <3> QED
      BY <1>11, <2>1, <3>2 DEF HandlesSound
  <2>2. CASE i - L \in 1 .. n /\ ready'[i] = Handle("step", order[i - L]) /\ order[i - L] \in S
    <3>1. ready'[i].of = order[i - L]
      BY <2>2, HandleIs
    <3>2. j - L \in 1 .. n /\ ready'[j] = Handle("step", order[j - L])
      BY <1>7, <1>8, <1>11, <2>2, <3>1
    <3>3. i - L = j - L
      BY <1>1, <1>11, <2>2, <3>1, <3>2, HandleIs
    <3> QED
      BY <1>3, <1>6, <3>3
  <2> QED
    BY <1>7, <2>1, <2>2
<1>12. ASSUME NEW u \in Threads, pc'[u] \in Unsubmitted
       PROVE  task'[u] = "none" /\ ~ Queued(u)'
  <2>1. task[u] = "none" /\ ~ Queued(u) /\ u \notin S
    BY <1>12 DEF HandlesSound
  <2>2. ASSUME NEW i \in DOMAIN ready' PROVE ready'[i].of # u
    <3>1. CASE i \in DOMAIN ready /\ ready'[i] = ready[i]
      BY <2>1, <3>1 DEF Queued
    <3>2. CASE ready'[i] = Handle("step", order[i - L]) /\ order[i - L] \in S
      <4>1. ready'[i].of = order[i - L]
        BY <3>2, HandleIs
      <4> QED
        BY <2>1, <3>2, <4>1
    <3> QED
      BY <1>7, <3>1, <3>2
  <2> QED
    BY <1>9, <2>1, <2>2 DEF Queued
<1> QED
  BY <1>5, <1>10, <1>11, <1>12 DEF HandlesSound

-----------------------------------------------------------------------------
(* Types                                                                   *)

Typed == TypeOK /\ HandlesSound

LEMMA InitTyped == Init => Typed
<1> SUFFICES ASSUME Init PROVE Typed
  OBVIOUS
<1> USE DEF Init
<1>1. Maker \in Threads
  BY DEF Threads
<1>2. ready \in Seq(Handles) /\ Len(ready) = 1 /\ ready[1] = Handle("spawn", Maker)
  BY <1>1, HandleIs
<1>3. TypeOK
  <2>1. pc \in [Threads -> Places] /\ task \in [Threads -> TaskStates]
        /\ result \in [Threads -> Outcomes \union {None}]
    BY DEF Places, TaskStates
  <2>2. todo \in 0 .. Len(ready)
    BY <1>2
  <2> QED
    BY <1>2, <2>1, <2>2 DEF TypeOK
<1>4. DOMAIN ready = {1}
  BY <1>2
<1>5. HandlesSound
  BY <1>1, <1>2, <1>4, HandleIs DEF Unsubmitted, HandlesSound, Agrees, Queued
<1> QED
  BY <1>3, <1>5 DEF Typed

\* What the threads do.
LEMMA ThreadTyped ==
    ASSUME Typed, NEW t \in Threads, Call(t) \/ Proceed(t)
    PROVE  Typed'
<1> USE DEF Typed, Goto, Unsubmitted
<1>1. TypeOK /\ t # None
  BY HandleIs
<1>2. CASE Call(t) \/ Result(t) \/ Join(t) \/ _submit(t)
           \/ (run_coroutine_threadsafe(t) /\ UNCHANGED loop) \/ (Stop(t) /\ UNCHANGED loop)
  <2>1. UNCHANGED <<aclosed, task, result, ready, todo, stopping, phase, pending>>
    BY <1>2 DEF Call, Result, Join, _submit, run_coroutine_threadsafe, Stop, client, tasks, loop
  <2>2. closed' \in BOOLEAN /\ pc' \in [Threads -> Places]
    BY <1>1, <1>2 DEF TypeOK, Places, Returned, Call, Result, Join, _submit, run_coroutine_threadsafe,
       Stop, client
  <2>3. TypeOK'
    BY <1>1, <2>1, <2>2 DEF TypeOK
  <2>4. \A u \in Threads : pc'[u] \in Unsubmitted => pc[u] \in Unsubmitted
    BY <1>1, <1>2 DEF TypeOK, Call, Result, Join, _submit, run_coroutine_threadsafe, Stop
  <2> QED
    BY <2>1, <2>3, <2>4 DEF HandlesSound, Queued
<1>3. CASE /\ run_coroutine_threadsafe(t)
           /\ call_soon_threadsafe(Handle("spawn", t)) /\ Goto(t, "wait")
  <2> DEFINE h == Handle("spawn", t)
  <2>1. h \in Handles /\ h.of = t /\ h.run = "spawn" /\ ready' = Append(ready, h)
    BY <1>3, HandleIs DEF call_soon_threadsafe
  <2> HIDE DEF h
  <2>2. pc[t] = "append" /\ pc' = [pc EXCEPT ![t] = "wait"]
        /\ UNCHANGED <<closed, aclosed, task, result, todo, stopping, phase, pending>>
    BY <1>3 DEF run_coroutine_threadsafe, call_soon_threadsafe, client, tasks
  <2>3. ~ Queued(t) /\ task[t] = "none"
    BY <2>2 DEF HandlesSound
  <2>4. pc' \in [Threads -> Places]
    BY <1>1, <2>2 DEF TypeOK, Places
  <2>5. ready' \in Seq(Handles) /\ Len(ready') = Len(ready) + 1 /\ Len(ready) \in Nat
    BY <2>1, AppendIs
  <2>6. TypeOK'
    BY <1>1, <2>2, <2>4, <2>5 DEF TypeOK
  <2>7. \A u \in Threads : pc'[u] \in Unsubmitted =>
           pc[u] \in Unsubmitted /\ u # h.of
    BY <1>1, <2>1, <2>2 DEF TypeOK
  <2>8. HandlesSound'
    BY <1>1, <2>1, <2>2, <2>3, <2>7, AppendSound DEF Agrees
  <2> QED
    BY <2>6, <2>8
<1>4. CASE Stop(t) /\ call_soon_threadsafe(Handle("stop", None)) /\ Goto(t, "join")
  <2> DEFINE h == Handle("stop", None)
  <2>1. h \in Handles /\ h.of = None /\ ready' = Append(ready, h)
    BY <1>4, HandleIs DEF call_soon_threadsafe
  <2> HIDE DEF h
  <2>2. pc[t] = "stop" /\ pc' = [pc EXCEPT ![t] = "join"]
        /\ UNCHANGED <<closed, aclosed, task, result, todo, stopping, phase, pending>>
    BY <1>4 DEF Stop, call_soon_threadsafe, client, tasks
  <2>3. pc' \in [Threads -> Places]
    BY <1>1, <2>2 DEF TypeOK, Places
  <2>4. ready' \in Seq(Handles) /\ Len(ready') = Len(ready) + 1 /\ Len(ready) \in Nat
    BY <2>1, AppendIs
  <2>5. TypeOK'
    BY <1>1, <2>2, <2>3, <2>4 DEF TypeOK
  <2>6. \A u \in Threads : pc'[u] \in Unsubmitted =>
           pc[u] \in Unsubmitted /\ u # h.of
    BY <1>1, <2>1, <2>2, HandleIs DEF TypeOK
  <2>7. HandlesSound'
    BY <1>1, <2>1, <2>2, <2>6, AppendSound
  <2> QED
    BY <2>5, <2>7
<1> QED
  BY <1>2, <1>3, <1>4 DEF Proceed, _submit, run_coroutine_threadsafe, Stop

\* What the loop does between batches.
LEMMA BetweenTyped ==
    ASSUME Typed, Batch \/ RunForeverEnds \/ DrainEnds
    PROVE  Typed'
<1> USE DEF Typed
<1>1. ready \in Seq(Handles) /\ Len(ready) \in Nat
  BY DEF TypeOK
<1>2. <<>> \in Seq(Handles) /\ Len(<<>>) = 0 /\ DOMAIN <<>> = {}
  OBVIOUS
<1>3. pc' = pc
  BY DEF Batch, RunForeverEnds, DrainEnds
<1>4. ASSUME ready' = <<>>, \A u \in Threads : task'[u] = task[u] \/ task[u] # "none"
      PROVE  HandlesSound'
  <2>1. DOMAIN ready' = {}
    BY <1>2, <1>4
  <2> QED
    BY <1>3, <1>4, <2>1 DEF HandlesSound, Queued
<1>5. CASE Batch
  <2>1. UNCHANGED <<closed, aclosed, pc, task, result, ready, stopping, phase, pending>>
        /\ todo' = Len(ready)
    BY <1>5 DEF Batch, client, tasks
  <2>2. todo' \in 0 .. Len(ready')
    BY <1>1, <2>1
  <2> QED
    BY <2>1, <2>2 DEF TypeOK, HandlesSound, Queued
<1>6. CASE DrainEnds
  <2>1. HandlesSound'
    BY <1>4, <1>6 DEF DrainEnds, tasks, HandlesSound, Queued
  <2>2. /\ UNCHANGED <<closed, aclosed, pc, task, result, todo, pending>> /\ todo = 0
        /\ stopping' = FALSE /\ phase' \in {"closed", "dead"}
        /\ ready' = ready \/ ready' = <<>>
    BY <1>6 DEF DrainEnds, client, tasks
  <2>3. ready' \in Seq(Handles) /\ Len(ready') \in Nat
    BY <1>1, <1>2, <2>2
  <2>4. todo' \in 0 .. Len(ready')
    BY <2>2, <2>3
  <2> QED
    BY <2>1, <2>2, <2>3, <2>4 DEF TypeOK
<1>7. CASE RunForeverEnds
  <2>1. /\ UNCHANGED <<closed, aclosed, pc, result, todo>> /\ todo = 0 /\ stopping' = FALSE
        /\ pending' \in SUBSET Threads
        /\ phase' \in {"running", "draining", "closed", "dead"}
    BY <1>7 DEF RunForeverEnds, client
  <2>2. task' = [t \in Threads |-> IF task[t] = "suspended" THEN "resumed" ELSE task[t]]
    BY <1>7 DEF RunForeverEnds
  <2>3. task' \in [Threads -> TaskStates]
    BY <2>2 DEF TypeOK, TaskStates, Unended
  <2>4. CASE ready' = <<>>
    <3>1. HandlesSound'
      BY <1>4, <2>2, <2>4
    <3>2. ready' \in Seq(Handles) /\ todo' \in 0 .. Len(ready')
      BY <1>2, <2>1, <2>4
    <3> QED
      BY <2>1, <2>3, <3>1, <3>2 DEF TypeOK
  <2>5. CASE ready' # <<>>
    <3>1. PICK order \in Orders({t \in Threads : task[t] = "suspended"}) :
            ready' = ready \o [i \in DOMAIN order |-> Handle("step", order[i])]
      BY <1>7, <2>5 DEF RunForeverEnds
    <3>2. HandlesSound' /\ ready' \in Seq(Handles)
      BY <1>3, <2>2, <3>1, ScheduleSound
    <3>3. Len(ready') \in Nat
      BY <3>2
    <3>4. todo' \in 0 .. Len(ready')
      BY <2>1, <3>3
    <3> QED
      BY <2>1, <2>3, <3>2, <3>4 DEF TypeOK
  <2> QED
    BY <2>4, <2>5
<1> QED
  BY <1>5, <1>6, <1>7

\* The queue and the task of a callback that runs.
LEMMA RunTyped ==
    ASSUME Typed, NEW run, NEW t, NEW more \in Seq(Handles), Len(more) <= 1, Run(run, t, more),
           task' \in [Threads -> TaskStates],
           \A u \in Threads \ {t} : task'[u] = task[u],
           Len(more) = 1 => \/ more[1].of = None
                            \/ more[1].of = t /\ Agrees(more[1], task'[t]),
           result' \in [Threads -> Outcomes \union {None}],
           aclosed' \in BOOLEAN, stopping' \in BOOLEAN
    PROVE  Typed'
<1>1. HandlesSound'
  BY RunSound DEF Typed
<1>2. ready' \in Seq(Handles) /\ todo' \in 0 .. Len(ready')
  BY RunIs DEF Typed
<1>3. UNCHANGED <<closed, pc, phase, pending>>
  BY DEF Run
<1> QED
  BY <1>1, <1>2, <1>3 DEF Typed, TypeOK

LEMMA One ==
    /\ \A h \in Handles : <<h>> \in Seq(Handles) /\ Len(<<h>>) = 1 /\ <<h>>[1] = h
    /\ <<>> \in Seq(Handles) /\ Len(<<>>) = 0
  OBVIOUS

LEMMA CallbackTyped ==
    ASSUME Typed, NEW t \in Threads, Spawn(t) \/ Enter(t) \/ Finish(t) \/ Resolve(t)
    PROVE  Typed'
<1> USE DEF Become
<1>1. task \in [Threads -> TaskStates] /\ result \in [Threads -> Outcomes \union {None}]
      /\ aclosed \in BOOLEAN /\ stopping \in BOOLEAN
  BY DEF Typed, TypeOK
<1>2. \A r \in {"spawn", "step", "resolve"} :
         LET h == Handle(r, t) IN h \in Handles /\ h.run = r /\ h.of = t
  BY HandleIs
<1>3. CASE Spawn(t)
  <2> DEFINE more == <<Handle("step", t)>>
  <2>1. Handle("step", t) \in Handles /\ Agrees(Handle("step", t), "created")
        /\ Handle("step", t).of = t
    BY <1>2 DEF Agrees
  <2>2. /\ Run("spawn", t, more) /\ task' = [task EXCEPT ![t] = "created"]
        /\ aclosed' = aclosed /\ result' = result /\ stopping' = stopping
    BY <1>3 DEF Spawn
  <2>3. task' \in [Threads -> TaskStates] /\ task'[t] = "created"
        /\ \A u \in Threads \ {t} : task'[u] = task[u]
    BY <1>1, <2>2 DEF TaskStates, Unended
  <2>7. more \in Seq(Handles) /\ Len(more) <= 1 /\ (Len(more) = 1 => more[1] = Handle("step", t))
    BY <2>1, One
  <2> HIDE DEF more
  <2> QED
    BY <1>1, <2>1, <2>7, <2>2, <2>3, RunTyped
<1>4. CASE Enter(t)
  <2> DEFINE more == <<>>
  <2>1. /\ Run("step", t, more) /\ task' = [task EXCEPT ![t] = "suspended"]
        /\ aclosed' \in BOOLEAN /\ result' = result /\ stopping' = stopping
    BY <1>4 DEF Enter
  <2>2. task' \in [Threads -> TaskStates] /\ \A u \in Threads \ {t} : task'[u] = task[u]
    BY <1>1, <2>1 DEF TaskStates, Unended
  <2>7. more \in Seq(Handles) /\ Len(more) <= 1 /\ Len(more) # 1
    BY <2>1, One
  <2> HIDE DEF more
  <2> QED
    BY <1>1, <2>1, <2>7, <2>2, RunTyped
<1>5. CASE Finish(t)
  <2> DEFINE more == <<Handle("resolve", t)>>
  <2>1. Handle("resolve", t) \in Handles /\ Agrees(Handle("resolve", t), "finished")
        /\ Handle("resolve", t).of = t
    BY <1>2 DEF Agrees
  <2>2. /\ Run("step", t, more) /\ task' = [task EXCEPT ![t] = "finished"]
        /\ aclosed' = aclosed /\ stopping' = stopping
    BY <1>5 DEF Finish
  <2>3. task' \in [Threads -> TaskStates] /\ task'[t] = "finished"
        /\ \A u \in Threads \ {t} : task'[u] = task[u]
    BY <1>1, <2>2 DEF TaskStates, Unended
  <2>4. PICK o \in Endings(t) : result' = [result EXCEPT ![t] = o]
    BY <1>5 DEF Finish
  <2>5. o \in Outcomes
    BY <2>4 DEF Endings, Outcomes
  <2>6. result' \in [Threads -> Outcomes \union {None}]
    BY <1>1, <2>4, <2>5
  <2>7. more \in Seq(Handles) /\ Len(more) <= 1 /\ (Len(more) = 1 => more[1] = Handle("resolve", t))
    BY <2>1, One
  <2> HIDE DEF more
  <2> QED
    BY <1>1, <2>1, <2>7, <2>2, <2>3, <2>6, RunTyped
<1>6. CASE Resolve(t)
  <2> DEFINE more == Gathered(t)
  <2>1. /\ Run("resolve", t, more) /\ task' = [task EXCEPT ![t] = "resolved"]
        /\ aclosed' = aclosed /\ result' = result /\ stopping' = stopping
    BY <1>6 DEF Resolve
  <2>2. more \in Seq(Handles) /\ Len(more) <= 1 /\ (Len(more) = 1 => more[1].of = None)
    BY One, HandleIs DEF Gathered
  <2>3. task' \in [Threads -> TaskStates] /\ \A u \in Threads \ {t} : task'[u] = task[u]
    BY <1>1, <2>1 DEF TaskStates
  <2> HIDE DEF more
  <2> QED
    BY <1>1, <2>1, <2>2, <2>3, RunTyped
<1> QED
  BY <1>3, <1>4, <1>5, <1>6

LEMMA StopTyped == ASSUME Typed, RunStop PROVE Typed'
<1>1. Run("stop", None, <<>>) /\ stopping' = TRUE /\ UNCHANGED <<aclosed, task, result>>
  BY DEF RunStop, tasks
<1>2. task' \in [Threads -> TaskStates] /\ result' \in [Threads -> Outcomes \union {None}]
      /\ aclosed' \in BOOLEAN
  BY <1>1 DEF Typed, TypeOK
<1> DEFINE more == <<>>
<1>3. more \in Seq(Handles) /\ Len(more) <= 1 /\ Len(more) # 1
  BY One
<1>4. Run("stop", None, more)
  BY <1>1
<1> HIDE DEF more
<1> QED
  BY <1>1, <1>2, <1>3, <1>4, RunTyped

LEMMA WakeupTyped == ASSUME Typed, NEW t \in Threads, Wakeup(t) PROVE Typed'
<1> USE DEF Typed
<1> DEFINE h == Handle("step", t)
<1>1. h \in Handles /\ h.of = t /\ h.run = "step" /\ t # None
  BY HandleIs
<1>2. /\ task[t] = "suspended" /\ task' = [task EXCEPT ![t] = "resumed"]
      /\ ready' = Append(ready, h)
      /\ UNCHANGED <<closed, aclosed, pc, result, todo, stopping, phase, pending>>
  BY DEF Wakeup, Become, client
<1> HIDE DEF h
<1>3. task' \in [Threads -> TaskStates] /\ task'[t] = "resumed"
      /\ \A u \in Threads : task'[u] = task[u] \/ u = t
  BY <1>2 DEF TypeOK, TaskStates, Unended
<1>4. ready' \in Seq(Handles) /\ Len(ready') = Len(ready) + 1 /\ Len(ready) \in Nat
  BY <1>1, <1>2, AppendIs
<1>5. todo' \in 0 .. Len(ready')
  BY <1>2, <1>4 DEF TypeOK
<1>6. TypeOK'
  BY <1>2, <1>3, <1>4, <1>5 DEF TypeOK
<1>7. ~ Queued(t)
  <2> SUFFICES ASSUME NEW i \in DOMAIN ready, ready[i].of = t PROVE FALSE
    BY DEF Queued
  <2>1. ready[i] \in Handles
    BY DEF TypeOK
  <2>2. ready[i].run \in {"spawn", "step", "resolve"}
    BY <1>1, <2>1 DEF Handles
  <2> QED
    BY <1>1, <1>2, <2>2 DEF HandlesSound, Agrees
<1>8. \A u \in Threads : pc'[u] \in Unsubmitted =>
         pc[u] \in Unsubmitted /\ u # h.of
  BY <1>1, <1>2 DEF HandlesSound
<1>9. HandlesSound'
  BY <1>1, <1>2, <1>3, <1>7, <1>8, AppendSound DEF Agrees
<1> QED
  BY <1>6, <1>9

LEMMA StepTyped == ASSUME Typed, [Next]_vars PROVE Typed'
<1>1. CASE UNCHANGED vars
  BY <1>1 DEF vars, client, tasks, loop, Typed, TypeOK, HandlesSound, Queued
<1>2. CASE Next
  BY <1>2, ThreadTyped, BetweenTyped, CallbackTyped, StopTyped, WakeupTyped DEF Next, Loop
<1> QED
  BY <1>1, <1>2

\* Every variable keeps its type: a thread has one task and the loop one callback of
\* it at most, whatever is cancelled, left in the queue or submitted to a dead loop.
THEOREM TypeCorrect == Spec => []TypeOK
<1>1. Typed /\ [Next]_vars => Typed'
  BY StepTyped
<1>2. Typed => TypeOK
  BY DEF Typed
<1> QED
  BY InitTyped, <1>1, <1>2, PTL DEF Spec

-----------------------------------------------------------------------------
(* aclose comes first                                                      *)

\* The callback that runs agrees with its task.
LEMMA HeadAgrees ==
    ASSUME Typed, NEW run, NEW t \in Threads, NEW more, Run(run, t, more)
    PROVE  Agrees(Handle(run, t), task[t])
<1>1. ready \in Seq(Handles) /\ Len(ready) \in Nat /\ todo > 0 /\ todo <= Len(ready)
      /\ todo \in Nat /\ Head(ready) = Handle(run, t)
  BY DEF Typed, TypeOK, Run
<1>2. 1 \in DOMAIN ready /\ ready[1] = Handle(run, t)
  BY <1>1
<1>3. ready[1].of = t /\ t # None
  BY <1>2, HandleIs
<1> QED
  BY <1>2, <1>3 DEF Typed, HandlesSound

\* aclose() does not reopen the client.
LEMMA AclosedStays == ASSUME Typed, [Next]_vars, aclosed PROVE aclosed'
<1>1. ASSUME NEW t \in Threads, Enter(t) PROVE FALSE
  BY <1>1 DEF Enter
<1>2. CASE UNCHANGED vars
  BY <1>2 DEF vars, client
<1>3. CASE Next
  BY <1>1, <1>3 DEF Next, Loop, Batch, RunStop, RunForeverEnds, DrainEnds, Spawn, Finish,
     Resolve, Call, Proceed, _submit, run_coroutine_threadsafe, Result, Stop, Join, Wakeup, client
<1> QED
  BY <1>2, <1>3

\* A close() has passed aclose() at c.
Passed(c) ==
    task[c] \in {"suspended", "resumed"} \/ result[c] = "ok" \/ pc[c] \in {"stop", "join", "closed"}

LEMMA ThreadsPass ==
    ASSUME Typed, AcloseFirst, ~ aclosed, NEW t \in Threads, Call(t) \/ Proceed(t)
    PROVE  AcloseFirst'
<1> USE DEF Goto
<1>1. /\ ~ closed /\ \A c \in Closers : c \in Threads /\ ~ Passed(c)
      /\ pc \in [Threads -> Places]
  BY DEF AcloseFirst, Passed, Typed, TypeOK, Threads
<1>2. UNCHANGED <<aclosed, task, result>>
  BY DEF Call, Proceed, _submit, run_coroutine_threadsafe, Result, Stop, Join, client, tasks
<1>3. ~ closed'
  BY <1>1 DEF Call, Proceed, _submit, run_coroutine_threadsafe, Result, Stop, Join, client, Passed
<1>4. \A c \in Closers : pc'[c] \notin {"stop", "join", "closed"}
  BY <1>1 DEF Call, Proceed, _submit, run_coroutine_threadsafe, Result, Stop, Join, Passed
<1> QED
  BY <1>1, <1>2, <1>3, <1>4 DEF AcloseFirst, Passed

LEMMA LoopPasses ==
    ASSUME Typed, AcloseFirst, ~ aclosed, ~ aclosed', Loop \/ \E t \in Threads : Wakeup(t)
    PROVE  AcloseFirst'
<1> USE DEF Become
<1>1. /\ ~ closed /\ \A c \in Closers : c \in Threads /\ ~ Passed(c)
      /\ task \in [Threads -> TaskStates] /\ result \in [Threads -> Outcomes \union {None}]
  BY DEF AcloseFirst, Passed, Typed, TypeOK, Threads
<1>2. UNCHANGED <<closed, pc>>
  BY DEF Loop, Batch, RunStop, RunForeverEnds, DrainEnds, Spawn, Enter, Finish, Resolve, Wakeup,
     client, Run
<1>3. SUFFICES ASSUME NEW c \in Closers
               PROVE  task'[c] \notin {"suspended", "resumed"} /\ result'[c] # "ok"
  BY <1>1, <1>2 DEF AcloseFirst, Passed
<1>4. task[c] \notin {"suspended", "resumed"} /\ result[c] # "ok" /\ c \in Threads
  BY <1>1 DEF Passed
<1>5. CASE Batch \/ RunStop \/ DrainEnds
  BY <1>4, <1>5 DEF Batch, RunStop, DrainEnds, tasks
<1>6. CASE RunForeverEnds
  BY <1>4, <1>6 DEF RunForeverEnds
<1>7. ASSUME NEW t \in Threads, Wakeup(t) PROVE t # c /\ UNCHANGED result
  BY <1>4, <1>7 DEF Wakeup
<1>8. ASSUME NEW t \in Threads, Spawn(t) \/ Resolve(t)
      PROVE  task'[c] \notin {"suspended", "resumed"} /\ result'[c] # "ok"
  BY <1>1, <1>4, <1>8 DEF Spawn, Resolve
<1>9. ASSUME NEW t \in Threads, Enter(t)
      PROVE  task'[c] \notin {"suspended", "resumed"} /\ result'[c] # "ok"
  BY <1>1, <1>4, <1>9 DEF Enter
<1>10. ASSUME NEW t \in Threads, Finish(t)
       PROVE  task'[c] \notin {"suspended", "resumed"} /\ result'[c] # "ok"
  <2>1. PICK o \in Endings(t) : result' = [result EXCEPT ![t] = o]
    BY <1>10 DEF Finish
  <2>2. ASSUME t = c PROVE o # "ok"
    <3>1. Agrees(Handle("step", t), task[t])
      BY <1>10, HeadAgrees DEF Finish
    <3>2. task[t] = "created"
      BY <1>4, <2>2, <3>1, HandleIs DEF Agrees
    <3>3. t \in pending
      BY <1>10, <3>2 DEF Finish, StartsNow
    <3> QED
      BY <2>1, <3>3 DEF Endings
  <2>3. task' = [task EXCEPT ![t] = "finished"]
    BY <1>10 DEF Finish
  <2> QED
    BY <1>1, <1>4, <2>1, <2>2, <2>3
<1>11. ASSUME NEW t \in Threads, Wakeup(t)
       PROVE  task'[c] \notin {"suspended", "resumed"} /\ result'[c] # "ok"
  BY <1>1, <1>4, <1>7, <1>11 DEF Wakeup
<1> QED
  BY <1>5, <1>6, <1>8, <1>9, <1>10, <1>11 DEF Loop

LEMMA AcloseStep == ASSUME Typed, AcloseFirst, [Next]_vars PROVE AcloseFirst'
<1>1. CASE aclosed
  BY <1>1, AclosedStays DEF AcloseFirst
<1>2. CASE aclosed'
  BY <1>2 DEF AcloseFirst
<1>3. CASE ~ aclosed /\ ~ aclosed'
  <2>1. CASE UNCHANGED vars
    BY <2>1 DEF vars, client, tasks, AcloseFirst
  <2>2. CASE Next
    BY <1>3, <2>2, ThreadsPass, LoopPasses DEF Next
  <2> QED
    BY <2>1, <2>2
<1> QED
  BY <1>1, <1>2, <1>3

\* Once close() has returned in one thread, no request starts in any.
THEOREM NothingStartsLate == Spec => NothingStartsAfterClose
<1>1. Init => Typed /\ AcloseFirst
  <2> SUFFICES ASSUME Init PROVE AcloseFirst
    BY InitTyped
  <2>1. ~ closed
    BY DEF Init
  <2>2. ASSUME NEW c \in Closers PROVE ~ Passed(c)
    <3>1. c \in Threads
      BY DEF Threads
    <3> QED
      BY <3>1, ClientAssumption DEF Init, Passed, Outcomes
  <2> QED
    BY <2>1, <2>2 DEF AcloseFirst, Passed
<1>2. Typed /\ AcloseFirst /\ [Next]_vars => Typed' /\ AcloseFirst'
  BY StepTyped, AcloseStep
<1>3. ASSUME Typed, AcloseFirst, Next, \E c \in Closers : pc[c] = "closed",
             NEW t \in Callers, task[t] = "created"
      PROVE  task'[t] # "suspended"
  <2>1. aclosed
    <3>1. PICK c \in Closers : pc[c] = "closed"
      BY <1>3
    <3>2. Passed(c)
      BY <3>1 DEF Passed
    <3>3. Passed(c) => aclosed
      BY <1>3 DEF AcloseFirst, Passed
    <3> QED
      BY <3>2, <3>3
  <2>2. \A u \in Threads : ~ Enter(u)
    BY <2>1 DEF Enter
  <2>3. task \in [Threads -> TaskStates] /\ t \in Threads
    BY <1>3 DEF Typed, TypeOK, Threads
  <2> QED
    BY <1>3, <2>2, <2>3 DEF Next, Loop, Batch, RunStop, RunForeverEnds, DrainEnds, Spawn, Finish,
       Resolve, Call, Proceed, _submit, run_coroutine_threadsafe, Result, Stop, Join, Wakeup,
       tasks, Become
<1>4. Typed /\ AcloseFirst /\ [Next]_vars
        => [(\E c \in Closers : pc[c] = "closed") =>
              \A t \in Callers : task[t] = "created" => task'[t] # "suspended"]_vars
  BY <1>3
<1> QED
  BY <1>1, <1>2, <1>4, PTL DEF Spec, NothingStartsAfterClose

-----------------------------------------------------------------------------
(* Whose stop it is                                                        *)

\* Only a close() goes on to stop the loop, and it stays behind its stop.
LEMMA BehindStays ==
    ASSUME Typed, StopsCounted, [Next]_vars
    PROVE  /\ \A c \in Closers : Behind(c) => Behind(c)'
           /\ TwoClosed => TwoClosed'
           /\ OneClosed => OneClosed'
           /\ \A t \in Threads : pc'[t] \in {"stop", "join", "closed"} => t \in Closers
<1>1. pc \in [Threads -> Places] /\ \A c \in Closers : c \in Threads
  BY DEF Typed, TypeOK, Threads
<1>2. ASSUME NEW t \in Threads, Call(t) \/ Proceed(t)
      PROVE  /\ \A c \in Closers : Behind(c) => Behind(c)'
             /\ \A u \in Threads : pc'[u] \in {"stop", "join", "closed"} => u \in Closers
  BY <1>1, <1>2 DEF StopsCounted, Behind, Goto, Call, Proceed, _submit,
     run_coroutine_threadsafe, Result, Stop, Join
<1>3. ASSUME Loop \/ \E t \in Threads : Wakeup(t) PROVE pc' = pc
  BY <1>3 DEF Loop, Batch, RunStop, RunForeverEnds, DrainEnds, Spawn, Enter, Finish, Resolve,
     Wakeup, Run
<1>4. ASSUME pc' = pc
      PROVE  /\ \A c \in Closers : Behind(c) => Behind(c)'
             /\ \A u \in Threads : pc'[u] \in {"stop", "join", "closed"} => u \in Closers
  BY <1>4 DEF StopsCounted, Behind
<1>5. CASE UNCHANGED vars
  BY <1>4, <1>5 DEF vars, TwoClosed, OneClosed
<1>6. CASE Next
  BY <1>2, <1>3, <1>4, <1>6 DEF Next, TwoClosed, OneClosed
<1> QED
  BY <1>5, <1>6

\* A callback of a task adds no stop, but for the last of the gathered ones.
LEMMA RunStops ==
    ASSUME Typed, NEW run, NEW t, NEW more \in Seq(Handles), Len(more) <= 1, Run(run, t, more),
           Len(more) = 1 => more[1].of # None
    PROVE  /\ NoStop => NoStop'
           /\ OneStop => OneStop'
           /\ OneStop /\ run = "stop" => NoStop'
<1>1. /\ ready[1].run = run /\ 1 \in DOMAIN ready /\ DOMAIN ready = 1 .. Len(ready)
      /\ DOMAIN ready' = 1 .. Len(ready) - 1 + Len(more)
      /\ Len(ready) \in Nat
      /\ \A i \in DOMAIN ready' :
            \/ i + 1 \in DOMAIN ready /\ ready'[i] = ready[i + 1]
            \/ i = Len(ready) /\ Len(more) = 1 /\ ready'[i] = more[1]
  BY RunIs, HandleIs DEF Typed
<1>2. Len(more) = 1 => more[1].run # "stop"
  <2> SUFFICES ASSUME Len(more) = 1 PROVE more[1].run # "stop"
    OBVIOUS
  <2>1. more[1] \in Handles
    OBVIOUS
  <2> QED
    BY <2>1, HandleIs
<1>3. ASSUME NEW i \in DOMAIN ready', ready'[i].run = "stop"
      PROVE  i \in Nat /\ i >= 1 /\ i + 1 \in DOMAIN ready /\ ready[i + 1].run = "stop"
  BY <1>1, <1>2, <1>3
<1>4. ASSUME NoStop PROVE NoStop'
  BY <1>3, <1>4 DEF NoStop, IsStop
<1>5. ASSUME OneStop PROVE OneStop'
  <2> SUFFICES ASSUME NEW i \in DOMAIN ready', NEW j \in DOMAIN ready',
                      ready'[i].run = "stop", ready'[j].run = "stop"
               PROVE  i = j
    BY DEF OneStop, IsStop
  <2>1. i + 1 = j + 1 /\ i \in Nat /\ j \in Nat
    BY <1>3, <1>5 DEF OneStop, IsStop
  <2> QED
    BY <2>1
<1>6. ASSUME OneStop, run = "stop" PROVE NoStop'
  <2> SUFFICES ASSUME NEW i \in DOMAIN ready', ready'[i].run = "stop" PROVE FALSE
    BY DEF NoStop, IsStop
  <2>1. i + 1 = 1 /\ i \in Nat /\ i >= 1
    BY <1>1, <1>3, <1>6 DEF OneStop, IsStop
  <2> QED
    BY <2>1
<1> QED
  BY <1>4, <1>5, <1>6

LEMMA AppendStops ==
    ASSUME Typed, NEW h \in Handles, ready' = Append(ready, h)
    PROVE  /\ NoStop => OneStop'
           /\ NoStop /\ h.run # "stop" => NoStop'
           /\ OneStop /\ h.run # "stop" => OneStop'
<1>1. /\ \A i \in DOMAIN ready' : \/ i \in DOMAIN ready /\ ready'[i] = ready[i]
                                  \/ i = Len(ready) + 1 /\ ready'[i] = h
  BY AppendIs DEF Typed
<1> QED
  BY <1>1 DEF NoStop, OneStop, IsStop

\* A task that is resolved stays so.
LEMMA ResolvedStays ==
    ASSUME Typed, [Next]_vars, NEW t \in Threads, task[t] = "resolved"
    PROVE  task'[t] = "resolved"
<1>1. task \in [Threads -> TaskStates]
  BY DEF Typed, TypeOK
<1>2. ASSUME NEW u \in Threads, Spawn(u) \/ Enter(u) \/ Finish(u) \/ Resolve(u) \/ Wakeup(u)
      PROVE  task'[t] = "resolved"
  <2>1. CASE Spawn(u)
    <3>1. Agrees(Handle("spawn", u), task[u])
      BY <2>1, HeadAgrees DEF Spawn
    <3>2. u # t
      BY <3>1, HandleIs DEF Agrees
    <3> QED
      BY <1>1, <2>1, <3>2 DEF Spawn, Become
  <2>2. CASE Enter(u)
    BY <1>1, <2>2 DEF Enter, Become, StartsNow
  <2>3. CASE Finish(u)
    <3>1. Agrees(Handle("step", u), task[u])
      BY <2>3, HeadAgrees DEF Finish
    <3>2. u # t
      BY <3>1, HandleIs DEF Agrees
    <3> QED
      BY <1>1, <2>3, <3>2 DEF Finish, Become
  <2>4. CASE Resolve(u)
    BY <1>1, <2>4 DEF Resolve, Become
  <2>5. CASE Wakeup(u)
    BY <1>1, <2>5 DEF Wakeup, Become
  <2> QED
    BY <1>2, <2>1, <2>2, <2>3, <2>4, <2>5
<1>3. CASE UNCHANGED vars
  BY <1>3 DEF vars, tasks
<1>4. CASE Next
  BY <1>2, <1>4 DEF Next, Loop, Batch, RunStop, RunForeverEnds, DrainEnds, Call, Proceed,
     _submit, run_coroutine_threadsafe, Result, Stop, Join, tasks
<1> QED
  BY <1>3, <1>4

\* A step that stops nothing.
LEMMA NothingStops ==
    ASSUME Typed, StopsCounted, [Next]_vars, UNCHANGED <<stopping, phase, pending>>,
           NoStop => NoStop', OneStop => OneStop'
    PROVE  StopsCounted'
<1>1. AllResolved => AllResolved'
  BY ResolvedStays DEF AllResolved, Typed, TypeOK
<1> QED
  BY <1>1, BehindStays DEF StopsCounted

LEMMA StopCounted ==
    ASSUME Typed, StopsCounted, [Next]_vars, NEW t \in Threads, Stop(t)
    PROVE  StopsCounted'
<1> USE DEF Goto
<1>1. CASE UNCHANGED loop
  BY <1>1, NothingStops DEF loop, NoStop, OneStop, IsStop
<1>2. CASE call_soon_threadsafe(Handle("stop", None)) /\ pc' = [pc EXCEPT ![t] = "join"]
  <2>1. /\ ready' = Append(ready, Handle("stop", None)) /\ Handle("stop", None) \in Handles
        /\ UNCHANGED <<stopping, phase, pending>>
    BY <1>2, HandleIs DEF call_soon_threadsafe
  <2>2. NoStop => OneStop'
    BY <2>1, AppendStops
  <2>3. t \in Closers /\ Behind(t)' /\ ~ Behind(t)
    <3>1. pc[t] = "stop" /\ pc'[t] = "join"
      BY <1>2 DEF Stop, Typed, TypeOK
    <3> QED
      BY <3>1 DEF StopsCounted, Behind
  <2>4. OneClosed' /\ (OneClosed => TwoClosed')
    BY <2>3, BehindStays DEF OneClosed, TwoClosed
  <2>5. AllResolved => AllResolved'
    BY <2>1, ResolvedStays DEF AllResolved, Typed, TypeOK
  <2>6. UNCHANGED task
    BY DEF Stop, tasks
  <2> QED
    BY <2>1, <2>2, <2>4, <2>5, BehindStays DEF StopsCounted
<1> QED
  BY <1>1, <1>2 DEF Stop

LEMMA CallbackCounted ==
    ASSUME Typed, StopsCounted, [Next]_vars, NEW t \in Threads,
           Spawn(t) \/ Enter(t) \/ Finish(t) \/ Resolve(t)
    PROVE  StopsCounted'
<1>1. \A r \in {"spawn", "step", "resolve"} :
         Handle(r, t) \in Handles /\ Handle(r, t).of # None
  BY HandleIs
<1>2. ASSUME NEW run, NEW more \in Seq(Handles), Len(more) <= 1, Run(run, t, more),
             Len(more) = 1 => more[1].of # None, stopping' = stopping
      PROVE  StopsCounted'
  <2>1. UNCHANGED <<phase, pending>>
    BY <1>2 DEF Run
  <2>2. (NoStop => NoStop') /\ (OneStop => OneStop')
    BY <1>2, RunStops
  <2> QED
    BY <1>2, <2>1, <2>2, NothingStops
<1>3. CASE Spawn(t)
  <2> DEFINE more == <<Handle("step", t)>>
  <2>1. more \in Seq(Handles) /\ Len(more) <= 1 /\ more[1].of # None
    BY <1>1, One
  <2>2. Run("spawn", t, more) /\ stopping' = stopping
    BY <1>3 DEF Spawn
  <2> HIDE DEF more
  <2> QED
    BY <1>2, <2>1, <2>2
<1>4. CASE Enter(t)
  <2> DEFINE more == <<>>
  <2>1. more \in Seq(Handles) /\ Len(more) <= 1 /\ Len(more) # 1
    BY One
  <2>2. Run("step", t, more) /\ stopping' = stopping
    BY <1>4 DEF Enter
  <2> HIDE DEF more
  <2> QED
    BY <1>2, <2>1, <2>2
<1>5. CASE Finish(t)
  <2> DEFINE more == <<Handle("resolve", t)>>
  <2>1. more \in Seq(Handles) /\ Len(more) <= 1 /\ more[1].of # None
    BY <1>1, One
  <2>2. Run("step", t, more) /\ stopping' = stopping
    BY <1>5 DEF Finish
  <2> HIDE DEF more
  <2> QED
    BY <1>2, <2>1, <2>2
<1>6. CASE Resolve(t)
  <2>1. Run("resolve", t, Gathered(t)) /\ stopping' = stopping /\ task' = [task EXCEPT ![t] = "resolved"]
    BY <1>6 DEF Resolve, Become
  <2>2. UNCHANGED <<phase, pending>>
    BY <2>1 DEF Run
  <2>3. CASE Gathered(t) = <<>>
    <3> DEFINE more == Gathered(t)
    <3>1. more \in Seq(Handles) /\ Len(more) <= 1 /\ Len(more) # 1
      BY <2>3, One
    <3> HIDE DEF more
    <3>2. Run("resolve", t, more)
      BY <2>1 DEF more
    <3> QED
      BY <1>2, <2>1, <3>1, <3>2
  <2>4. CASE Gathered(t) # <<>>
    <3>1. t \in pending /\ \A u \in pending \ {t} : task[u] = "resolved"
      BY <2>4 DEF Gathered
    <3>2. AllResolved'
      BY <2>1, <2>2, <3>1 DEF AllResolved, Typed, TypeOK
    <3>3. phase # "running"
      BY <3>1 DEF StopsCounted
    <3> QED
      BY <2>2, <3>2, <3>3, BehindStays DEF StopsCounted
  <2> QED
    BY <2>3, <2>4
<1> QED
  BY <1>3, <1>4, <1>5, <1>6

LEMMA EndsCounted ==
    ASSUME Typed, StopsCounted, [Next]_vars, RunStop \/ RunForeverEnds \/ DrainEnds
    PROVE  StopsCounted'
<1>1. CASE RunStop
  <2> DEFINE more == <<>>
  <2>1. more \in Seq(Handles) /\ Len(more) <= 1 /\ Len(more) # 1
    BY One
  <2>2. Run("stop", None, more) /\ stopping' = TRUE /\ UNCHANGED task
    BY <1>1 DEF RunStop, tasks
  <2> HIDE DEF more
  <2>3. UNCHANGED <<phase, pending>>
    BY <2>2 DEF Run
  <2>4. OneStop => NoStop'
    BY <2>1, <2>2, RunStops
  <2>5. ~ NoStop
    <3>1. ready[1].run = "stop" /\ 1 \in DOMAIN ready
      BY <2>1, <2>2, RunIs, HandleIs DEF Typed
    <3> QED
      BY <3>1 DEF NoStop, IsStop
  <2>6. AllResolved => AllResolved'
    BY <2>2, <2>3 DEF AllResolved
  <2>7. phase = "running" => pending' = {} /\ (TwoClosed' \/ (OneClosed' /\ NoStop'))
    BY <2>3, <2>4, <2>5, BehindStays DEF StopsCounted
  <2> QED
    BY <2>2, <2>3, <2>5, <2>6, <2>7, BehindStays DEF StopsCounted
<1>2. CASE RunForeverEnds
  <2>1. /\ phase = "running" /\ stopping /\ stopping' = FALSE /\ phase' \in {"draining", "closed"}
        /\ task' = [t \in Threads |-> IF task[t] = "suspended" THEN "resumed" ELSE task[t]]
        /\ pc' = pc
    BY <1>2 DEF RunForeverEnds
  <2>2. TwoClosed \/ (OneClosed /\ NoStop)
    BY <2>1 DEF StopsCounted
  <2>3. ASSUME NoStop, phase' = "draining" PROVE NoStop'
    <3>1. PICK order \in Orders({t \in Threads : task[t] = "suspended"}) :
            ready' = ready \o [i \in DOMAIN order |-> Handle("step", order[i])]
      BY <1>2, <2>3 DEF RunForeverEnds
    <3> DEFINE S == {t \in Threads : task[t] = "suspended"}
               n == Cardinality(S)
               m == [i \in DOMAIN order |-> Handle("step", order[i])]
    <3>2. n \in Nat /\ order \in [1 .. n -> S]
      BY OrderIs
    <3>3. \A i \in 1 .. n : order[i] \in Threads
      BY <3>2
    <3> HIDE DEF n, S
    <3>4. m \in Seq(Handles) /\ Len(m) = n /\ \A i \in 1 .. n : m[i].run = "step"
      <4>1. \A i \in 1 .. n : /\ Handle("step", order[i]) \in Handles
                              /\ Handle("step", order[i]).run = "step"
        BY <3>3, HandleIs
      <4> QED
        BY <3>2, <4>1
    <3> HIDE DEF m
    <3>5. ready \in Seq(Handles) /\ Len(ready) \in Nat
      BY DEF Typed, TypeOK
    <3>6. /\ ready \o m \in Seq(Handles) /\ Len(ready \o m) = Len(ready) + Len(m)
          /\ \A i \in 1 .. Len(ready) + Len(m) :
                (ready \o m)[i] = IF i <= Len(ready) THEN ready[i] ELSE m[i - Len(ready)]
      BY <3>4, <3>5, ConcatProperties
    <3>7. ASSUME NEW i \in DOMAIN ready' PROVE ready'[i].run # "stop"
      <4>1. i \in 1 .. Len(ready) + Len(m) /\ ready' = ready \o m
        BY <3>1, <3>6 DEF m
      <4>2. CASE i <= Len(ready)
        <5>1. ready'[i] = ready[i] /\ i \in DOMAIN ready
          BY <3>5, <3>6, <4>1, <4>2
        <5> QED
          BY <2>3, <5>1 DEF NoStop, IsStop
      <4>3. CASE ~ (i <= Len(ready))
        <5>1. ready'[i] = m[i - Len(ready)] /\ i - Len(ready) \in 1 .. n
          BY <3>2, <3>4, <3>5, <3>6, <4>1, <4>3
        <5> QED
          BY <3>4, <5>1
      <4> QED
        BY <4>2, <4>3
    <3> QED
      BY <3>7 DEF NoStop, IsStop
  <2> QED
    BY <2>1, <2>2, <2>3, BehindStays DEF StopsCounted
<1>3. CASE DrainEnds
  <2>1. /\ phase = "draining" /\ stopping /\ phase' \in {"closed", "dead"}
        /\ phase' = "dead" => ~ AllResolved
    BY <1>3 DEF DrainEnds, AllResolved
  <2>2. phase' = "dead" => TwoClosed
    BY <2>1 DEF StopsCounted
  <2> QED
    BY <2>1, <2>2, BehindStays DEF StopsCounted
<1> QED
  BY <1>1, <1>2, <1>3

LEMMA StopsStep == ASSUME Typed, StopsCounted, [Next]_vars PROVE StopsCounted'
<1>1. CASE UNCHANGED ready /\ UNCHANGED <<stopping, phase, pending>>
  BY <1>1, NothingStops DEF NoStop, OneStop, IsStop
<1>2. ASSUME NEW t \in Threads, run_coroutine_threadsafe(t) PROVE StopsCounted'
  <2>1. CASE UNCHANGED loop
    BY <1>1, <2>1 DEF loop
  <2>2. CASE call_soon_threadsafe(Handle("spawn", t))
    <3>1. /\ ready' = Append(ready, Handle("spawn", t)) /\ Handle("spawn", t) \in Handles
          /\ Handle("spawn", t).run # "stop" /\ UNCHANGED <<stopping, phase, pending>>
      BY <2>2, HandleIs DEF call_soon_threadsafe
    <3> QED
      BY <3>1, AppendStops, NothingStops
  <2> QED
    BY <1>2, <2>1, <2>2 DEF run_coroutine_threadsafe
<1>3. ASSUME NEW t \in Threads, Wakeup(t) PROVE StopsCounted'
  <2>1. /\ ready' = Append(ready, Handle("step", t)) /\ Handle("step", t) \in Handles
        /\ Handle("step", t).run # "stop" /\ UNCHANGED <<stopping, phase, pending>>
    BY <1>3, HandleIs DEF Wakeup
  <2> QED
    BY <2>1, AppendStops, NothingStops
<1>4. CASE UNCHANGED vars
  BY <1>1, <1>4 DEF vars, loop
<1>5. ASSUME Next PROVE \/ UNCHANGED ready /\ UNCHANGED <<stopping, phase, pending>>
                        \/ RunStop \/ RunForeverEnds \/ DrainEnds
                        \/ \E t \in Threads : \/ run_coroutine_threadsafe(t) \/ Stop(t) \/ Wakeup(t) \/ Spawn(t)
                                              \/ Enter(t) \/ Finish(t) \/ Resolve(t)
  BY <1>5 DEF Next, Loop, Batch, Call, Proceed, _submit, Result, Join, loop
<1> QED
  BY <1>1, <1>2, <1>3, <1>4, <1>5, StopCounted, CallbackCounted, EndsCounted

\* The loop's thread dies with its loop open only of two threads that close at once.
THEOREM OneCloseIsSafe == Spec => []DiesOnlyOfTwoCloses
<1>1. Init => Typed /\ StopsCounted
  <2> SUFFICES ASSUME Init PROVE StopsCounted
    BY InitTyped
  <2>1. ready = <<Handle("spawn", Maker)>> /\ Handle("spawn", Maker).run = "spawn"
    BY HandleIs DEF Init
  <2>2. NoStop
    BY <2>1 DEF NoStop, IsStop
  <2>3. phase = "running" /\ pending = {} /\ ~ stopping
    BY DEF Init
  <2>4. \A t \in Threads : pc[t] \notin {"stop", "join", "closed"}
    BY DEF Init
  <2> QED
    BY <2>2, <2>3, <2>4 DEF StopsCounted
<1>2. Typed /\ StopsCounted /\ [Next]_vars => Typed' /\ StopsCounted'
  BY StepTyped, StopsStep
<1>3. StopsCounted => DiesOnlyOfTwoCloses
  <2> SUFFICES ASSUME StopsCounted, phase = "dead"
               PROVE  Cardinality({c \in Closers : pc[c] \in {"join", "closed"}}) >= 2
    BY DEF DiesOnlyOfTwoCloses
  <2> DEFINE B == {c \in Closers : pc[c] \in {"join", "closed"}}
  <2>1. PICK c \in Closers, d \in Closers : c # d /\ Behind(c) /\ Behind(d)
    BY DEF StopsCounted, TwoClosed
  <2>2. IsFiniteSet(B)
    <3>1. B \subseteq Threads
      BY DEF Threads
    <3> QED
      BY <3>1, ClientAssumption, FS_Subset
  <2>3. {c, d} \subseteq B
    BY <2>1 DEF Behind
  <2> HIDE DEF B
  <2>4. Cardinality({c, d}) <= Cardinality(B) /\ Cardinality(B) \in Nat
    BY <2>2, <2>3, FS_Subset, FS_CardinalityType
  <2>5. Cardinality({c, d}) = 2
    <3>1. {c, d} = {c} \cup {d} /\ d \notin {c}
      BY <2>1
    <3>2. IsFiniteSet({c}) /\ Cardinality({c}) = 1
      BY FS_Singleton
    <3>3. Cardinality({c} \cup {d}) = Cardinality({c}) + 1
      BY <3>1, <3>2, FS_AddElement
    <3> QED
      BY <3>1, <3>2, <3>3
  <2> QED
    BY <2>4, <2>5 DEF B
<1> QED
  BY <1>1, <1>2, <1>3, PTL DEF Spec
=============================================================================
