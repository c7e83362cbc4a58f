---------------------------- MODULE SharedLemmas ----------------------------
(***************************************************************************)
(* Lemmas that several of the proofs need: about natural numbers, and      *)
(* about sequences of ages, the form in which both rate limiters keep the  *)
(* times of the calls they have let through.                               *)
(***************************************************************************)
EXTENDS SequenceTheorems, WellFoundedInduction, TLAPS

-----------------------------------------------------------------------------
(* Natural numbers: induction without a predicate as a parameter           *)

\* A set of natural numbers that is not empty has a least element.
LEMMA Least ==
    ASSUME NEW T, T \subseteq Nat, T # {}
    PROVE  \E n \in T : \A m \in T : n <= m
<1> DEFINE R == {p \in Nat \X Nat : p[1] < p[2]}
<1>1. IsWellFoundedOn(R, Nat)
  BY NatLessThanWellFounded DEF OpToRel
<1>2. \A m, n \in Nat : m < n => <<m, n>> \in R
  OBVIOUS
<1> HIDE DEF R
<1>3. PICK n \in T : \A m \in T : ~ (<<m, n>> \in R)
  BY <1>1, WFMin
<1>4. \A m \in T : ~ (m < n) /\ m \in Nat /\ n \in Nat
  BY <1>2, <1>3
<1> QED
  BY ONLY <1>3, <1>4

\* A set that has 0, and n + 1 with n, has every number up to a bound.
LEMMA Climb ==
    ASSUME NEW N \in Nat, NEW T, 0 \in T,
           \A n \in 1 .. N : n - 1 \in T => n \in T
    PROVE  0 .. N \subseteq T
<1> SUFFICES ASSUME NEW x \in 0 .. N, x \notin T PROVE FALSE
  OBVIOUS
<1> DEFINE U == {n \in 0 .. N : n \notin T}
<1>1. U \subseteq Nat /\ x \in U
  OBVIOUS
<1>2. PICK n \in U : \A m \in U : n <= m
  <2> HIDE DEF U
  <2> QED
    BY <1>1, Least
<1>3. n \in 1 .. N /\ n - 1 \in 0 .. N
  BY <1>2
<1>4. n - 1 \notin U
  BY <1>2, <1>3
<1> QED
  BY <1>2, <1>3, <1>4

\* One with a greatest: a set of numbers up to a bound.
LEMMA Greatest ==
    ASSUME NEW N \in Nat, NEW T, T \subseteq 1 .. N, T # {}
    PROVE  \E n \in T : \A m \in T : m <= n
<1> DEFINE U == {n \in 0 .. N : \A m \in T : m <= n}
<1>1. U \subseteq Nat /\ N \in U
  OBVIOUS
<1>2. PICK n \in U : \A m \in U : n <= m
  <2> HIDE DEF U
  <2> QED
    BY <1>1, Least
<1>3. CASE n \in T
  BY <1>2, <1>3
<1>4. CASE n \notin T
  <2>1. PICK t \in T : TRUE
    OBVIOUS
  <2>2. t <= n /\ t \in 1 .. N /\ n \in 1 .. N
    BY <1>2, <2>1
  <2>3. ASSUME NEW m \in T PROVE m <= n - 1
    <3>1. m <= n /\ m # n /\ m \in 1 .. N
      BY <1>2, <1>4
    <3> QED
      BY <2>2, <3>1
  <2>4. n - 1 \in U
    BY <2>2, <2>3
  <2>5. n <= n - 1
    BY <1>2, <2>4
  <2> QED
    BY <2>2, <2>5
<1> QED
  BY <1>3, <1>4

\* f follows a loop over the first N of s that leaves out those at the places in D.
Filtering(s, D, N, f) ==
    f = [n \in 0 .. N |->
            IF n = 0 THEN <<>> ELSE IF n \in D THEN f[n - 1] ELSE Append(f[n - 1], s[n])]

\* There is such a function, as a recursive definition of it takes for granted.
LEMMA FilteringExists ==
    ASSUME NEW N \in Nat, NEW s, NEW D
    PROVE  \E f : Filtering(s, D, N, f)
<1> DEFINE Step(f, n) == IF n = 0 THEN <<>>
                         ELSE IF n \in D THEN f[n - 1] ELSE Append(f[n - 1], s[n])
           Upto(f, m) == f = [n \in 0 .. m |-> Step(f, n)]
<1> DEFINE T == {m \in 0 .. N : \E f : Upto(f, m)}
<1>1. 0 \in T
  <2> DEFINE f == [n \in 0 .. 0 |-> <<>>]
  <2>1. Upto(f, 0)
    OBVIOUS
  <2> HIDE DEF Upto
  <2> QED
    BY <2>1
<1>2. ASSUME NEW m \in 1 .. N, m - 1 \in T PROVE m \in T
  <2>1. PICK f : Upto(f, m - 1)
    BY <1>2
  <2> DEFINE g == [n \in 0 .. m |-> IF n = m THEN Step(f, m) ELSE f[n]]
  <2>2. \A n \in 0 .. m - 1 : n \in 0 .. m /\ n # m /\ g[n] = f[n]
    OBVIOUS
  <2>3. ASSUME NEW n \in 0 .. m PROVE g[n] = Step(g, n)
    <3>1. CASE n = 0
      <4>1. f[0] = Step(f, 0)
        BY <2>1
      <4>2. g[0] = f[0]
        BY <2>2
      <4> QED
        BY <3>1, <4>1, <4>2
    <3>2. CASE n \in 1 .. m - 1
      <4>1. n \in 0 .. m - 1 /\ n - 1 \in 0 .. m - 1 /\ n # 0
        BY <3>2
      <4>2. f[n] = Step(f, n)
        BY <2>1, <4>1
      <4>3. g[n] = f[n] /\ g[n - 1] = f[n - 1]
        BY <2>2, <4>1
      <4> QED
        BY <4>2, <4>3
    <3>3. CASE n = m
      <4>1. m - 1 \in 0 .. m - 1
        OBVIOUS
      <4>2. g[m - 1] = f[m - 1] /\ g[m] = Step(f, m)
        BY <2>2, <4>1
      <4>3. Step(f, m) = Step(g, m)
        BY <4>2
      <4> QED
        BY <3>3, <4>2, <4>3
    <3> QED
      BY <3>1, <3>2, <3>3
  <2>4. Upto(g, m)
    <3>1. g = [n \in 0 .. m |-> g[n]]
      OBVIOUS
    <3> HIDE DEF g, Step
    <3> QED
      BY <2>3, <3>1
  <2> HIDE DEF Upto
  <2> QED
    BY <2>4
<1>3. 0 .. N \subseteq T
  <2> HIDE DEF T
  <2> QED
    BY <1>1, <1>2, Climb
<1>4. N \in T
  BY <1>3
<1>5. PICK f : Upto(f, N)
  <2> HIDE DEF Upto
  <2> QED
    BY <1>4
<1>6. Filtering(s, D, N, f)
  BY <1>5 DEF Filtering
<1> QED
  BY <1>6

-----------------------------------------------------------------------------
(* Ages, oldest first.  W is the width of the window, W + 1 "older".       *)

Ages(W) == 0 .. W + 1

Aged(W, ts) ==
    /\ ts \in Seq(Ages(W))
    /\ \A i, j \in 1 .. Len(ts) : i <= j => ts[i] >= ts[j]

\* n of the ages in ts are beyond the window.
Expired(W, ts, n) ==
    /\ n \in 0 .. Len(ts)
    /\ \A i \in 1 .. Len(ts) : ts[i] > W <=> i <= n

Rest(ts, n) == SubSeq(ts, n + 1, Len(ts))

LEMMA ExpiredExists ==
    ASSUME NEW W \in Nat \ {0}, NEW ts, Aged(W, ts)
    PROVE  \E n : Expired(W, ts, n)
<1> USE DEF Aged, Ages
<1> DEFINE T == {m \in 0 .. Len(ts) : m = Len(ts) \/ ts[m + 1] <= W}
<1>1. Len(ts) \in T /\ T \subseteq Nat
  OBVIOUS
<1>2. PICK n \in T : \A m \in T : n <= m
  <2> HIDE DEF T
  <2> QED
    BY <1>1, Least
<1>3. ASSUME NEW i \in 1 .. Len(ts), i <= n PROVE ts[i] > W
  <2>1. i - 1 \in 0 .. Len(ts) /\ ~ (n <= i - 1)
    BY <1>3
  <2>2. i - 1 \notin T
    BY <1>2, <2>1
  <2>3. ~ (ts[(i - 1) + 1] <= W) /\ (i - 1) + 1 = i
    BY <2>1, <2>2
  <2>4. ts[i] \in Int
    OBVIOUS
  <2> QED
    BY <2>3, <2>4
<1>4. ASSUME NEW i \in 1 .. Len(ts), i > n PROVE ts[i] <= W
  <2>1. n + 1 \in 1 .. Len(ts) /\ n + 1 <= i /\ ts[n + 1] <= W
    BY <1>1, <1>2, <1>4
  <2>2. ts[i] \in Ages(W) /\ ts[n + 1] \in Ages(W) /\ ts[n + 1] >= ts[i]
    BY <2>1
  <2> QED
    BY <2>1, <2>2
<1>5. n \in 0 .. Len(ts)
  BY <1>1
<1>6. ASSUME NEW i \in 1 .. Len(ts) PROVE ts[i] > W <=> i <= n
  <2>1. ts[i] \in Int /\ n \in Int /\ W \in Int
    BY <1>5
  <2>2. i <= n \/ i > n
    BY <1>5
  <2> QED
    BY <2>1, <2>2, <1>3, <1>4
<1> HIDE DEF T
<1> QED
  BY <1>5, <1>6 DEF Expired

\* How many have is one number.
LEMMA ExpiredOnce ==
    ASSUME NEW W, NEW ts, Aged(W, ts), NEW n, Expired(W, ts, n), NEW m, Expired(W, ts, m)
    PROVE  m = n
<1>1. n \in 0 .. Len(ts) /\ m \in 0 .. Len(ts) /\ Len(ts) \in Nat
  BY DEF Expired, Aged
<1>2. \A i \in 1 .. Len(ts) : i <= n <=> i <= m
  BY DEF Expired
<1>3. CASE n < m
  BY <1>1, <1>2, <1>3
<1>4. CASE m < n
  BY <1>1, <1>2, <1>4
<1> QED
  BY <1>1, <1>3, <1>4

\* What is left is the ages within the window, in their order.
LEMMA RestIs ==
    ASSUME NEW W \in Nat \ {0}, NEW ts, Aged(W, ts), NEW n, Expired(W, ts, n)
    PROVE  /\ Aged(W, Rest(ts, n))
           /\ Len(Rest(ts, n)) = Len(ts) - n
           /\ \A i \in 1 .. Len(ts) - n :
                 Rest(ts, n)[i] = ts[n + i] /\ Rest(ts, n)[i] <= W
<1> USE DEF Aged, Ages, Expired
<1> DEFINE p == SubSeq(ts, n + 1, Len(ts))
<1>1. /\ p \in Seq(Ages(W))
      /\ Len(p) = Len(ts) - n
      /\ \A i \in 1 .. Len(ts) - n : p[i] = ts[n + i]
  <2>1. \A i \in n + 1 .. Len(ts) : ts[i] \in Ages(W)
    OBVIOUS
  <2>2. /\ p \in Seq(Ages(W))
        /\ Len(p) = IF n + 1 <= Len(ts) THEN Len(ts) - (n + 1) + 1 ELSE 0
        /\ \A i \in 1 .. Len(ts) - (n + 1) + 1 : p[i] = ts[n + 1 + i - 1]
    <3> HIDE DEF Ages
    <3>1. n + 1 \in Int /\ Len(ts) \in Int
      OBVIOUS
    <3> QED
      BY <2>1, <3>1, SubSeqProperties
  <2> QED
    BY <2>2
<1>2. p = Rest(ts, n)
  BY DEF Rest
<1> HIDE DEF p
<1>3. ASSUME NEW i \in 1 .. Len(ts) - n PROVE p[i] <= W
  <2>1. n + i \in 1 .. Len(ts) /\ ~ (n + i <= n)
    OBVIOUS
  <2>2. ts[n + i] \in Int /\ ~ (ts[n + i] > W)
    BY <2>1
  <2> QED
    BY <1>1, <2>2
<1>4. ASSUME NEW i \in 1 .. Len(p), NEW j \in 1 .. Len(p), i <= j PROVE p[i] >= p[j]
  <2>1. i \in 1 .. Len(ts) - n /\ j \in 1 .. Len(ts) - n
    BY <1>1
  <2>2. n + i \in 1 .. Len(ts) /\ n + j \in 1 .. Len(ts) /\ n + i <= n + j
    BY <1>4, <2>1
  <2>3. ts[n + i] >= ts[n + j]
    BY <2>2
  <2> QED
    BY <1>1, <2>1, <2>3
<1> QED
  BY <1>1, <1>2, <1>3, <1>4

\* Where none have, the rest is all.
LEMMA RestOfYoung ==
    ASSUME NEW W \in Nat \ {0}, NEW ts, Aged(W, ts), \A i \in 1 .. Len(ts) : ts[i] <= W
    PROVE  Expired(W, ts, 0) /\ Rest(ts, 0) = ts
<1>1. Expired(W, ts, 0)
  BY DEF Expired, Aged, Ages
<1>2. Rest(ts, 0) = SubSeq(ts, 1, Len(ts))
  BY DEF Rest
<1> QED
  BY <1>1, <1>2, SubSeqFull DEF Aged

\* A call let through is the youngest.
LEMMA AppendAged ==
    ASSUME NEW W \in Nat \ {0}, NEW ts, Aged(W, ts)
    PROVE  /\ Aged(W, Append(ts, 0))
           /\ Len(Append(ts, 0)) = Len(ts) + 1
           /\ \A i \in 1 .. Len(ts) : Append(ts, 0)[i] = ts[i]
           /\ Append(ts, 0)[Len(ts) + 1] = 0
<1> USE DEF Aged, Ages
<1> DEFINE q == Append(ts, 0)
<1>1. /\ q \in Seq(Ages(W)) /\ Len(q) = Len(ts) + 1
      /\ \A i \in 1 .. Len(ts) : q[i] = ts[i]
      /\ q[Len(ts) + 1] = 0
  OBVIOUS
<1> HIDE DEF q
<1>2. \A i \in 1 .. Len(ts) : ts[i] \in Int /\ ts[i] >= 0
  OBVIOUS
<1>3. ASSUME NEW i \in 1 .. Len(q), NEW j \in 1 .. Len(q), i <= j PROVE q[i] >= q[j]
  <2>1. CASE j \in 1 .. Len(ts)
    <3>1. i \in 1 .. Len(ts) /\ q[i] = ts[i] /\ q[j] = ts[j]
      BY <1>1, <1>3, <2>1
    <3>2. ts[i] >= ts[j]
      BY <1>3, <2>1, <3>1
    <3> QED
      BY <3>1, <3>2
  <2>2. CASE j = Len(ts) + 1
    BY <1>1, <1>2, <2>2
  <2> QED
    BY <1>1, <2>1, <2>2
<1> QED
  BY <1>1, <1>3

\* Growing older keeps the order.
LEMMA AgeingKeepsOrder ==
    ASSUME NEW W \in Nat \ {0}, NEW ts, Aged(W, ts), NEW us,
           us = [i \in DOMAIN ts |-> IF ts[i] > W THEN ts[i] ELSE ts[i] + 1]
    PROVE  /\ Aged(W, us) /\ Len(us) = Len(ts)
           /\ \A i \in 1 .. Len(ts) : us[i] = IF ts[i] > W THEN ts[i] ELSE ts[i] + 1
<1> USE DEF Aged, Ages
<1>1. /\ DOMAIN ts = 1 .. Len(ts) /\ Len(ts) \in Nat
      /\ \A i \in 1 .. Len(ts) : ts[i] \in 0 .. W + 1
  OBVIOUS
<1>2. us = [i \in 1 .. Len(ts) |-> IF ts[i] > W THEN ts[i] ELSE ts[i] + 1]
  BY <1>1
<1>3. \A i \in 1 .. Len(ts) :
        us[i] = (IF ts[i] > W THEN ts[i] ELSE ts[i] + 1) /\ us[i] \in 0 .. W + 1
  BY <1>1, <1>2
<1>4. us \in [1 .. Len(ts) -> 0 .. W + 1]
  BY <1>2, <1>3
<1>5. us \in Seq(0 .. W + 1) /\ Len(us) = Len(ts)
  BY <1>1, <1>4
<1> QED
  BY <1>1, <1>3, <1>5

\* When all ages but those beyond the window grow by one, what leaves the window
\* are the oldest ages in it.
LEMMA AgeingForgets ==
    ASSUME NEW W \in Nat \ {0}, NEW ts, Aged(W, ts), NEW us, Aged(W, us), Len(us) = Len(ts),
           \A i \in 1 .. Len(ts) : us[i] = IF ts[i] > W THEN ts[i] ELSE ts[i] + 1,
           NEW n, Expired(W, ts, n), NEW m, Expired(W, us, m)
    PROVE  /\ m - n \in 0 .. Len(Rest(ts, n))
           /\ \A i \in 1 .. Len(Rest(ts, n)) : Rest(ts, n)[i] >= W <=> i <= m - n
           /\ Rest(us, m) = [i \in 1 .. Len(Rest(ts, n)) - (m - n) |->
                               Rest(ts, n)[i + (m - n)] + 1]
<1> DEFINE p == Rest(ts, n)
           q == Rest(us, m)
           l == Len(ts)
<1>1. l \in Nat /\ n \in 0 .. l /\ m \in 0 .. l
  BY DEF Aged, Expired
<1>2. /\ Len(p) = l - n
      /\ \A i \in 1 .. l - n : p[i] = ts[n + i]
  BY RestIs
<1>3. /\ Aged(W, q) /\ Len(q) = l - m
      /\ \A i \in 1 .. l - m : q[i] = us[m + i]
  BY RestIs
<1>4. q = [i \in 1 .. l - m |-> q[i]]
  BY <1>3 DEF Aged
<1>5. \A i \in 1 .. l :
        /\ ts[i] \in Int
        /\ ts[i] > W <=> i <= n
        /\ us[i] > W <=> i <= m
        /\ us[i] = IF ts[i] > W THEN ts[i] ELSE ts[i] + 1
  BY DEF Aged, Ages, Expired
<1> HIDE DEF p, q, l
<1>6. n <= m
  <2>1. CASE n = 0
    BY <1>1, <2>1
  <2>2. CASE n # 0
    <3>1. n \in 1 .. l
      BY <1>1, <2>2
    <3>2. us[n] > W
      BY <1>1, <1>5, <3>1
    <3> QED
      BY <1>5, <3>1, <3>2
  <2> QED
    BY <2>1, <2>2
<1>7. m - n \in 0 .. Len(p) /\ Len(p) - (m - n) = l - m
  BY <1>1, <1>2, <1>6
<1>8. ASSUME NEW i \in 1 .. Len(p) PROVE p[i] >= W <=> i <= m - n
  <2>1. i \in 1 .. l - n
    BY <1>2
  <2>2. n + i \in 1 .. l /\ ~ (n + i <= n)
    BY <1>1, <2>1
  <2>3. /\ ts[n + i] \in Int /\ ~ (ts[n + i] > W)
        /\ ts[n + i] + 1 > W <=> n + i <= m
    BY <1>5, <2>2
  <2>4. p[i] = ts[n + i] /\ (n + i <= m <=> i <= m - n)
    BY <1>1, <1>2, <2>1
  <2> QED
    BY <2>3, <2>4
<1>9. ASSUME NEW i \in 1 .. l - m PROVE q[i] = p[i + (m - n)] + 1
  <2>1. /\ m + i \in 1 .. l /\ i + (m - n) \in 1 .. l - n
        /\ n + (i + (m - n)) = m + i /\ ~ (m + i <= n)
    BY <1>1, <1>6
  <2>2. q[i] = us[m + i] /\ p[i + (m - n)] = ts[m + i]
    BY <1>2, <1>3, <2>1
  <2> QED
    BY <1>5, <2>1, <2>2
<1>10. q = [i \in 1 .. l - m |-> p[i + (m - n)] + 1]
  BY <1>4, <1>9
<1> QED
  BY <1>7, <1>8, <1>10 DEF p, q
=============================================================================
