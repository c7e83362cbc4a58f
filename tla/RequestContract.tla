-------------------------- MODULE RequestContract ---------------------------
(***************************************************************************)
(* What a caller may count on, without stores, locks, strategies or        *)
(* metrics: which upstream calls a request makes.  One call at a time;     *)
(* never a key again that has failed; a second call only for a method that *)
(* may be retried, within the budget; none after upstream accepted one;    *)
(* and none after the end.  RequestEngine and NodeClient implement it.     *)
(***************************************************************************)
EXTENDS Integers, FiniteSets

CONSTANTS Requests, Keys, RetryAttempts, None

VARIABLES
    retryable,  \* whether the request's method may be retried
    phase,      \* "waiting", "out", "accepted" or "ended"
    with,       \* the key the request is out with, or None
    failed      \* the keys it has failed with

vars == <<retryable, phase, with, failed>>

Init ==
    /\ retryable \in [Requests -> BOOLEAN]
    /\ phase = [r \in Requests |-> "waiting"]
    /\ with = [r \in Requests |-> None]
    /\ failed = [r \in Requests |-> {}]

MayRetry(r) == retryable[r] /\ Cardinality(failed[r]) < RetryAttempts

Send(r) ==
    /\ phase[r] = "waiting"
    /\ failed[r] = {} \/ MayRetry(r)
    /\ phase' = [phase EXCEPT ![r] = "out"]
    /\ \E k \in Keys \ failed[r] : with' = [with EXCEPT ![r] = k]
    /\ UNCHANGED <<retryable, failed>>

\* Upstream has accepted the request.
Accept(r) ==
    /\ phase[r] = "out"
    /\ phase' = [phase EXCEPT ![r] = "accepted"]
    /\ UNCHANGED <<retryable, with, failed>>

\* Upstream has refused, or not answered, and that is recorded of the key.  The
\* request may end with it.
Fail(r) ==
    /\ phase[r] = "out"
    /\ \E next \in {"waiting", "ended"} : phase' = [phase EXCEPT ![r] = next]
    /\ with' = [with EXCEPT ![r] = None]
    /\ failed' = [failed EXCEPT ![r] = @ \union {with[r]}]
    /\ UNCHANGED retryable

\* Requests end: one with its answer or an error, all of them in a crash.
End(S) ==
    /\ phase' = [r \in Requests |-> IF r \in S THEN "ended" ELSE phase[r]]
    /\ with' = [r \in Requests |-> IF r \in S THEN None ELSE with[r]]
    /\ UNCHANGED <<retryable, failed>>

Next ==
    \/ \E r \in Requests : Send(r) \/ Accept(r) \/ Fail(r)
    \/ \E S \in SUBSET Requests : End(S)

Spec == Init /\ [][Next]_vars
=============================================================================
