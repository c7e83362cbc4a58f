----------------------------- MODULE Strategies -----------------------------
(***************************************************************************)
(* The routing strategies (poolswitch/strategies/impl.py): which of the    *)
(* candidate keys a request may be given.  Candidates come in the order of *)
(* the pool's definitions; s maps each of them to the row that was read.   *)
(* Every strategy but random leaves one choice.                            *)
(***************************************************************************)
EXTENDS KeyState, Sequences, FiniteSets

CONSTANT Strategy       \* config.strategy

StrategyNames == {"round_robin", "least_used", "random", "quota_failover"}
ASSUME StrategyAssumption == Strategy \in StrategyNames

Before(order, k, l) ==
    \E i, j \in DOMAIN order : i < j /\ order[i] = k /\ order[j] = l

timestamp_or_minimum(t) == IF t = None THEN 0 ELSE t

\* Python's order on tuples of integers of one length.
Less(a, b) ==
    \E i \in DOMAIN a : a[i] < b[i] /\ \A j \in 1 .. (i - 1) : a[j] = b[j]

\* min(candidates, key=...): the first of the candidates with the least tuple.
FirstLeast(cand, order, tuple) ==
    {k \in cand : \A c \in cand \ {k} :
        Less(tuple[k], tuple[c]) \/ (tuple[k] = tuple[c] /\ Before(order, k, c))}

RoundRobinStrategy(cand, order, index) ==
    {k \in cand : Cardinality({c \in cand : Before(order, c, k)}) = index % Cardinality(cand)}

LeastUsedStrategy(cand, order, s) ==
    FirstLeast(cand, order, [k \in cand |->
        << s[k].total_requests,
           s[k].error_count,
           timestamp_or_minimum(s[k].last_used_at) >>])

QuotaFailoverStrategy(cand, order, s, now) ==
    FirstLeast(cand, order, [k \in cand |->
        << IF is_in_cooldown(s[k], now) THEN 1 ELSE 0,
           IF s[k].estimated_remaining_quota = None THEN 1 ELSE 0,
           IF s[k].estimated_remaining_quota = None THEN 0 ELSE -s[k].estimated_remaining_quota,
           s[k].consecutive_rate_limits,
           s[k].error_count,
           s[k].total_requests,
           timestamp_or_minimum(s[k].last_used_at) >>])

choose(cand, order, s, index, now) ==
    {k \in cand :
        \/ Strategy = "round_robin" /\ k \in RoundRobinStrategy(cand, order, index)
        \/ Strategy = "least_used" /\ k \in LeastUsedStrategy(cand, order, s)
        \/ Strategy = "random"
        \/ Strategy = "quota_failover" /\ k \in QuotaFailoverStrategy(cand, order, s, now)}
=============================================================================
