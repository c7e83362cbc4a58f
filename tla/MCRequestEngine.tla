-------------------------- MODULE MCRequestEngine ---------------------------
(* Small instances of the request engine for TLC.                          *)
EXTENDS RequestProperties, TLC

CONSTANTS r1, r2, r3, k1, k2

Symmetry2 == Permutations({r1, r2})
Symmetry3 == Permutations({r1, r2, r3})

OneKey    == <<k1>>
TwoKeys   == <<k1, k2>>

Answer(status, body, hints, retry_after, headers, usage) ==
    [status |-> status, json_type |-> body \in {"object", "other_json"}, body |-> body,
     hints |-> hints, retry_after |-> retry_after, headers |-> headers, usage |-> usage]

Plain       == Answer(200, "not_json", {}, FALSE, <<>>, None)
WithQuota   == Answer(200, "object", {}, FALSE, <<Quota!Number(5)>>, None)
UsedUp      == Answer(200, "object", {}, FALSE, <<>>, 0)
JsonArray   == Answer(200, "other_json", {}, FALSE, <<>>, None)
QuotaGone   == Answer(429, "object", {"quota"}, FALSE, <<>>, None)
Throttled   == Answer(429, "object", {"rate_limit"}, FALSE, <<>>, None)
Unavailable == Answer(503, "not_json", {}, TRUE, <<>>, None)

SuccessQuota == {Plain, QuotaGone}
Mixed        == {Plain, QuotaGone, Throttled}
Counted      == {WithQuota, QuotaGone}
Varied       == {UsedUp, QuotaGone, Throttled, Unavailable}
ArraysToo    == {Plain, QuotaGone, JsonArray}
=============================================================================
