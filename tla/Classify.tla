------------------------------ MODULE Classify ------------------------------
(***************************************************************************)
(* What the gateway makes of an upstream response (core/quota.py and       *)
(* ProxyService._extract_remaining_quota).  A response is abstracted to    *)
(* the features those two functions tell apart: its status, its content    *)
(* type, what its body parses to, which families of hints its text holds,  *)
(* and the three quota headers.                                            *)
(***************************************************************************)
EXTENDS Integers, Sequences

CONSTANT None     \* Python's None

\* What one of the quota headers holds.  "nan" is text to int(float(_)): both
\* raise ValueError.  "inf" parses as a float but raises OverflowError in int().
HeaderKinds == {"absent", "text", "infinite", "number"}
Absent == [kind |-> "absent", value |-> 0]
Number(n) == [kind |-> "number", value |-> n]

\* What response.json() makes of the body: a mapping, another JSON value, no
\* JSON at all (json.JSONDecodeError), or bytes it cannot decode
\* (UnicodeDecodeError, which is a ValueError but not a JSONDecodeError).
BodyKinds == {"object", "other_json", "not_json", "undecodable"}

Hints == {"quota", "rate_limit"}

Response(statuses, values, usages) ==
    [ status       : statuses,
      json_type    : BOOLEAN,          \* content-type mentions application/json
      body         : BodyKinds,
      hints        : SUBSET Hints,     \* families of hints found in the body's text
      retry_after  : BOOLEAN,          \* a non-empty retry-after header
      headers      : Seq([kind : HeaderKinds, value : values]),
      usage        : usages ]          \* payload["usage"]["remaining_quota"], None when
                                       \* a level is missing or of another type

-----------------------------------------------------------------------------
\* response_payload and _flatten_messages: text counts only when the body is
\* declared to be JSON and is JSON.
message_hints(resp) ==
    IF resp.json_type /\ resp.body \in {"object", "other_json"} THEN resp.hints ELSE {}

Classification(retry, quota, reason) ==
    [should_retry |-> retry, quota_exceeded |-> quota, reason |-> reason]

classify_response(resp) ==
    CASE resp.status = 429 /\ "quota" \in message_hints(resp) ->
            Classification(TRUE, TRUE, "quota_exceeded")
      [] resp.status = 429 /\ "quota" \notin message_hints(resp) ->
            Classification(TRUE, FALSE, "rate_limited")
      [] resp.status \in {401, 403} /\ "quota" \in message_hints(resp) ->
            Classification(FALSE, TRUE, "quota_exceeded")
      [] resp.status >= 500 /\ resp.retry_after ->
            Classification(TRUE, FALSE, "upstream_retry_after")
      [] OTHER ->
            Classification(FALSE, FALSE, "ok")

-----------------------------------------------------------------------------
\* The first header that is neither absent nor unparsable settles the answer.
Telling(resp) == {i \in DOMAIN resp.headers : resp.headers[i].kind \in {"number", "infinite"}}
FirstTelling(resp) == CHOOSE i \in Telling(resp) : \A j \in Telling(resp) : i <= j

\* The exceptions _extract_remaining_quota lets escape: OverflowError from an
\* infinite header, UnicodeDecodeError from an undecodable body, and the
\* AttributeError of payload.get when the body is JSON but not a mapping.
extract_raises(resp) ==
    IF Telling(resp) # {}
    THEN resp.headers[FirstTelling(resp)].kind = "infinite"
    ELSE resp.body \in {"undecodable", "other_json"}

extract_remaining_quota(resp) ==
    IF Telling(resp) # {}
    THEN resp.headers[FirstTelling(resp)].value
    ELSE IF resp.body = "object" THEN resp.usage ELSE None
=============================================================================
