--------------------------- MODULE MCRateLimiter ----------------------------
(* A small instance of the rate limiter for TLC: three tasks, so that one   *)
(* can sleep while two wait in either order.                                *)
EXTENDS RateLimiter

CONSTANTS t1, t2, t3

ThreeTasks == {t1, t2, t3}
=============================================================================
