------------------------------ MODULE KeyState ------------------------------
(***************************************************************************)
(* The bookkeeping row PoolSwitch keeps for one API key and the five ways  *)
(* the key pool changes it (poolswitch/models.py, core/key_pool.py).  Time *)
(* is an integer that starts at 1, so that 0 can stand for the timestamp   *)
(* of a key that was never used.                                           *)
(***************************************************************************)
EXTENDS Integers

CONSTANTS
    None,       \* Python's None: no row, no quota, no timestamp, no key
    Cooldown    \* config.cooldown_seconds, any int: nothing validates it

ASSUME NoneAssumption == None \notin Int
ASSUME CooldownAssumption == Cooldown \in Int

Optional(S) == S \union {None}

APIKeyState ==
    [ total_requests            : Nat,
      error_count               : Nat,
      failover_count            : Nat,
      estimated_remaining_quota : Optional(Int),
      last_used_at              : Optional(Nat),
      cooldown_until            : Optional(Int),
      consecutive_rate_limits   : Nat ]

\* APIKeyState(key_id=...): the dataclass defaults.
Fresh ==
    [ total_requests            |-> 0,
      error_count               |-> 0,
      failover_count            |-> 0,
      estimated_remaining_quota |-> None,
      last_used_at              |-> None,
      cooldown_until            |-> None,
      consecutive_rate_limits   |-> 0 ]

is_in_cooldown(s, now) == s.cooldown_until # None /\ s.cooldown_until > now

-----------------------------------------------------------------------------
(* The row each record_* method computes from the row it has read.         *)

Succeeded(s, now, quota) ==
    [s EXCEPT !.total_requests = @ + 1,
              !.last_used_at = now,
              !.consecutive_rate_limits = 0,
              !.cooldown_until = None,
              !.estimated_remaining_quota = IF quota = None THEN @ ELSE quota]

TransientError(s, now, reason) ==
    [s EXCEPT !.error_count = @ + 1,
              !.last_used_at = now,
              !.consecutive_rate_limits = IF reason = "rate_limited" THEN @ + 1 ELSE @]

\* Mutated form: an unknown quota stays unknown.
QuotaExhaustedUnknown(s, now) ==
    [s EXCEPT !.error_count = @ + 1,
              !.consecutive_rate_limits = @ + 1,
              !.cooldown_until = now + Cooldown,
              !.last_used_at = now,
              !.estimated_remaining_quota = IF @ = None THEN None ELSE IF @ > 0 THEN 0 ELSE @]

QuotaExhausted(s, now) ==
    [s EXCEPT !.error_count = @ + 1,
              !.consecutive_rate_limits = @ + 1,
              !.cooldown_until = now + Cooldown,
              !.last_used_at = now,
              !.estimated_remaining_quota = IF @ = None THEN 0 ELSE IF @ > 0 THEN 0 ELSE @]

\* Mutated forms: the neighbouring counter, and a slipped sign.
FailedOverAsError(s) == [s EXCEPT !.error_count = @ + 1]
FailedOverBackwards(s) == [s EXCEPT !.failover_count = @ - 1]

FailedOver(s) == [s EXCEPT !.failover_count = @ + 1]

-----------------------------------------------------------------------------
(* A row tells one coherent story about its key whatever writes were lost: *)
(* a row is written whole, from a row that was read whole.  A cooldown is  *)
(* accounted for by a known, used-up quota and by an error, and ends no    *)
(* later than one Cooldown after the last use; rate limits in a row are    *)
(* errors; and a timestamp is there exactly when the key was used.         *)
RowConsistent(s) ==
    /\ s.cooldown_until # None =>
          /\ s.estimated_remaining_quota # None
          /\ s.estimated_remaining_quota <= 0
          /\ s.error_count > 0
          /\ s.consecutive_rate_limits > 0
          /\ s.cooldown_until <= s.last_used_at + Cooldown
    /\ s.consecutive_rate_limits <= s.error_count
    /\ s.last_used_at = None <=> (s.total_requests = 0 /\ s.error_count = 0)
=============================================================================
