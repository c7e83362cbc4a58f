--------------------------- MODULE SlidingWindow ----------------------------
(***************************************************************************)
(* What rate_limit_per_second promises: in no window of one second are     *)
(* more than MaxRequests calls let through.  The state is the age of each  *)
(* call let through within the window, oldest first.                       *)
(***************************************************************************)
EXTENDS Integers, Sequences

CONSTANTS
    Window,         \* ticks in one second
    MaxRequests     \* calls allowed per second

VARIABLE log

Init == log = <<>>

Admit ==
    /\ Len(log) < MaxRequests
    /\ log' = Append(log, 0)

\* All calls get older; those that leave the window, the n oldest, are forgotten.
Tick ==
    \E n \in 0 .. Len(log) :
        /\ \A i \in 1 .. Len(log) : log[i] >= Window <=> i <= n
        /\ log' = [i \in 1 .. Len(log) - n |-> log[i + n] + 1]

Next == Admit \/ Tick

Spec == Init /\ [][Next]_log
=============================================================================
