---------------------------- MODULE MCSyncClient -----------------------------
(* Small instances of the synchronous client for TLC.                      *)
EXTENDS SyncClient, TLC

CONSTANTS maker, t1, t2, t3, c1, c2
=============================================================================
