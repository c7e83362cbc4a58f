---------------------------- MODULE MCNodeClient -----------------------------
(* A small instance of the client for Node for TLC.                        *)
EXTENDS NodeClient

CONSTANTS r1, r2, k1, k2, k3
=============================================================================
