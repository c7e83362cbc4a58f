---------------------------- MODULE MCAsyncClient ----------------------------
(* A small instance of the asynchronous client's life for TLC.             *)
EXTENDS AsyncClient

CONSTANTS r1, r2, r3, c1, c2
=============================================================================
