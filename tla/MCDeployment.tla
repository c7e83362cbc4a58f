---------------------------- MODULE MCDeployment -----------------------------
(* Small instances of the shared file and store for TLC.                   *)
EXTENDS Deployment, TLC

CONSTANTS s1, s2, e1, e2, key1, key2, key3, x, y, A, B, C

TwoNames   == <<key1, key2>>
ThreeNames == <<key1, key2, key3>>

\* A key that is named by its position.
OneAuto == <<[id |-> None, value |-> A]>>

NewKeys == {[id |-> x, value |-> B]}

TwoNewKeys == NewKeys \union {[id |-> y, value |-> C]}

\* POOLSWITCH_KEYS=B.
OneFromEnv == {<<[id |-> None, value |-> B]>>}

\* A key that is cut off.
CutKey == {[id |-> None, value |-> B]}

EditorSymmetry == Permutations({e1, e2})
BothSymmetry   == Permutations({s1, s2}) \union EditorSymmetry
=============================================================================
