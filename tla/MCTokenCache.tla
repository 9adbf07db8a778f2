----------------------------- MODULE MCTokenCache -----------------------------
(* An instance of TokenCache for TLC.                                      *)
EXTENDS TokenCache, TLC

CONSTANTS r1, r2, patA, patB, keyA, keyB, alice, bob

Owners  == patA :> alice @@ patB :> bob
Digests == patA :> keyA @@ patB :> keyB

RequestSymmetry == Permutations({r1, r2})
===============================================================================
