--------------------------- MODULE MCBurstRuntime ---------------------------
EXTENDS BurstRuntime, TLC

CONSTANTS r1, r2, r3, k1, k2

(* Requests and keys are interchangeable.                                  *)
Symmetry3 == Permutations({r1, r2, r3}) \cup Permutations({k1, k2})
=============================================================================
