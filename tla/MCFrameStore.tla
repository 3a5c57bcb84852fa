---------------------------- MODULE MCFrameStore ----------------------------
EXTENDS FrameStore, TLC

CONSTANTS a, b, s1, s2, k1, k2

(* Readers, screens and keyboard states are interchangeable.               *)
Symmetry == Permutations({a, b}) \cup Permutations({s1, s2}) \cup Permutations({k1, k2})
=============================================================================
