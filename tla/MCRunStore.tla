------------------------------ MODULE MCRunStore ------------------------------
EXTENDS RunStore, TLC

CONSTANTS c1, c2

(* Copies are interchangeable.                                             *)
Symmetry == Permutations({c1, c2})
=============================================================================
