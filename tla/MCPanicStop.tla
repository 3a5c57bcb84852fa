---------------------------- MODULE MCPanicStop ----------------------------
EXTENDS PanicStop, TLC

CONSTANTS s1, s2, t1, t2

(* Sessions and tasks are interchangeable.                                 *)
Symmetry == Permutations({s1, s2}) \cup Permutations({t1, t2})
=============================================================================
