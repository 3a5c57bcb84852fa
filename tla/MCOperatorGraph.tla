-------------------------- MODULE MCOperatorGraph --------------------------
(* The operator loop on small instances; the cfg files give the bounds.    *)
EXTENDS OperatorGraph
=============================================================================
