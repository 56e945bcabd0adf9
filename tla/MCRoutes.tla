------------------------------ MODULE MCRoutes ------------------------------
(***************************************************************************)
(* A small instance of Routes.                                             *)
(***************************************************************************)
EXTENDS Routes

CONSTANTS n1, n2, c1, c2, f1

OneNodeBefore == {[n \in Nodes |-> IF n = n1 THEN c1 ELSE None]}
OneForeign == {<<f1, f1>>}
=============================================================================
