------------------------------ MODULE MCSession ------------------------------
(***************************************************************************)
(* Session on small instances.                                             *)
(***************************************************************************)
EXTENDS Session, TLC

CONSTANTS r1, r2, l1

\* No runner cancels a listener, or the last one cancels l1.
NoTarget == [p \in Runners |-> None]
LastTarget == [p \in Runners |-> IF p = r2 THEN l1 ELSE None]
=============================================================================
