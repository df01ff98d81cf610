------------------------------ MODULE MCPipeline ------------------------------
(***************************************************************************)
(* Pipeline with two callers and a device that gains an attribute.         *)
(***************************************************************************)
EXTENDS Pipeline

CONSTANTS p1, p2, attr1, attr2
=============================================================================
