----------------------------- MODULE MCCtxReader -----------------------------
(***************************************************************************)
(* CtxReader with the bounds of its cfgs.                                  *)
(***************************************************************************)
EXTENDS CtxReader
=============================================================================
