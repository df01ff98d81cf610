----------------------------- MODULE MCCtxWriter -----------------------------
(***************************************************************************)
(* CtxWriter with the bounds of its cfgs.                                  *)
(***************************************************************************)
EXTENDS CtxWriter
=============================================================================
