---------------------------- MODULE MCAsyncClient ----------------------------
(***************************************************************************)
(* AsyncClient on small instances.                                         *)
(***************************************************************************)
EXTENDS AsyncClient

CONSTANTS r1, l1
=============================================================================
