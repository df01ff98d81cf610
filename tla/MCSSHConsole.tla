----------------------------- MODULE MCSSHConsole -----------------------------
(***************************************************************************)
(* SSHConsole with two callers of Run and one of Validate.                 *)
(***************************************************************************)
EXTENDS SSHConsole

CONSTANTS p1, p2, p3, char1, char2, k1, k2

\* A line with quotes and an escaped backslash, one with a variable, and one
\* that is refused.
Lines == {<<Quote, Backslash, Backslash, Quote>>, <<Dollar, char1>>, <<char1, Quote>>}
=============================================================================
