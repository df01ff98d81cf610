---------------------------- MODULE MCSchemaStore ----------------------------
(***************************************************************************)
(* SchemaStore for a print command, and a command that the device does not *)
(* have.  The rows are those of two builds: older ones say arg and cmd in  *)
(* type, newer ones in node-type.                                          *)
(***************************************************************************)
EXTENDS SchemaStore, TLC

CONSTANTS print, gone, n1, n2, n3, n3eq, punct, descr, find, p1, p2

\* A row with nothing filled, and how a name is cut.
Row == [type |-> "completion", nodeType |-> "none", name |-> None,
        completion |-> None, value |-> None, text |-> None]
UpToEq == [t \in Token |-> IF t = n3eq THEN n3 ELSE t]

VerbOf == [c \in Cmd |-> c]
AttrsOf == [c \in Cmd |-> IF c = print THEN {n1, n2, n3} ELSE {}]

\* print has the argument n1, its completion gives n2 with its description, and
\* that of proplist gives n3 as n3=value beside punctuation and a bare text.
Child == [c \in Cmd |->
    {[Row EXCEPT !.type = "arg", !.name = n1],
     [Row EXCEPT !.type = "cmd", !.name = find]}]
Path == [c \in Cmd |->
    {[Row EXCEPT !.type = "child", !.nodeType = "cmd", !.name = print],
     [Row EXCEPT !.type = "child", !.nodeType = "arg", !.name = gone]}]
Extra == [c \in Cmd |-> {[Row EXCEPT !.completion = n2, !.text = descr]}]
Field == [c \in Cmd |->
    {[Row EXCEPT !.value = n3eq], [Row EXCEPT !.completion = punct],
     [Row EXCEPT !.text = n1]}]

\* These devices are among those that the theorems are about.
ASSUME DeviceAssumption == HonestRows /\ CompleteRows

\* Callers are interchangeable.
CallerSymmetry == Permutations(Caller)
=============================================================================
