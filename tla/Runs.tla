---------------------------------- MODULE Runs ----------------------------------
(***************************************************************************)
(* What RunArgsContext promises to its callers, without tags, locks and    *)
(* loops: each reply grows while it is open, is closed by its end, by the  *)
(* end of the connection or by Close, does not change any more, and is     *)
(* what its caller is told, once.  AsyncClient implements this.            *)
(***************************************************************************)
EXTENDS Naturals

CONSTANT Caller  \* each makes one call

VARIABLES
    rows,    \* the rows of the reply
    done,    \* it has its !done
    error,   \* "none", or the error kept with the reply
    closed,  \* the reply cannot change any more
    result,  \* what the caller is told, "pending" before
    shut     \* the client was closed

vars == <<rows, done, error, closed, result, shut>>

Init ==
    /\ rows = [p \in Caller |-> 0]
    /\ done = [p \in Caller |-> FALSE]
    /\ error = [p \in Caller |-> "none"]
    /\ closed = [p \in Caller |-> FALSE]
    /\ result = [p \in Caller |-> "pending"]
    /\ shut = FALSE

Open(p) == ~closed[p] /\ result[p] = "pending"

Row(p) == Open(p) /\ rows' = [rows EXCEPT ![p] = @ + 1] /\ UNCHANGED <<done, error>>
Done(p) == Open(p) /\ done' = [done EXCEPT ![p] = TRUE] /\ UNCHANGED <<rows, error>>
Trap(p) == Open(p) /\ error' = [error EXCEPT ![p] = "device"] /\ UNCHANGED <<rows, done>>

\* A sentence of the reply.
Grow(p) == (Row(p) \/ Done(p) \/ Trap(p)) /\ UNCHANGED <<closed, result, shut>>

\* The result that a closed reply gives.
Verdict(e) == IF e = "none" THEN {"ok", "ctx"} ELSE {e}

\* Some replies are closed: an error may come with it.  Without one the reply
\* is complete, or the application has closed the client.
CloseReplies ==
    LET S == {p \in Caller : closed'[p] /\ ~closed[p]}
    IN  /\ \A p \in S : Open(p) /\ (error'[p] = "none" => done[p] \/ shut)
        /\ closed' = [p \in Caller |-> closed[p] \/ p \in S]
        /\ \A p \in Caller : error'[p] # error[p] => p \in S /\ error[p] = "none"
        /\ UNCHANGED <<rows, done, result, shut>>

Tell(p) ==
    /\ closed[p] /\ result[p] = "pending"
    /\ \E r \in Verdict(error[p]) : result' = [result EXCEPT ![p] = r]
    /\ UNCHANGED <<rows, done, error, closed, shut>>

\* A synchronous call is told as it reads its last sentence.
GrowAndTell(p) ==
    /\ Done(p) \/ Trap(p)
    /\ closed' = [closed EXCEPT ![p] = TRUE]
    /\ result' = [result EXCEPT ![p] = IF error'[p] = "none" THEN "ok" ELSE error'[p]]
    /\ UNCHANGED shut

\* The sentence was not sent, or a synchronous call cannot read on.
Fail(p) ==
    /\ Open(p)
    /\ closed' = [closed EXCEPT ![p] = TRUE]
    /\ \E r \in {"write", "ended", "read"} : result' = [result EXCEPT ![p] = r]
    /\ UNCHANGED <<rows, done, error, shut>>

Shut == shut' = TRUE /\ UNCHANGED <<rows, done, error, closed, result>>

Next ==
    \/ \E p \in Caller : Grow(p) \/ Tell(p) \/ GrowAndTell(p) \/ Fail(p)
    \/ CloseReplies \/ Shut

Spec == Init /\ [][Next]_vars
=============================================================================
