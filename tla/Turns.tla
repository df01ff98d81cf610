--------------------------------- MODULE Turns ---------------------------------
(***************************************************************************)
(* What a console connection promises to the goroutines that share it: a   *)
(* line is executed at most once and alone, and its caller is told once,   *)
(* after the line has stopped.  SSHClient implements this.                 *)
(***************************************************************************)
CONSTANTS Caller,  \* each has one line
          Verdict, \* what a caller can be told
          Heard    \* the verdicts that are the device's answer to the line

VARIABLES
    started,  \* the callers whose line was given to the device
    running,  \* the callers whose line the device may be executing
    told      \* what each caller was told, "none" before

vars == <<started, running, told>>

Init ==
    /\ started = {} /\ running = {}
    /\ told = [p \in Caller |-> "none"]

Start(p) ==
    /\ running = {} /\ p \notin started /\ told[p] = "none"
    /\ started' = started \cup {p}
    /\ running' = {p}
    /\ UNCHANGED told

\* The line has stopped; its caller is not told yet.
Stop(p) ==
    /\ p \in running
    /\ running' = running \ {p}
    /\ UNCHANGED <<started, told>>

Tell(p, v) ==
    /\ told[p] = "none"
    /\ v \in Heard => p \in started
    /\ told' = [told EXCEPT ![p] = v]
    /\ running' = running \ {p}
    /\ UNCHANGED started

Next ==
    \E p \in Caller :
        \/ Start(p) \/ Stop(p)
        \/ \E v \in Verdict : Tell(p, v)

Spec == Init /\ [][Next]_vars
=============================================================================
