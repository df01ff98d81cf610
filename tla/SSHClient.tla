------------------------------ MODULE SSHClient ------------------------------
(***************************************************************************)
(* transport/ssh.Client: goroutines that call Run on one connection, the   *)
(* mutex that makes them take turns, the goroutine that waits for the      *)
(* output of a session, and Close (transport/ssh/ssh.go).                  *)
(*                                                                         *)
(* The SSH library is modelled from its use here: NewSession and Output    *)
(* wait for the device; Close of a session only asks the device to close   *)
(* its channel, and Output waits until it has, or until the connection is  *)
(* gone; Close of the connection ends everything.                          *)
(***************************************************************************)
EXTENDS Naturals, FiniteSets

CONSTANTS Caller,    \* goroutines that make one Run call each
          CtxEnds,   \* the callers whose context may end
          MaxClose,  \* bound on calls of Close
          None

ASSUME SSHAssumption ==
    /\ IsFiniteSet(Caller) /\ CtxEnds \subseteq Caller
    /\ MaxClose \in Nat /\ None \notin Caller

VARIABLES
    mu,       \* the caller that holds c.mu, or None
    conn,     \* the SSH connection: "open", "broken" or "closed"
    closes,   \* calls of Close so far
    ctxDone,  \* the caller's context is done
    pc,       \* where its Run is
    sess,     \* its session: "none", "open" or "closed"
    output,   \* its Output goroutine: "none", "running", "sent"
    answer,   \* what it put into done
    res       \* what Run returned

vars == <<mu, conn, closes, ctxDone, pc, sess, output, answer, res>>

PC == {"idle", "lock", "open", "select", "reap", "returned"}
\* "text" is console output, whatever the exit status; "empty" an exit with
\* status 0 and "silent" one with another status, both without output; "error"
\* the end of the channel without a status.
Answer == {"none", "text", "empty", "silent", "error"}
Result == {"none", "text", "empty", "failed", "error", "ctx"}

TypeOK ==
    /\ mu \in Caller \cup {None} /\ conn \in {"open", "broken", "closed"}
    /\ closes \in 0 .. MaxClose
    /\ ctxDone \in [Caller -> BOOLEAN]
    /\ pc \in [Caller -> PC]
    /\ sess \in [Caller -> {"none", "open", "closed"}]
    /\ output \in [Caller -> {"none", "running", "sent"}]
    /\ answer \in [Caller -> Answer]
    /\ res \in [Caller -> Result]

Init ==
    /\ mu = None /\ conn = "open" /\ closes = 0
    /\ ctxDone = [p \in Caller |-> FALSE]
    /\ pc = [p \in Caller |-> "idle"]
    /\ sess = [p \in Caller |-> "none"]
    /\ output = [p \in Caller |-> "none"]
    /\ answer = [p \in Caller |-> "none"]
    /\ res = [p \in Caller |-> "none"]

-----------------------------------------------------------------------------
(* Run.                                                                    *)

\* Mutant: the mutex is kept.
Unlock_Never(p) == UNCHANGED mu

\* The deferred Unlock.
Unlock(p) == mu' = IF mu = p THEN None ELSE mu

\* Run returns: the deferred sess.Close() and Unlock.
Return(p, r) ==
    /\ pc' = [pc EXCEPT ![p] = "returned"]
    /\ res' = [res EXCEPT ![p] = r]
    /\ sess' = [sess EXCEPT ![p] = IF @ = "open" THEN "closed" ELSE @]
    /\ Unlock(p)

\* A context that is done already is reported at once.
RunCall(p) ==
    /\ pc[p] = "idle"
    /\ \/ ctxDone[p] /\ Return(p, "ctx")
       \/ /\ ~ctxDone[p]
          /\ pc' = [pc EXCEPT ![p] = "lock"]
          /\ UNCHANGED <<mu, sess, res>>
    /\ UNCHANGED <<conn, closes, ctxDone, output, answer>>

\* Mutant: Run takes no lock.
Free_Always == TRUE

\* c.mu is free.
Free == mu = None

RunLock(p) ==
    /\ pc[p] = "lock"
    /\ Free
    /\ mu' = p
    /\ pc' = [pc EXCEPT ![p] = "open"]
    /\ UNCHANGED <<conn, closes, ctxDone, sess, output, answer, res>>

\* NewSession fails on a lost connection.
OpenFails(p) ==
    /\ pc[p] = "open"
    /\ conn # "open"
    /\ Return(p, "error")
    /\ UNCHANGED <<conn, closes, ctxDone, output, answer>>

\* NewSession waits for the device to open the channel; then Output runs in a
\* goroutine of its own.
SessionOpens(p) ==
    /\ pc[p] = "open"
    /\ conn = "open"
    /\ pc' = [pc EXCEPT ![p] = "select"]
    /\ sess' = [sess EXCEPT ![p] = "open"]
    /\ output' = [output EXCEPT ![p] = "running"]
    /\ UNCHANGED <<mu, conn, closes, ctxDone, answer, res>>

\* Output ends without the device: the connection is gone.
OutputEnds(p) ==
    /\ output[p] = "running"
    /\ conn # "open"
    /\ output' = [output EXCEPT ![p] = "sent"]
    /\ answer' = [answer EXCEPT ![p] = "error"]
    /\ UNCHANGED <<mu, conn, closes, ctxDone, pc, sess, res>>

\* Mutant: the session is left open.
CloseSession_Never(p) == UNCHANGED sess

\* Release the session to unblock Output: the device is asked to close it.
CloseSession(p) == sess' = [sess EXCEPT ![p] = "closed"]

\* Mutant: the goroutine is not waited for.
RunCtx_NoReap(p) ==
    /\ pc[p] = "select"
    /\ ctxDone[p]
    /\ Return(p, "ctx")
    /\ UNCHANGED <<conn, closes, ctxDone, output, answer>>

\* select: the context is done.
RunCtx(p) ==
    /\ pc[p] = "select"
    /\ ctxDone[p]
    /\ CloseSession(p)
    /\ pc' = [pc EXCEPT ![p] = "reap"]
    /\ UNCHANGED <<mu, conn, closes, ctxDone, output, answer, res>>

\* <-done.
RunReap(p) ==
    /\ pc[p] = "reap"
    /\ output[p] = "sent"
    /\ Return(p, "ctx")
    /\ UNCHANGED <<conn, closes, ctxDone, output, answer>>

\* What the answer in done means: output counts whatever the exit status, and
\* without output another status than 0 is a failed command.
ResultOf(a) == IF a = "silent" THEN "failed" ELSE a

\* select: the answer.
RunAnswer(p) ==
    /\ pc[p] = "select"
    /\ output[p] = "sent"
    /\ Return(p, ResultOf(answer[p]))
    /\ UNCHANGED <<conn, closes, ctxDone, output, answer>>

-----------------------------------------------------------------------------
(* Close, and the environment.                                             *)

\* Close waits for the Run in progress.
Close ==
    /\ mu = None
    /\ closes < MaxClose
    /\ closes' = closes + 1
    /\ conn' = "closed"
    /\ UNCHANGED <<mu, ctxDone, pc, sess, output, answer, res>>

ConnBreak ==
    /\ conn = "open"
    /\ conn' = "broken"
    /\ UNCHANGED <<mu, closes, ctxDone, pc, sess, output, answer, res>>

CtxEnd(p) ==
    /\ p \in CtxEnds /\ ~ctxDone[p]
    /\ ctxDone' = [ctxDone EXCEPT ![p] = TRUE]
    /\ UNCHANGED <<mu, conn, closes, pc, sess, output, answer, res>>

\* The device executes the line of an open session (external).
DevAnswer(p) ==
    /\ conn = "open" /\ sess[p] = "open" /\ output[p] = "running"
    /\ output' = [output EXCEPT ![p] = "sent"]
    /\ \E a \in Answer \ {"none"} : answer' = [answer EXCEPT ![p] = a]
    /\ UNCHANGED <<mu, conn, closes, ctxDone, pc, sess, res>>

\* It closes the channel of a session that was closed here (external).
DevCloses(p) ==
    /\ conn = "open" /\ sess[p] = "closed" /\ output[p] = "running"
    /\ output' = [output EXCEPT ![p] = "sent"]
    /\ answer' = [answer EXCEPT ![p] = "error"]
    /\ UNCHANGED <<mu, conn, closes, ctxDone, pc, sess, res>>

-----------------------------------------------------------------------------
Local(p) ==
    \/ RunCall(p) \/ RunLock(p) \/ OpenFails(p)
    \/ RunCtx(p) \/ RunReap(p) \/ RunAnswer(p)

Device(p) == SessionOpens(p) \/ DevAnswer(p) \/ DevCloses(p)

Next ==
    \/ \E p \in Caller : Local(p) \/ OutputEnds(p) \/ Device(p) \/ CtxEnd(p)
    \/ Close \/ ConnBreak

\* The goroutines that can run do, and sync.Mutex starves nobody.
ClientFairness ==
    \A p \in Caller : WF_vars(Local(p)) /\ SF_vars(RunLock(p)) /\ WF_vars(OutputEnds(p))

\* The device may be silent for ever.
Spec == Init /\ [][Next]_vars /\ ClientFairness

\* It opens the sessions it is asked for, executes their lines, and closes them.
DeviceAnswers == \A p \in Caller : WF_vars(Device(p))

\* It closes the channels it is asked to close, and may answer nothing else.
DeviceCloses == \A p \in Caller : WF_vars(DevCloses(p))

-----------------------------------------------------------------------------
(* Properties.                                                             *)

\* A single connection executes one console line at a time: a session is open,
\* or its Output still runs, for the holder of the mutex only, so a cancelled
\* Run leaves no session and no goroutine behind (Client, Run).
OneAtATime ==
    \A p \in Caller : sess[p] = "open" \/ output[p] = "running" => mu = p

\* What a caller gets is the console output of its own line: text, no text or a
\* failed command only if the device answered that session so, and never after
\* the caller saw its context end (Run).
OwnOutput ==
    \A p \in Caller :
        /\ res[p] \in {"text", "empty"} => answer[p] = res[p]
        /\ res[p] = "failed" => answer[p] = "silent"
        /\ res[p] = "ctx" => ctxDone[p] /\ output[p] # "running"

\* The promise of the connection (Client, Run): lines are executed once, one at
\* a time, and a caller is told after its line has stopped, so that no line
\* outlives its Run and no Run repeats a line.
T == INSTANCE Turns WITH
         Verdict <- Result \ {"none"},
         Heard   <- {"text", "empty", "failed"},
         started <- {p \in Caller : output[p] # "none"},
         running <- {p \in Caller : sess[p] = "open" \/ output[p] = "running"},
         told    <- res
TakesTurns == T!Spec

\* A Run whose line is executing returns when its context ends, even if the
\* device never finishes the line, as long as it closes the channel when it is
\* asked to: a device that answers nothing at all leaves Run in <-done, with the
\* mutex held (Run).
CtxAborts ==
    DeviceCloses =>
        \A p \in Caller : pc[p] = "select" /\ ctxDone[p] ~> pc[p] = "returned"

\* With a device that answers, nobody waits for ever (Run, Close).
AllReturn ==
    DeviceAnswers => \A p \in Caller : pc[p] # "idle" ~> pc[p] = "returned"

\* The inductive invariant: the mutex is held from the return of Lock to that of
\* Run, and the session and the goroutine of a Run live within that.
IInv ==
    /\ TypeOK
    /\ \A p \in Caller :
          /\ mu = p <=> pc[p] \in {"open", "select", "reap"}
          /\ sess[p] = "open" => pc[p] = "select"
          /\ output[p] = "running" => pc[p] \in {"select", "reap"}
          /\ pc[p] \in {"idle", "lock", "open"} => output[p] = "none" /\ sess[p] = "none"
          /\ pc[p] \in {"select", "reap"} => output[p] # "none"
          /\ res[p] = "none" <=> pc[p] # "returned"
          /\ output[p] # "sent" => answer[p] = "none"
          /\ output[p] = "sent" => answer[p] # "none"
          /\ pc[p] = "reap" => ctxDone[p]
    /\ OwnOutput

\* What PLAN.md asks of every network operation: a Run returns when its context
\* ends, wherever it is and whoever holds the connection.
RunHonoursCtx ==
    \A p \in Caller : pc[p] # "idle" /\ ctxDone[p] ~> pc[p] = "returned"

\* What ssh.go documents of WithTimeout: a command ends within the timeout even
\* if the context has none and the device is silent.
TimeoutPerCommand == \A p \in Caller : pc[p] = "select" ~> pc[p] = "returned"
=============================================================================
