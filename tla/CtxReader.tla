------------------------------ MODULE CtxReader ------------------------------
(***************************************************************************)
(* The cancellable reader under asyncLoop (proto/io_context.go): each Read *)
(* starts a goroutine on the connection and waits for it or for the done   *)
(* channel; the context watcher of asyncLoop cancels, Client.Close closes  *)
(* (async.go, client.go).                                                  *)
(***************************************************************************)
EXTENDS Naturals

CONSTANTS MaxChunks,  \* bound on the pieces of a reply the device sends
          MaxClose    \* bound on calls of Client.Close

ASSUME ReaderAssumption == MaxChunks \in Nat /\ MaxClose \in Nat

VARIABLES
    flag,     \* ctxReader.close
    done,     \* the channel done: "open" or "closed"
    rwc,      \* the connection: "open", "broken" or "closed"
    closing,  \* c.closing
    closes,   \* calls of Client.Close so far
    clpc,     \* where the one that holds c.mu is
    ctxDone,  \* the context of AsyncContext is done
    watch,    \* where the context watcher is
    loop,     \* where asyncLoop's Read is
    helper,   \* the goroutine of this Read: "none", "reading", "data", "failed"
    strays,   \* goroutines of earlier Reads that still wait for data
    sent,     \* chunks the device has sent
    got,      \* chunks Read has returned
    eaten,    \* chunks taken by a goroutine whose Read was cancelled
    panicked  \* done was closed twice, or sent to after its close

closeVars == <<closing, closes, clpc>>
readVars == <<loop, helper, strays, got, eaten>>
vars == <<flag, done, rwc, closeVars, ctxDone, watch, readVars, sent, panicked>>

TypeOK ==
    /\ flag \in BOOLEAN /\ done \in {"open", "closed"}
    /\ rwc \in {"open", "broken", "closed"}
    /\ closing \in BOOLEAN /\ closes \in 0 .. MaxClose
    /\ clpc \in {"free", "check", "store", "close", "rwc"}
    /\ ctxDone \in BOOLEAN
    /\ watch \in {"wait", "check", "send", "finished"}
    /\ loop \in {"idle", "select", "ended"}
    /\ helper \in {"none", "reading", "data", "failed"}
    /\ strays \in 0 .. 1
    /\ sent \in 0 .. MaxChunks /\ got \in 0 .. sent /\ eaten \in 0 .. sent
    /\ panicked \in BOOLEAN

Init ==
    /\ flag = FALSE /\ done = "open" /\ rwc = "open"
    /\ closing = FALSE /\ closes = 0 /\ clpc = "free"
    /\ ctxDone = FALSE /\ watch = "wait"
    /\ loop = "idle" /\ helper = "none" /\ strays = 0
    /\ sent = 0 /\ got = 0 /\ eaten = 0 /\ panicked = FALSE

\* Chunks on the connection.  A goroutine that has one holds it.
Waiting == sent - got - eaten - (IF helper = "data" THEN 1 ELSE 0)

-----------------------------------------------------------------------------
(* Read.                                                                   *)

ReadStart ==
    /\ loop = "idle"
    /\ loop' = "select"
    /\ helper' = "reading"
    /\ UNCHANGED <<flag, done, rwc, closeVars, ctxDone, watch, strays, got,
                   eaten, sent, panicked>>

HelperData ==
    /\ helper = "reading" /\ Waiting > 0 /\ rwc # "closed"
    /\ helper' = "data"
    /\ UNCHANGED <<flag, done, rwc, closeVars, ctxDone, watch, loop, strays,
                   got, eaten, sent, panicked>>

HelperFails ==
    /\ helper = "reading" /\ rwc # "open"
    /\ helper' = "failed"
    /\ UNCHANGED <<flag, done, rwc, closeVars, ctxDone, watch, loop, strays,
                   got, eaten, sent, panicked>>

\* select: the goroutine has read.  An error ends asyncLoop.
ReadResult ==
    /\ loop = "select"
    /\ \/ helper = "data" /\ got' = got + 1 /\ loop' = "idle"
       \/ helper = "failed" /\ loop' = "ended" /\ UNCHANGED got
    /\ helper' = "none"
    /\ UNCHANGED <<flag, done, rwc, closeVars, ctxDone, watch, strays, eaten,
                   sent, panicked>>

\* Mutant: a cancelled Read is tried again.
Cancelled_Retry == loop' = "idle"

\* A cancelled Read returns io.EOF, which ends asyncLoop.
Cancelled == loop' = "ended"

\* The goroutine of a cancelled Read stays behind; what it has read is lost.
ReadCancelled ==
    /\ loop = "select"
    /\ Cancelled
    /\ strays' = IF helper = "reading" THEN strays + 1 ELSE strays
    /\ eaten' = IF helper = "data" THEN eaten + 1 ELSE eaten
    /\ helper' = "none"
    /\ UNCHANGED got

\* Mutant: done is not selected on once it is closed.
DoneClosed_Ignored == FALSE

\* The receive from done is ready without a sender.
DoneClosed == done = "closed"

\* select: done has been closed.
ReadDone ==
    /\ DoneClosed
    /\ ReadCancelled
    /\ UNCHANGED <<flag, done, rwc, closeVars, ctxDone, watch, sent, panicked>>

\* A goroutine left behind takes a chunk, or fails.
StrayEnds ==
    /\ strays > 0
    /\ \/ Waiting > 0 /\ rwc # "closed" /\ eaten' = eaten + 1
       \/ rwc # "open" /\ UNCHANGED eaten
    /\ strays' = strays - 1
    /\ UNCHANGED <<flag, done, rwc, closeVars, ctxDone, watch, loop, helper,
                   got, sent, panicked>>

-----------------------------------------------------------------------------
(* Cancel, called by asyncLoop's context watcher.                          *)

WatchCtx ==
    /\ watch = "wait" /\ ctxDone
    /\ watch' = "check"
    /\ UNCHANGED <<flag, done, rwc, closeVars, ctxDone, readVars, sent, panicked>>

CancelCheck ==
    /\ watch = "check"
    /\ watch' = IF flag THEN "finished" ELSE "send"
    /\ UNCHANGED <<flag, done, rwc, closeVars, ctxDone, readVars, sent, panicked>>

\* The non-blocking send: to a Read that waits, or to nobody.  On a channel
\* closed since the check it panics.
CancelSend ==
    /\ watch = "send"
    /\ watch' = "finished"
    /\ \/ done = "closed" /\ panicked' = TRUE /\ UNCHANGED readVars
       \/ done = "open" /\ ReadCancelled /\ UNCHANGED panicked
       \/ done = "open" /\ loop # "select" /\ UNCHANGED <<readVars, panicked>>
    /\ UNCHANGED <<flag, done, rwc, closeVars, ctxDone, sent>>

-----------------------------------------------------------------------------
(* Client.Close, under c.mu: ctxReader.Close, then the connection.         *)

CloseCall ==
    /\ clpc = "free" /\ closes < MaxClose
    /\ closes' = closes + 1
    /\ clpc' = "check"
    /\ UNCHANGED <<flag, done, rwc, closing, ctxDone, watch, readVars, sent, panicked>>

\* Mutant: the flag is not looked at.
Skip_Never == FALSE

\* ctxReader.Close returns at once when it has been called before.
Skip == flag

CloseCheck ==
    /\ clpc = "check"
    /\ clpc' = IF Skip THEN "rwc" ELSE "store"
    /\ UNCHANGED <<flag, done, rwc, closing, closes, ctxDone, watch, readVars,
                   sent, panicked>>

CloseStore ==
    /\ clpc = "store"
    /\ flag' = TRUE
    /\ clpc' = "close"
    /\ UNCHANGED <<done, rwc, closing, closes, ctxDone, watch, readVars, sent, panicked>>

CloseDone ==
    /\ clpc = "close"
    /\ panicked' = (panicked \/ done = "closed")
    /\ done' = "closed"
    /\ clpc' = "rwc"
    /\ UNCHANGED <<flag, rwc, closing, closes, ctxDone, watch, readVars, sent>>

\* rwc.Close() the first time; it may take its time.
CloseRwc ==
    /\ clpc = "rwc"
    /\ closing' = TRUE
    /\ rwc' = IF closing THEN rwc ELSE "closed"
    /\ clpc' = "free"
    /\ UNCHANGED <<flag, done, closes, ctxDone, watch, readVars, sent, panicked>>

-----------------------------------------------------------------------------
(* The device, the network and the context (external).                     *)

DevSend ==
    /\ sent < MaxChunks /\ rwc = "open"
    /\ sent' = sent + 1
    /\ UNCHANGED <<flag, done, rwc, closeVars, ctxDone, watch, readVars, panicked>>

ConnBreak ==
    /\ rwc = "open"
    /\ rwc' = "broken"
    /\ UNCHANGED <<flag, done, closeVars, ctxDone, watch, readVars, sent, panicked>>

CtxEnd ==
    /\ ~ctxDone
    /\ ctxDone' = TRUE
    /\ UNCHANGED <<flag, done, rwc, closeVars, watch, readVars, sent, panicked>>

Read == ReadStart \/ ReadResult \/ ReadDone
Helper == HelperData \/ HelperFails
Watch == WatchCtx \/ CancelCheck \/ CancelSend
CloseStep == CloseCheck \/ CloseStore \/ CloseDone

\* A panic ends the process; what the model does after one does not matter.
Next ==
    \/ Read \/ Helper \/ StrayEnds \/ Watch
    \/ CloseCall \/ CloseStep \/ CloseRwc
    \/ DevSend \/ ConnBreak \/ CtxEnd

\* Goroutines that can run do.  Nothing is assumed of rwc.Close, of the device
\* or of the network.
Spec == /\ Init /\ [][Next]_vars
        /\ WF_vars(Read) /\ WF_vars(Helper) /\ WF_vars(Watch) /\ WF_vars(CloseStep)

-----------------------------------------------------------------------------
(* Properties.                                                             *)

\* Client.Close can be called again, at any time: it never closes done twice
\* (ctxReader.Close under c.mu).
CloseIdempotent == clpc = "close" => done = "open"

\* A reply is never torn: as long as asyncLoop reads on, no chunk has gone to
\* a goroutine whose Read had been given up (Read, Cancel).
NothingEaten == loop # "ended" => eaten = 0 /\ strays = 0

\* Close ends asyncLoop although the device is silent and closing the
\* connection hangs (Close, Read), unless the process panicked in Cancel.
CloseUnblocks == clpc # "free" ~> (loop = "ended" \/ panicked)

\* What async.go says of asyncLoop: it handles context done.  The loop ends
\* when its context does.
CtxEndsLoop == ctxDone ~> (loop = "ended" \/ panicked)
=============================================================================
