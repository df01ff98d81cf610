------------------------------ MODULE CtxWriter ------------------------------
(***************************************************************************)
(* CtxReader with the other half of the connection: the sentences that     *)
(* commands write through the cancellable writer (proto/writer.go,         *)
(* proto/io_context.go) while Client.Close closes both.  Each Write starts *)
(* a goroutine on the bufio.Writer and waits for it or for the done        *)
(* channel; Flush uses the bufio.Writer itself, and cannot be interrupted. *)
(*                                                                         *)
(* A Write may find room in the buffer or wait for the network.            *)
(***************************************************************************)
EXTENDS CtxReader

CONSTANT MaxWrites  \* bound on the writes of a command, but the last one

ASSUME WriterAssumption == MaxWrites \in Nat

VARIABLES
    wdone,    \* ctxWriter.done: "open" or "closed"
    werr,     \* writer.err is set
    wpc,      \* where the command is that holds the writer's mutex
    wmu,      \* it holds c.mu
    writes,   \* its writes so far
    whelper,  \* the goroutine of this Write: "none", "writing", "ok", "failed"
    wstrays   \* goroutines of earlier Writes that still wait for the network

writeVars == <<wpc, wmu, writes, whelper, wstrays, werr>>
varsIO == <<vars, wdone, writeVars>>

WriterTypeOK ==
    /\ wdone \in {"open", "closed"} /\ werr \in BOOLEAN
    /\ wpc \in {"idle", "words", "select", "last", "lastselect", "flush", "kept"}
    /\ wmu \in BOOLEAN /\ writes \in 0 .. MaxWrites
    /\ whelper \in {"none", "writing", "ok", "failed"} /\ wstrays \in 0 .. 1

InitIO ==
    /\ Init
    /\ wdone = "open" /\ werr = FALSE
    /\ wpc = "idle" /\ wmu = FALSE /\ writes = 0
    /\ whelper = "none" /\ wstrays = 0

-----------------------------------------------------------------------------
(* A sentence: BeginSentence, WriteWord, EndSentence.                      *)

Begin ==
    /\ wpc = "idle"
    /\ wpc' = "words" /\ writes' = 0
    /\ UNCHANGED <<vars, wdone, wmu, whelper, wstrays, werr>>

\* Mutant: only the first error is reported, and the next write tried.
WriteSkipped_Never == FALSE

\* write and flush do nothing once a write has failed.
WriteSkipped == werr

\* A word: its length or its bytes.
WriteStart ==
    /\ wpc = "words" /\ writes < MaxWrites /\ ~WriteSkipped
    /\ wpc' = "select" /\ whelper' = "writing" /\ writes' = writes + 1
    /\ UNCHANGED <<vars, wdone, wmu, wstrays, werr>>

\* All words are written.  A Run or a Listen registers under c.mu and keeps it
\* for EndSentence, or finds the loop's tags gone and returns as it is; a
\* /cancel does without.
EndStart ==
    /\ wpc = "words"
    /\ \/ wpc' = "last" /\ UNCHANGED wmu
       \/ clpc = "free" /\ wpc' = "last" /\ wmu' = TRUE
       \/ clpc = "free" /\ loop = "ended" /\ wpc' = "kept" /\ UNCHANGED wmu
    /\ UNCHANGED <<vars, wdone, writes, whelper, wstrays, werr>>

\* EndSentence returns: both mutexes are released.
Unlock == wpc' = "idle" /\ wmu' = FALSE

\* The empty word at the end.
LastStart ==
    /\ wpc = "last"
    /\ \/ ~WriteSkipped /\ wpc' = "lastselect" /\ whelper' = "writing" /\ UNCHANGED wmu
       \/ WriteSkipped /\ Unlock /\ UNCHANGED whelper
    /\ UNCHANGED <<vars, wdone, writes, wstrays, werr>>

\* The goroutine's Write: there is room, the network has taken what was in the
\* way, or the connection has failed.
HelperWrites ==
    /\ whelper = "writing"
    /\ \/ rwc # "closed" /\ whelper' = "ok"
       \/ rwc # "open" /\ whelper' = "failed"
    /\ UNCHANGED <<vars, wdone, wpc, wmu, writes, wstrays, werr>>

\* The Write is over; after an error EndSentence has nothing more to do.
WriteOver(failed) ==
    /\ werr' = (werr \/ failed)
    /\ whelper' = "none"
    /\ \/ wpc = "select" /\ wpc' = "words" /\ UNCHANGED wmu
       \/ wpc = "lastselect" /\ ~failed /\ wpc' = "flush" /\ UNCHANGED wmu
       \/ wpc = "lastselect" /\ failed /\ Unlock

\* select: the goroutine has written.
WriteResult ==
    /\ whelper \in {"ok", "failed"}
    /\ WriteOver(whelper = "failed")
    /\ UNCHANGED <<vars, wdone, writes, wstrays>>

\* Mutant: done is not selected on.
WriteDone_Ignored == FALSE

\* select: done is closed.  The Write returns io.EOF and leaves its goroutine.
WriteDone ==
    /\ wdone = "closed" /\ whelper # "none"
    /\ WriteOver(TRUE)
    /\ wstrays' = IF whelper = "writing" THEN wstrays + 1 ELSE wstrays
    /\ UNCHANGED <<vars, wdone, writes>>

WriteStrayEnds ==
    /\ wstrays > 0
    /\ wstrays' = wstrays - 1
    /\ UNCHANGED <<vars, wdone, wpc, wmu, writes, whelper, werr>>

\* Flush: the network takes the buffer, or the connection has failed.
Flush ==
    /\ wpc = "flush"
    /\ \/ rwc # "closed" /\ UNCHANGED werr
       \/ rwc # "open" /\ werr' = TRUE
    /\ Unlock
    /\ UNCHANGED <<vars, wdone, writes, whelper, wstrays>>

-----------------------------------------------------------------------------
(* Client.Close takes c.mu and closes the reader, the writer and the       *)
(* connection, in this order.                                              *)

CloseCallIO == CloseCall /\ ~wmu /\ UNCHANGED <<wdone, writeVars>>

CloseReader == CloseStep /\ UNCHANGED <<wdone, writeVars>>

\* ctxWriter.Close; the second time it returns at once.
CloseWriter ==
    /\ clpc = "rwc" /\ wdone = "open"
    /\ wdone' = "closed"
    /\ UNCHANGED <<vars, writeVars>>

CloseRwcIO == CloseRwc /\ wdone = "closed" /\ UNCHANGED <<wdone, writeVars>>

ReaderStep == Read \/ Helper \/ StrayEnds \/ Watch \/ DevSend \/ ConnBreak \/ CtxEnd

WriteStep == Begin \/ WriteStart \/ EndStart \/ LastStart \/ WriteResult \/ WriteDone

NextIO ==
    \/ ReaderStep /\ UNCHANGED <<wdone, writeVars>>
    \/ WriteStep \/ HelperWrites \/ WriteStrayEnds \/ Flush
    \/ CloseCallIO \/ CloseReader \/ CloseWriter \/ CloseRwcIO

\* As in CtxReader; nor is anything assumed of the writes to the network.
SpecIO ==
    /\ InitIO /\ [][NextIO]_varsIO
    /\ WF_varsIO(Read /\ UNCHANGED <<wdone, writeVars>>)
    /\ WF_varsIO(Helper /\ UNCHANGED <<wdone, writeVars>>)
    /\ WF_varsIO(Watch /\ UNCHANGED <<wdone, writeVars>>)
    /\ WF_varsIO(WriteResult \/ WriteDone)
    /\ WF_varsIO(CloseReader) /\ WF_varsIO(CloseWriter)

-----------------------------------------------------------------------------
(* Properties.                                                             *)

\* One goroutine at a time uses the bufio.Writer, which is not safe for two:
\* while a goroutine is left behind by an interrupted Write, no other Write is
\* started and nothing is flushed, by any later command (write, flush, Write).
BufferAlone == wstrays > 0 => whelper = "none" /\ wpc # "flush"

\* Close releases the command that waits for a Write which the network does
\* not take, even if closing the connection hangs as well (Close, Write).
CloseReleasesWrite == wdone = "closed" ~> whelper = "none"
=============================================================================
