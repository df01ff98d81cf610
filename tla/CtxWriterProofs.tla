--------------------------- MODULE CtxWriterProofs ---------------------------
(***************************************************************************)
(* The two halves of the connection, for any number of chunks, writes and  *)
(* calls of Close: the reader's invariant is inductive for CtxReader, its  *)
(* steps are the reader's part of CtxWriter, and the writer's invariant is *)
(* inductive beside it.                                                    *)
(***************************************************************************)
EXTENDS CtxWriter, TLAPS

-----------------------------------------------------------------------------
(* The reader.  No chunk is counted twice, and done is open until the Close *)
(* that has set the flag closes it.                                        *)

Flags ==
    /\ flag \in BOOLEAN /\ closing \in BOOLEAN
    /\ ctxDone \in BOOLEAN /\ panicked \in BOOLEAN

Ranges ==
    /\ done \in {"open", "closed"}
    /\ rwc \in {"open", "broken", "closed"}
    /\ closes \in 0 .. MaxClose
    /\ clpc \in {"free", "check", "store", "close", "rwc"}
    /\ watch \in {"wait", "check", "send", "finished"}
    /\ loop \in {"idle", "select", "ended"}
    /\ helper \in {"none", "reading", "data", "failed"}
    /\ strays \in 0 .. 1
    /\ sent \in 0 .. MaxChunks /\ got \in 0 .. sent /\ eaten \in 0 .. sent

Counts ==
    /\ Ranges
    /\ helper = "data" => got + eaten + 1 <= sent
    /\ got + eaten <= sent
    /\ NothingEaten

Closing ==
    /\ Flags
    /\ ~flag => done = "open"
    /\ clpc = "store" => ~flag
    /\ clpc = "close" => flag
    /\ CloseIdempotent

ReaderInv == Counts /\ Closing

LEMMA ReaderTypes == ReaderInv => TypeOK
  BY DEF ReaderInv, Counts, Ranges, Closing, Flags, TypeOK

LEMMA InitReader == Init => ReaderInv
  <1>1. Init => Counts
    BY ReaderAssumption DEF Init, Counts, Ranges, NothingEaten
  <1>2. Init => Closing
    BY DEF Init, Closing, Flags, CloseIdempotent
  <1>. QED BY <1>1, <1>2 DEF ReaderInv

\* What a cancelled Read does keeps the counts: the loop ends.
LEMMA CancelledRead ==
    ASSUME Counts, ReadCancelled, UNCHANGED <<done, rwc, closes, clpc, sent>>,
           watch' \in {"wait", "check", "send", "finished"}
    PROVE  Counts'
  <1>1. loop' = "ended" /\ helper' = "none" /\ got' = got
    BY DEF ReadCancelled, Cancelled
  <1>2. strays = 0 /\ eaten = 0
    BY DEF ReadCancelled, Counts, NothingEaten
  <1>3. strays' \in 0 .. 1 /\ eaten' \in 0 .. sent /\ got + eaten' <= sent
    BY <1>2 DEF ReadCancelled, Counts, Ranges
  <1>. QED BY <1>1, <1>3 DEF Counts, Ranges, NothingEaten

\* Every step keeps the counts.
LEMMA StepCounts == Counts /\ [Next]_vars => Counts'
  <1>. SUFFICES ASSUME Counts, [Next]_vars PROVE Counts'
    OBVIOUS
  <1>. USE DEF Counts, Ranges, NothingEaten
  <1>1. CASE ReadStart
    BY <1>1 DEF ReadStart, closeVars
  <1>2. CASE ReadResult
    BY <1>2 DEF ReadResult, closeVars
  <1>3. CASE ReadDone
    BY <1>3, CancelledRead DEF ReadDone, closeVars
  <1>4. CASE HelperData \/ HelperFails
    BY <1>4 DEF HelperData, HelperFails, Waiting, closeVars
  <1>5. CASE StrayEnds
    BY <1>5 DEF StrayEnds, Waiting, closeVars
  <1>6. CASE WatchCtx \/ CancelCheck
    BY <1>6 DEF WatchCtx, CancelCheck, readVars, closeVars
  <1>7. CASE CancelSend
    <2>1. watch' = "finished" /\ UNCHANGED <<done, rwc, closes, clpc, sent>>
      BY <1>7 DEF CancelSend, closeVars
    <2>2. CASE ReadCancelled
      BY <2>1, <2>2, CancelledRead
    <2>3. CASE UNCHANGED readVars
      BY <2>1, <2>3 DEF readVars
    <2>. QED BY <1>7, <2>2, <2>3 DEF CancelSend
  <1>8. CASE CloseCall \/ CloseStep \/ CloseRwc
    <2>1. UNCHANGED <<readVars, sent, watch>>
      BY <1>8 DEF CloseCall, CloseStep, CloseCheck, CloseStore, CloseDone, CloseRwc
    <2>2. /\ clpc' \in {"free", "check", "store", "close", "rwc"}
          /\ done' \in {"open", "closed"} /\ rwc' \in {"open", "broken", "closed"}
      BY <1>8 DEF CloseCall, CloseStep, CloseCheck, CloseStore, CloseDone, CloseRwc
    <2>3. closes' \in 0 .. MaxClose
      BY <1>8, ReaderAssumption
      DEF CloseCall, CloseStep, CloseCheck, CloseStore, CloseDone, CloseRwc
    <2>. QED BY <2>1, <2>2, <2>3 DEF readVars
  <1>9. CASE DevSend \/ ConnBreak \/ CtxEnd
    BY <1>9, ReaderAssumption DEF DevSend, ConnBreak, CtxEnd, readVars, closeVars
  <1>10. CASE UNCHANGED vars
    BY <1>10 DEF vars, readVars, closeVars
  <1>. QED BY <1>1, <1>2, <1>3, <1>4, <1>5, <1>6, <1>7, <1>8, <1>9, <1>10
           DEF Next, Read, Helper, Watch

\* Every step keeps done and the flag of Close together.
LEMMA StepClosing == Closing /\ [Next]_vars => Closing'
  <1>. SUFFICES ASSUME Closing, [Next]_vars PROVE Closing'
    OBVIOUS
  <1>. USE DEF Closing, Flags, CloseIdempotent, closeVars
  <1>1. CASE Read \/ Helper \/ StrayEnds \/ DevSend \/ ConnBreak \/ WatchCtx \/ CancelCheck
    BY <1>1 DEF Read, ReadStart, ReadResult, ReadDone, Helper, HelperData, HelperFails,
                StrayEnds, DevSend, ConnBreak, WatchCtx, CancelCheck
  <1>2. CASE CancelSend \/ CtxEnd
    <2>1. panicked' \in BOOLEAN /\ ctxDone' \in BOOLEAN
      BY <1>2 DEF CancelSend, CtxEnd
    <2>2. UNCHANGED <<flag, done, closing, clpc>>
      BY <1>2 DEF CancelSend, CtxEnd
    <2>. QED BY <2>1, <2>2
  <1>3. CASE CloseCall
    BY <1>3 DEF CloseCall
  <1>4. CASE CloseCheck
    BY <1>4 DEF CloseCheck, Skip
  <1>5. CASE CloseStore
    BY <1>5 DEF CloseStore
  <1>6. CASE CloseDone
    <2>1. flag
      BY <1>6 DEF CloseDone
    <2>. QED BY <1>6, <2>1 DEF CloseDone
  <1>7. CASE CloseRwc
    BY <1>7 DEF CloseRwc
  <1>8. CASE UNCHANGED vars
    BY <1>8 DEF vars
  <1>. QED BY <1>1, <1>2, <1>3, <1>4, <1>5, <1>6, <1>7, <1>8
           DEF Next, Watch, CloseStep

\* Every step of the reader, of Close and of the device keeps the invariant.
LEMMA StepReader == ReaderInv /\ [Next]_vars => ReaderInv'
  BY StepCounts, StepClosing DEF ReaderInv

-----------------------------------------------------------------------------
(* The writer.  A Write waits, or a flush runs, only as long as none has   *)
(* failed; the Write that leaves its goroutine behind fails.               *)

WriterFlags == werr \in BOOLEAN /\ wmu \in BOOLEAN

WriterRanges ==
    /\ wdone \in {"open", "closed"}
    /\ wpc \in {"idle", "words", "select", "last", "lastselect", "flush", "kept"}
    /\ writes \in 0 .. MaxWrites
    /\ whelper \in {"none", "writing", "ok", "failed"}
    /\ wstrays \in 0 .. 1

WriterInv ==
    /\ WriterFlags /\ WriterRanges
    /\ whelper # "none" => wpc \in {"select", "lastselect"}
    /\ wpc \in {"select", "lastselect", "flush"} => ~werr
    /\ ~werr => wstrays = 0

LEMMA InitWriter == InitIO => WriterInv
  <1>. SUFFICES ASSUME InitIO PROVE WriterInv
    OBVIOUS
  <1>1. WriterFlags
    BY DEF InitIO, WriterFlags
  <1>2. WriterRanges
    BY WriterAssumption DEF InitIO, WriterRanges
  <1>3. wpc = "idle" /\ whelper = "none" /\ wstrays = 0
    BY DEF InitIO
  <1>. QED BY <1>1, <1>2, <1>3 DEF WriterInv

\* A step of the composition is one of the reader, or leaves the reader alone.
LEMMA ReaderSteps == [NextIO]_varsIO => [Next]_vars
  BY DEF NextIO, varsIO, ReaderStep, WriteStep, Begin, WriteStart, EndStart, LastStart,
         WriteResult, WriteDone, HelperWrites, WriteStrayEnds, Flush, CloseCallIO,
         CloseReader, CloseWriter, CloseRwcIO, Next

\* Every step keeps the writer's invariant.
LEMMA StepWriter == WriterInv /\ [NextIO]_varsIO => WriterInv'
  <1>. SUFFICES ASSUME WriterInv, [NextIO]_varsIO PROVE WriterInv'
    OBVIOUS
  <1>. USE DEF WriterInv, WriterFlags, WriterRanges
  <1>1. CASE UNCHANGED <<wdone, writeVars>>
    BY <1>1 DEF writeVars
  <1>2. CASE Begin \/ WriteStart
    BY <1>2, WriterAssumption DEF Begin, WriteStart, WriteSkipped
  <1>3. CASE EndStart
    <2>1. wmu' \in BOOLEAN
      BY <1>3 DEF EndStart
    <2>2. wpc' \in {"last", "kept"} /\ wpc = "words"
      BY <1>3 DEF EndStart
    <2>3. UNCHANGED <<wdone, writes, whelper, wstrays, werr>>
      BY <1>3 DEF EndStart
    <2>. QED BY <2>1, <2>2, <2>3
  <1>4. CASE LastStart
    <2>1. CASE ~werr /\ wpc' = "lastselect" /\ whelper' = "writing" /\ UNCHANGED wmu
      BY <1>4, <2>1 DEF LastStart
    <2>2. CASE Unlock /\ UNCHANGED whelper
      BY <1>4, <2>2 DEF LastStart, Unlock
    <2>. QED BY <1>4, <2>1, <2>2 DEF LastStart, WriteSkipped
  <1>5. ASSUME NEW failed \in BOOLEAN, WriteOver(failed), UNCHANGED <<wdone, writes>>,
               failed \/ UNCHANGED wstrays, wstrays' \in 0 .. 1, whelper # "none"
        PROVE  WriterInv'
    <2>1. wmu' \in BOOLEAN
      BY <1>5 DEF WriteOver, Unlock
    <2>2. werr' \in BOOLEAN /\ (werr' <=> failed)
      BY <1>5 DEF WriteOver
    <2>3. whelper' = "none" /\ wpc' \in {"words", "flush", "idle"}
      BY <1>5 DEF WriteOver, Unlock
    <2>4. wpc' = "flush" => ~failed
      BY <1>5 DEF WriteOver, Unlock
    <2>5. ~failed => wstrays' = 0
      BY <1>5
    <2>. QED BY <1>5, <2>1, <2>2, <2>3, <2>4, <2>5
  <1>6. CASE WriteResult
    BY <1>5, <1>6 DEF WriteResult
  <1>7. CASE WriteDone
    <2>1. wstrays = 0
      BY <1>7 DEF WriteDone
    <2>2. wstrays' \in 0 .. 1
      BY <1>7, <2>1 DEF WriteDone
    <2>. QED BY <1>5, <1>7, <2>2 DEF WriteDone
  <1>8. CASE HelperWrites \/ WriteStrayEnds
    BY <1>8 DEF HelperWrites, WriteStrayEnds
  <1>9. CASE Flush
    <2>1. werr' \in BOOLEAN /\ wmu' \in BOOLEAN
      BY <1>9 DEF Flush, Unlock
    <2>2. wpc' = "idle" /\ wpc = "flush" /\ UNCHANGED <<wdone, writes, whelper, wstrays>>
      BY <1>9 DEF Flush, Unlock
    <2>. QED BY <2>1, <2>2
  <1>10. CASE CloseWriter
    BY <1>10 DEF CloseWriter, writeVars
  <1>. QED BY <1>1, <1>2, <1>3, <1>4, <1>6, <1>7, <1>8, <1>9, <1>10
           DEF NextIO, WriteStep, CloseCallIO, CloseReader, CloseRwcIO, varsIO

-----------------------------------------------------------------------------
\* Type correctness of both halves.
THEOREM TypesCorrect == SpecIO => [](TypeOK /\ WriterTypeOK)
  <1>1. InitIO => ReaderInv /\ WriterInv
    BY InitReader, InitWriter DEF InitIO
  <1>2. ReaderInv /\ WriterInv => TypeOK /\ WriterTypeOK
    BY ReaderTypes DEF WriterInv, WriterFlags, WriterRanges, WriterTypeOK
  <1>. QED BY <1>1, <1>2, ReaderSteps, StepReader, StepWriter, PTL DEF SpecIO

\* However often Client.Close is called, beside whatever reads and writes, done
\* is closed once.
THEOREM ClosedOnce == SpecIO => []CloseIdempotent
  <1>1. InitIO => ReaderInv
    BY InitReader DEF InitIO
  <1>2. ReaderInv => CloseIdempotent
    BY DEF ReaderInv, Counts, Closing
  <1>. QED BY <1>1, <1>2, ReaderSteps, StepReader, PTL DEF SpecIO

\* A loop that reads on has lost nothing to a Read that was given up.
THEOREM RepliesUntorn == SpecIO => []NothingEaten
  <1>1. InitIO => ReaderInv
    BY InitReader DEF InitIO
  <1>2. ReaderInv => NothingEaten
    BY DEF ReaderInv, Counts, Closing
  <1>. QED BY <1>1, <1>2, ReaderSteps, StepReader, PTL DEF SpecIO

\* The bufio.Writer is used by one goroutine at a time.
THEOREM WriterUnshared == SpecIO => []BufferAlone
  <1>1. WriterInv => BufferAlone
    BY DEF WriterInv, WriterRanges, BufferAlone
  <1>. QED BY <1>1, InitWriter, StepWriter, PTL DEF SpecIO
=============================================================================
