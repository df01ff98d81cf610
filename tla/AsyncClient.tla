----------------------------- MODULE AsyncClient -----------------------------
(***************************************************************************)
(* The RouterOS API client of package routeros: goroutines that call Run   *)
(* and Listen on one Client, the asyncLoop goroutine that dispatches reply *)
(* sentences by tag, context cancellation through cancelTag, and Close     *)
(* (client.go, async.go, run.go, listen.go, cancel.go, reply.go,           *)
(* chan_reply.go; the sentence lock is proto/writer.go).                   *)
(*                                                                         *)
(* The device and the network are the environment: the reader may return   *)
(* any sentence, or an error, at any time.  What holds here therefore      *)
(* holds whatever the device does.  Module Session closes the system with  *)
(* a device that follows the API protocol.                                 *)
(*                                                                         *)
(* A section of code that holds c.mu from Lock to Unlock and cannot block  *)
(* is one action guarded by mu = None.  The two sections that write to the *)
(* network while they hold c.mu are split, and mu names their owner.       *)
(***************************************************************************)
EXTENDS Naturals

CONSTANTS Runners,    \* goroutines that make one RunArgsContext call each
          Listeners,  \* goroutines that make one ListenArgsQueueContext call
          Queue,      \* capacity of a listener's channel (queueSize)
          MaxTag,     \* bound on nextTag
          MaxRows,    \* bound on the !re sentences in a reply
          None        \* "no call" and "no entry"

Call == Runners \cup Listeners

\* The objects c.tags can hold: the reply of a call, and the throw-away
\* asyncReply that cancelTag registers for the /cancel of that call.
Entry == Call \X {"call", "cancel"}

ASSUME CallAssumption ==
    /\ Runners \cap Listeners = {}
    /\ None \notin Call
    /\ None \notin Entry
ASSUME BoundAssumption ==
    /\ Queue \in Nat
    /\ MaxTag \in Nat
    /\ MaxRows \in Nat

Tag == 1 .. MaxTag

\* Reply words.  "trap2" is a !trap with category 2 (command interrupted),
\* "empty" stands for "" and !empty, and "fatal" for !fatal and every unknown
\* word: both processSentence methods end the reply with an error on either.
Word == {"re", "done", "trap", "trap2", "fatal", "empty"}

\* Tag 0 is an absent tag, or one that no request of this client has used.
Sentence == [tag : 0 .. MaxTag, word : Word]
NoSentence == [tag |-> 0, word |-> "empty"]

\* "device" is the DeviceError or UnknownReplyError of a sentence.
Err == {"none", "device", "read"}
Result == {"pending", "ok", "device", "read", "write", "ended", "ctx"}

VARIABLES
    async,     \* c.async
    closing,   \* c.closing
    conn,      \* c.rwc: "open", "broken" (by the network) or "closed"
    mu,        \* the call that holds c.mu across a network write, or None
    wlock,     \* the entry whose sentence holds the writer's mutex, or None
    werr,      \* w.err # nil (sticky)
    nextTag,   \* c.nextTag
    tag,       \* the tag number given to an entry, 0 before
    tagsNil,   \* c.tags = nil
    tags,      \* c.tags
    closed,    \* reC of the entry has been closed
    err,       \* chanReply.err (in a synchronous run: lastErr)
    re,        \* number of !re sentences appended (run) or sent (listen)
    fin,       \* Done # nil  (nobody reads the reply to a /cancel)
    stop,      \* ListenReply.stop: "nil", "open" or "closed"
    buf,       \* number of sentences in a listener's channel
    reading,   \* the application still receives from the listener's channel
    ctxDone,   \* the call's context is done
    pc,        \* where the calling goroutine is
    cpc,       \* where the cancelTag of the call is
    res,       \* what the call has returned
    lpc,       \* where the asyncLoop goroutine is
    lsen,      \* the sentence asyncLoop works on
    lent,      \* the entry it looked up
    lerr,      \* the error processSentence returned
    errC,      \* the channel AsyncContext returned: "open", "err", "closed"
    panicked   \* a channel was closed twice or sent to after its close

lockVars   == <<mu, wlock, werr>>
tagVars    == <<nextTag, tag, tagsNil, tags>>
replyVars  == <<closed, err, re, fin>>
listenVars == <<stop, buf, reading>>
loopVars   == <<lpc, lsen, lent, lerr, errC>>
vars == <<async, closing, conn, lockVars, tagVars, replyVars, listenVars,
          ctxDone, pc, cpc, res, loopVars, panicked>>

RunPC    == {"idle", "called", "begun", "tagged", "flush", "wait", "drain",
             "syncEnd", "sync", "returned"}
ListenPC == {"idle", "called", "begun", "flush", "listening", "returned"}
CancelPC == {"off", "select", "start", "begin", "end", "finished"}
LoopPC   == {"off", "read", "lookup", "process", "delete", "close",
             "closeTags", "report", "ended"}

CallOf(p)   == <<p, "call">>
CancelOf(p) == <<p, "cancel">>
IsCall(e)   == e[2] = "call"
IsListen(e) == e[1] \in Listeners /\ IsCall(e)

TypeOK ==
    /\ async \in BOOLEAN /\ closing \in BOOLEAN
    /\ conn \in {"open", "broken", "closed"}
    /\ mu \in Call \cup {None} /\ wlock \in Entry \cup {None}
    /\ werr \in BOOLEAN
    /\ nextTag \in 0 .. MaxTag
    /\ tag \in [Entry -> 0 .. MaxTag]
    /\ tagsNil \in BOOLEAN
    /\ tags \in [Tag -> Entry \cup {None}]
    /\ closed \in [Entry -> BOOLEAN]
    /\ err \in [Call -> Err]
    /\ re \in [Call -> Nat]
    /\ fin \in [Call -> BOOLEAN]
    /\ stop \in [Listeners -> {"nil", "open", "closed"}]
    /\ buf \in [Listeners -> 0 .. Queue]
    /\ reading \in [Listeners -> BOOLEAN]
    /\ ctxDone \in [Call -> BOOLEAN]
    /\ pc \in [Call -> RunPC \cup ListenPC]
    /\ \A p \in Runners : pc[p] \in RunPC
    /\ \A l \in Listeners : pc[l] \in ListenPC
    /\ cpc \in [Call -> CancelPC]
    /\ res \in [Call -> Result]
    /\ lpc \in LoopPC /\ lsen \in Sentence /\ lent \in Entry \cup {None}
    /\ lerr \in Err /\ errC \in {"open", "err", "closed"}
    /\ panicked \in BOOLEAN

\* NewClient over an open, logged-in connection, before Async.
Init ==
    /\ async = FALSE /\ closing = FALSE /\ conn = "open"
    /\ mu = None /\ wlock = None /\ werr = FALSE
    /\ nextTag = 0
    /\ tag = [e \in Entry |-> 0]
    /\ tagsNil = TRUE
    /\ tags = [t \in Tag |-> None]
    /\ closed = [e \in Entry |-> FALSE]
    /\ err = [p \in Call |-> "none"]
    /\ re = [p \in Call |-> 0]
    /\ fin = [p \in Call |-> FALSE]
    /\ stop = [l \in Listeners |-> "nil"]
    /\ buf = [l \in Listeners |-> 0]
    /\ reading = [l \in Listeners |-> TRUE]
    /\ ctxDone = [p \in Call |-> FALSE]
    /\ pc = [p \in Call |-> "idle"]
    /\ cpc = [p \in Call |-> "off"]
    /\ res = [p \in Call |-> "pending"]
    /\ lpc = "off" /\ lsen = NoSentence
    /\ lent = None /\ lerr = "none" /\ errC = "open"
    /\ panicked = FALSE

-----------------------------------------------------------------------------
(* Helpers shared by the actions.                                          *)

\* BeginSentence: take the writer's mutex; it is kept until EndSentence.
BeginSentence(e) == wlock = None /\ wlock' = e

\* EndSentence: flush and release the mutex.  A flush to a closed connection
\* fails, one to a broken connection may still be accepted by the kernel, and
\* an earlier error is returned again.
EndSentence(ok) ==
    /\ ok => ~werr /\ conn # "closed"
    /\ ~ok => werr \/ conn # "open"
    /\ wlock' = None
    /\ werr' = ~ok

\* Mutant: a fetch-and-add that can lose an update.
NextTag_Lost == IF nextTag = 0 THEN 1 ELSE nextTag

\* incrementTag: an atomic fetch-and-add.
NextTag == nextTag + 1

IncrementTag(e) ==
    /\ nextTag < MaxTag
    /\ nextTag' = NextTag
    /\ tag' = [tag EXCEPT ![e] = NextTag]

\* c.tags[tag] = a, as the map stands after the assignment.
Put(e, t) == [tags EXCEPT ![t] = e]

\* Mutants: the whole map is cleared, and nothing is deleted.
Delete_All(t) == [u \in Tag |-> None]
Delete_Nothing(t) == tags

\* delete(c.tags, t), as the map stands after it.
Delete(t) == [tags EXCEPT ![t] = None]

\* c.tags[t], None when there is no such key.
Lookup(t) == IF t \in Tag THEN tags[t] ELSE None

Registered(e) == \E t \in Tag : tags[t] = e

Return(p, r) ==
    /\ pc' = [pc EXCEPT ![p] = "returned"]
    /\ res' = [res EXCEPT ![p] = r]

Goto(p, where) == pc' = [pc EXCEPT ![p] = where] /\ UNCHANGED res

\* The bound on rows.
RowsLeft == \A p \in Call : re[p] < MaxRows

\* Reply.processSentence: whether the sentence ends the reply, and its error.
ReplyDone(word) == word \in {"done", "fatal"}
ReplyErr(word) ==
    IF word \in {"trap", "trap2", "fatal"} THEN "device" ELSE "none"

\* Mutants: every trap is taken for a clean end, and none is.
ListenErr_TrapIsClean(word) == IF word = "fatal" THEN "device" ELSE "none"
ListenErr_NoClean(word) ==
    IF word \in {"trap", "trap2", "fatal"} THEN "device" ELSE "none"

\* ListenReply.processSentence, except for !re: a trap of category 2 is a
\* clean end, every other trap an error.
ListenDone(word) == word \in {"done", "trap", "trap2", "fatal"}
ListenErr(word) == IF word \in {"trap", "fatal"} THEN "device" ELSE "none"

-----------------------------------------------------------------------------
(* AsyncContext: the loop starts, once.                                    *)
Async ==
    /\ mu = None
    /\ ~async
    /\ async' = TRUE /\ tagsNil' = FALSE /\ lpc' = "read"
    /\ UNCHANGED <<closing, conn, lockVars, nextTag, tag, tags, replyVars,
                   listenVars, ctxDone, pc, cpc, res, lsen, lent, lerr, errC, panicked>>

-----------------------------------------------------------------------------
(* RunArgsContext.                                                         *)

RunCall(p) ==
    /\ pc[p] = "idle"
    /\ Goto(p, "called")
    /\ UNCHANGED <<async, closing, conn, lockVars, tagVars, replyVars,
                   listenVars, ctxDone, cpc, loopVars, panicked>>

RunBegin(p) ==
    /\ pc[p] = "called"
    /\ BeginSentence(CallOf(p))
    /\ Goto(p, "begun")
    /\ UNCHANGED <<async, closing, conn, mu, werr, tagVars, replyVars,
                   listenVars, ctxDone, cpc, loopVars, panicked>>

\* IsAsync() and, in asynchronous mode, incrementTag().
RunTag(p) ==
    /\ pc[p] = "begun"
    /\ mu = None
    /\ \/ /\ ~async
          /\ Goto(p, "syncEnd")
          /\ UNCHANGED <<nextTag, tag>>
       \/ /\ async
          /\ IncrementTag(CallOf(p))
          /\ Goto(p, "tagged")
    /\ UNCHANGED <<async, closing, conn, lockVars, tagsNil, tags, replyVars,
                   listenVars, ctxDone, cpc, loopVars, panicked>>

\* Registration under c.mu.  When the loop has ended the call returns at
\* once, and the sentence it began is never ended.
RunRegister(p) ==
    /\ pc[p] = "tagged"
    /\ mu = None
    /\ \/ /\ tagsNil
          /\ Return(p, "ended")
          /\ UNCHANGED <<mu, tags>>
       \/ /\ ~tagsNil
          /\ tags' = Put(CallOf(p), tag[CallOf(p)])
          /\ mu' = p
          /\ Goto(p, "flush")
    /\ UNCHANGED <<async, closing, conn, wlock, werr, nextTag, tag, tagsNil,
                   replyVars, listenVars, ctxDone, cpc, loopVars,
                   panicked>>

\* EndSentence while c.mu is held, then Unlock.
RunFlush(p, ok) ==
    /\ p \in Runners /\ pc[p] = "flush"
    /\ EndSentence(ok)
    /\ mu' = None
    /\ \/ /\ ok
          /\ Goto(p, "wait")
          /\ UNCHANGED tags
       \/ /\ ~ok
          /\ tags' = Delete(tag[CallOf(p)])
          /\ Return(p, "write")
    /\ UNCHANGED <<async, closing, conn, nextTag, tag, tagsNil, replyVars,
                   listenVars, ctxDone, cpc, loopVars, panicked>>

\* select: the channel was closed.
RunWake(p) ==
    /\ pc[p] = "wait"
    /\ closed[CallOf(p)]
    /\ Return(p, IF err[p] = "none" THEN "ok" ELSE err[p])
    /\ UNCHANGED <<async, closing, conn, lockVars, tagVars, replyVars,
                   listenVars, ctxDone, cpc, loopVars, panicked>>

\* select: the context is done; cancelTag starts.
RunCtx(p) ==
    /\ pc[p] = "wait"
    /\ ctxDone[p]
    /\ Goto(p, "drain")
    /\ cpc' = [cpc EXCEPT ![p] = "start"]
    /\ UNCHANGED <<async, closing, conn, lockVars, tagVars, replyVars,
                   listenVars, ctxDone, loopVars, panicked>>

\* Mutant: the error of the reply is not looked at after the drain.
RunDrained_CtxOnly(p) ==
    /\ pc[p] = "drain"
    /\ cpc[p] = "finished"
    /\ closed[CallOf(p)]
    /\ Return(p, "ctx")
    /\ UNCHANGED <<async, closing, conn, lockVars, tagVars, replyVars,
                   listenVars, ctxDone, cpc, loopVars, panicked>>

\* Mutant: the drain is left out.
RunDrained_NoWait(p) ==
    /\ pc[p] = "drain"
    /\ cpc[p] = "finished"
    /\ Return(p, IF err[p] = "none" THEN "ctx" ELSE err[p])
    /\ UNCHANGED <<async, closing, conn, lockVars, tagVars, replyVars,
                   listenVars, ctxDone, cpc, loopVars, panicked>>

\* for range a.reC {} ended.
RunDrained(p) ==
    /\ pc[p] = "drain"
    /\ cpc[p] = "finished"
    /\ closed[CallOf(p)]
    /\ Return(p, IF err[p] = "none" THEN "ctx" ELSE err[p])
    /\ UNCHANGED <<async, closing, conn, lockVars, tagVars, replyVars,
                   listenVars, ctxDone, cpc, loopVars, panicked>>

(* runArgsContextSync: no tag, no context, no lock around the read.        *)
SyncEnd(p, ok) ==
    /\ pc[p] = "syncEnd"
    /\ EndSentence(ok)
    /\ \/ ok /\ Goto(p, "sync")
       \/ ~ok /\ Return(p, "write")
    /\ UNCHANGED <<async, closing, conn, mu, tagVars, replyVars, listenVars,
                   ctxDone, cpc, loopVars, panicked>>

\* The next sentence, whoever it is for, goes through processSentence: a
\* fatal one ends the call, an error is kept, !done ends it with that error.
SyncRead(p, sen) ==
    LET w == sen.word
    IN  /\ pc[p] = "sync"
        /\ w = "re" => RowsLeft
        /\ re' = [re EXCEPT ![p] = IF w = "re" THEN @ + 1 ELSE @]
        /\ fin' = [fin EXCEPT ![p] = @ \/ w = "done"]
        /\ err' = [err EXCEPT ![p] = IF ReplyErr(w) = "none" THEN @
                                                            ELSE ReplyErr(w)]
        /\ \/ ReplyDone(w) /\ Return(p, IF err'[p] = "none" THEN "ok"
                                                            ELSE err'[p])
           \/ ~ReplyDone(w) /\ UNCHANGED <<pc, res>>
        /\ UNCHANGED <<async, closing, conn, lockVars, tagVars, closed,
                       listenVars, ctxDone, cpc, loopVars, panicked>>

SyncReadErr(p) ==
    /\ pc[p] = "sync"
    /\ Return(p, "read")
    /\ UNCHANGED <<async, closing, conn, lockVars, tagVars, replyVars,
                   listenVars, ctxDone, cpc, loopVars, panicked>>

-----------------------------------------------------------------------------
(* ListenArgsQueueContext.                                                 *)

\* IsAsync() or Async(), then incrementTag().
ListenCall(l) ==
    /\ pc[l] = "idle"
    /\ mu = None
    /\ async' = TRUE
    /\ tagsNil' = (async /\ tagsNil)
    /\ lpc' = IF async THEN lpc ELSE "read"
    /\ IncrementTag(CallOf(l))
    /\ Goto(l, "called")
    /\ UNCHANGED <<closing, conn, lockVars, tags, replyVars, listenVars,
                   ctxDone, cpc, lsen, lent, lerr, errC, panicked>>

ListenBegin(l) ==
    /\ pc[l] = "called"
    /\ BeginSentence(CallOf(l))
    /\ Goto(l, "begun")
    /\ UNCHANGED <<async, closing, conn, mu, werr, tagVars, replyVars,
                   listenVars, ctxDone, cpc, loopVars, panicked>>

ListenLock(l) ==
    /\ pc[l] = "begun"
    /\ mu = None
    /\ mu' = l
    /\ Goto(l, "flush")
    /\ UNCHANGED <<async, closing, conn, wlock, werr, tagVars, replyVars,
                   listenVars, ctxDone, cpc, loopVars, panicked>>

\* EndSentence, the check for an ended loop, and the registration, all under
\* c.mu.  A context other than Background gets a watcher goroutine.
ListenFlush(l, ok, withCtx) ==
    /\ l \in Listeners /\ pc[l] = "flush"
    /\ EndSentence(ok)
    /\ mu' = None
    /\ \/ /\ ~ok
          /\ Return(l, "write")
          /\ UNCHANGED <<tags, stop, cpc>>
       \/ /\ ok /\ tagsNil
          /\ Return(l, "ended")
          /\ UNCHANGED <<tags, stop, cpc>>
       \/ /\ ok /\ ~tagsNil
          /\ tags' = Put(CallOf(l), tag[CallOf(l)])
          /\ pc' = [pc EXCEPT ![l] = "listening"]
          /\ res' = [res EXCEPT ![l] = "ok"]
          /\ stop' = [stop EXCEPT ![l] = IF withCtx THEN "open" ELSE "nil"]
          /\ cpc' = [cpc EXCEPT ![l] = IF withCtx THEN "select" ELSE "off"]
    /\ UNCHANGED <<async, closing, conn, nextTag, tag, tagsNil, replyVars,
                   buf, reading, ctxDone, loopVars, panicked>>

\* Mutant: the watcher does not look at the context.
WatchSelect_NoCtx(l) ==
    /\ cpc[l] = "select"
    /\ stop[l] = "closed" /\ cpc' = [cpc EXCEPT ![l] = "finished"]
    /\ UNCHANGED <<async, closing, conn, lockVars, tagVars, replyVars,
                   listenVars, ctxDone, pc, res, loopVars, panicked>>

\* The watcher's select: the context is done, or stop was closed.
WatchSelect(l) ==
    /\ cpc[l] = "select"
    /\ \/ ctxDone[l] /\ cpc' = [cpc EXCEPT ![l] = "start"]
       \/ stop[l] = "closed" /\ cpc' = [cpc EXCEPT ![l] = "finished"]
    /\ UNCHANGED <<async, closing, conn, lockVars, tagVars, replyVars,
                   listenVars, ctxDone, pc, res, loopVars, panicked>>

\* The application receives one sentence from Chan().
Consume(l) ==
    /\ reading[l] /\ buf[l] > 0
    /\ buf' = [buf EXCEPT ![l] = @ - 1]
    /\ UNCHANGED <<async, closing, conn, lockVars, tagVars, replyVars, stop,
                   reading, ctxDone, pc, cpc, res, loopVars,
                   panicked>>

-----------------------------------------------------------------------------
(* cancelTag, run by the caller of Run or by a listener's watcher.         *)

CancelRegister(p) ==
    /\ cpc[p] = "start"
    /\ mu = None
    /\ IncrementTag(CancelOf(p))
    /\ \/ /\ tagsNil
          /\ cpc' = [cpc EXCEPT ![p] = "finished"]
          /\ UNCHANGED tags
       \/ /\ ~tagsNil
          /\ tags' = Put(CancelOf(p), NextTag)
          /\ cpc' = [cpc EXCEPT ![p] = "begin"]
    /\ UNCHANGED <<async, closing, conn, lockVars, tagsNil, replyVars,
                   listenVars, ctxDone, pc, res, loopVars, panicked>>

CancelBegin(p) ==
    /\ cpc[p] = "begin"
    /\ BeginSentence(CancelOf(p))
    /\ cpc' = [cpc EXCEPT ![p] = "end"]
    /\ UNCHANGED <<async, closing, conn, mu, werr, tagVars, replyVars,
                   listenVars, ctxDone, pc, res, loopVars, panicked>>

\* The error of EndSentence is dropped.
CancelEnd(p, ok) ==
    /\ cpc[p] = "end"
    /\ EndSentence(ok)
    /\ cpc' = [cpc EXCEPT ![p] = "finished"]
    /\ UNCHANGED <<async, closing, conn, mu, tagVars, replyVars, listenVars,
                   ctxDone, pc, res, loopVars, panicked>>

-----------------------------------------------------------------------------
(* asyncLoop.                                                              *)

LoopRead(sen) ==
    /\ lpc = "read"
    /\ sen.word = "re" => RowsLeft
    /\ lsen' = sen
    /\ lpc' = "lookup"
    /\ UNCHANGED <<async, closing, conn, lockVars, tagVars, replyVars,
                   listenVars, ctxDone, pc, cpc, res, lent, lerr, errC,
                   panicked>>

\* Back to ReadSentence: the locals of one iteration are dead.
LoopContinue ==
    /\ lpc' = "read" /\ lsen' = NoSentence
    /\ lent' = None /\ lerr' = "none"

\* Lookup under c.mu; a sentence with an unknown tag is ignored.
LoopLookup ==
    /\ lpc = "lookup"
    /\ mu = None
    /\ \/ /\ lsen.tag \in Tag /\ tags[lsen.tag] # None
          /\ lent' = tags[lsen.tag]
          /\ lpc' = "process"
          /\ UNCHANGED <<lsen, lerr>>
       \/ /\ Lookup(lsen.tag) = None
          /\ LoopContinue
    /\ UNCHANGED <<async, closing, conn, lockVars, tagVars, replyVars,
                   listenVars, ctxDone, pc, cpc, res, errC, panicked>>

\* Reply.processSentence, for a run or a /cancel.
LoopProcessReply ==
    LET w == lsen.word
    IN  /\ lpc = "process" /\ ~IsListen(lent)
        /\ re' = IF IsCall(lent) /\ w = "re"
                 THEN [re EXCEPT ![lent[1]] = @ + 1] ELSE re
        /\ fin' = IF IsCall(lent) /\ w = "done"
                  THEN [fin EXCEPT ![lent[1]] = TRUE] ELSE fin
        /\ \/ /\ ReplyDone(w) \/ ReplyErr(w) # "none"
              /\ lerr' = ReplyErr(w)
              /\ lpc' = "delete"
              /\ UNCHANGED <<lsen, lent>>
           \/ /\ ~ReplyDone(w) /\ ReplyErr(w) = "none"
              /\ LoopContinue
        /\ UNCHANGED <<async, closing, conn, lockVars, tagVars, closed, err,
                       listenVars, ctxDone, pc, cpc, res, errC,
                       panicked>>

\* A send on the listener's channel can proceed: there is room, or, on an
\* unbuffered channel, the application is receiving.
CanSend(l) == buf[l] < Queue \/ (Queue = 0 /\ reading[l])

\* ListenReply.processSentence of !re blocks the loop until CanSend; a send
\* on a closed channel panics.
LoopSend ==
    LET l == lent[1]
    IN  /\ lpc = "process" /\ IsListen(lent) /\ lsen.word = "re"
        /\ CanSend(l)
        /\ panicked' = (panicked \/ closed[lent])
        /\ buf' = [buf EXCEPT ![l] = IF Queue = 0 THEN 0 ELSE @ + 1]
        /\ re' = [re EXCEPT ![l] = @ + 1]
        /\ LoopContinue
        /\ UNCHANGED <<async, closing, conn, lockVars, tagVars, closed, err,
                       fin, stop, reading, ctxDone, pc, cpc, res, errC>>

\* ListenReply.processSentence of every other word, closeStop included.
LoopProcessListen ==
    LET l == lent[1]
        w == lsen.word
    IN  /\ lpc = "process" /\ IsListen(lent) /\ w # "re"
        /\ \/ /\ ~ListenDone(w)
              /\ LoopContinue
              /\ UNCHANGED <<fin, stop, panicked>>
           \/ /\ ListenDone(w)
              /\ fin' = [fin EXCEPT ![l] = @ \/ w \in {"done", "trap2"}]
              /\ stop' = [stop EXCEPT ![l] = IF stop[l] = "nil" THEN "nil"
                                                              ELSE "closed"]
              /\ panicked' = (panicked \/ stop[l] = "closed")
              /\ lerr' = ListenErr(w)
              /\ lpc' = "delete"
              /\ UNCHANGED <<lsen, lent>>
        /\ UNCHANGED <<async, closing, conn, lockVars, tagVars, closed, err,
                       re, buf, reading, ctxDone, pc, cpc, res, errC>>

LoopDelete ==
    /\ lpc = "delete"
    /\ mu = None
    /\ tags' = Delete(lsen.tag)
    /\ lpc' = "close"
    /\ UNCHANGED <<async, closing, conn, lockVars, nextTag, tag, tagsNil,
                   replyVars, listenVars, ctxDone, pc, cpc, res, lsen, lent,
                   lerr, errC, panicked>>

\* closeReply: chanReply.close, outside c.mu.
LoopClose ==
    /\ lpc = "close"
    /\ closed' = [closed EXCEPT ![lent] = TRUE]
    /\ panicked' = (panicked \/ closed[lent])
    /\ err' = IF IsCall(lent) /\ err[lent[1]] = "none"
              THEN [err EXCEPT ![lent[1]] = lerr] ELSE err
    /\ LoopContinue
    /\ UNCHANGED <<async, closing, conn, lockVars, tagVars, re, fin,
                   listenVars, ctxDone, pc, cpc, res, errC>>

\* ReadSentence returned an error: the connection failed or was closed, the
\* reader was cancelled, or a word was malformed.
LoopReadErr ==
    /\ lpc = "read"
    /\ lpc' = "closeTags"
    /\ UNCHANGED <<async, closing, conn, lockVars, tagVars, replyVars,
                   listenVars, ctxDone, pc, cpc, res, lsen, lent, lerr, errC, panicked>>

\* Mutant: the read error is never passed on.
CloseTagsErr_Never(p) == err[p]

\* The error closeTags gives to a call that is still registered.
CloseTagsErr(p) == IF closing \/ err[p] # "none" THEN err[p] ELSE "read"

LoopCloseTags ==
    /\ lpc = "closeTags"
    /\ mu = None
    /\ closed' = [e \in Entry |-> closed[e] \/ Registered(e)]
    /\ panicked' = (panicked \/ \E e \in Entry : Registered(e) /\ closed[e])
    /\ err' = [p \in Call |-> IF Registered(CallOf(p)) THEN CloseTagsErr(p)
                                                       ELSE err[p]]
    /\ tagsNil' = TRUE
    /\ tags' = [t \in Tag |-> None]
    /\ lpc' = "report"
    /\ UNCHANGED <<async, closing, conn, lockVars, nextTag, tag, re, fin,
                   listenVars, ctxDone, pc, cpc, res, lsen, lent, lerr, errC>>

\* asyncLoopChan: closing is read a second time, then errC is closed.
LoopReport ==
    /\ lpc = "report"
    /\ mu = None
    /\ errC' = IF closing THEN "closed" ELSE "err"
    /\ lpc' = "ended"
    /\ UNCHANGED <<async, closing, conn, lockVars, tagVars, replyVars,
                   listenVars, ctxDone, pc, cpc, res, lsen, lent, lerr, panicked>>

-----------------------------------------------------------------------------
(* Close, and the environment.                                             *)

\* Mutant: rwc.Close() is forgotten.
Close_KeepsConn ==
    /\ mu = None
    /\ ~closing
    /\ closing' = TRUE
    /\ UNCHANGED <<async, conn, lockVars, tagVars, replyVars, listenVars,
                   ctxDone, pc, cpc, res, loopVars, panicked>>

Close ==
    /\ mu = None
    /\ ~closing
    /\ closing' = TRUE
    /\ conn' = "closed"
    /\ UNCHANGED <<async, lockVars, tagVars, replyVars, listenVars, ctxDone,
                   pc, cpc, res, loopVars, panicked>>

ConnBreak ==
    /\ conn = "open"
    /\ conn' = "broken"
    /\ UNCHANGED <<async, closing, lockVars, tagVars, replyVars, listenVars,
                   ctxDone, pc, cpc, res, loopVars, panicked>>

\* The context of a call in progress expires or is cancelled.  The code looks
\* at the context only in its selects, so earlier and later make no difference.
CtxExpire(p) ==
    /\ ~ctxDone[p] /\ pc[p] \notin {"idle", "returned"}
    /\ ctxDone' = [ctxDone EXCEPT ![p] = TRUE]
    /\ UNCHANGED <<async, closing, conn, lockVars, tagVars, replyVars,
                   listenVars, pc, cpc, res, loopVars, panicked>>

\* The application stops receiving from Chan().
StopReading(l) ==
    /\ reading[l] /\ pc[l] = "listening"
    /\ reading' = [reading EXCEPT ![l] = FALSE]
    /\ UNCHANGED <<async, closing, conn, lockVars, tagVars, replyVars, stop,
                   buf, ctxDone, pc, cpc, res, loopVars, panicked>>

-----------------------------------------------------------------------------
RunStep(p) ==
    \/ RunCall(p) \/ RunBegin(p) \/ RunTag(p) \/ RunRegister(p)
    \/ \E ok \in BOOLEAN : RunFlush(p, ok) \/ SyncEnd(p, ok)
    \/ RunWake(p) \/ RunCtx(p) \/ RunDrained(p)

ListenStep(l) ==
    \/ ListenCall(l) \/ ListenBegin(l) \/ ListenLock(l)
    \/ \E ok, withCtx \in BOOLEAN : ListenFlush(l, ok, withCtx)
    \/ WatchSelect(l) \/ Consume(l)

CancelStep(p) ==
    \/ CancelRegister(p) \/ CancelBegin(p)
    \/ \E ok \in BOOLEAN : CancelEnd(p, ok)

\* The steps of asyncLoop other than the read of the next sentence.
LoopStep ==
    \/ LoopLookup \/ LoopProcessReply \/ LoopSend \/ LoopProcessListen
    \/ LoopDelete \/ LoopClose \/ LoopCloseTags \/ LoopReport

\* Sentences and read errors: what the device and the network choose.
ReadStep ==
    \/ \E sen \in Sentence :
          LoopRead(sen) \/ \E p \in Runners : SyncRead(p, sen)
    \/ LoopReadErr \/ \E p \in Runners : SyncReadErr(p)

EnvStep ==
    \/ Async \/ Close \/ ConnBreak
    \/ \E p \in Call : CtxExpire(p)
    \/ \E l \in Listeners : StopReading(l)

Next ==
    \/ \E p \in Runners : RunStep(p)
    \/ \E l \in Listeners : ListenStep(l)
    \/ \E p \in Call : CancelStep(p)
    \/ LoopStep \/ ReadStep \/ EnvStep

Spec == Init /\ [][Next]_vars

-----------------------------------------------------------------------------
(* Properties.                                                             *)

\* The entry is between its BeginSentence and its EndSentence.
Writing(e) ==
    IF IsCall(e) THEN pc[e[1]] \in {"begun", "tagged", "flush", "syncEnd"}
                 ELSE cpc[e[1]] = "end"

\* A goroutine waits, or an application may wait, for the call's channel.
Waiting(p) == pc[p] \in {"wait", "drain", "listening"}

\* No channel is closed twice and none is sent to after its close, whatever
\* the device sends and however Close, cancellation and replies race
\* (chanReply.close, ListenReply.closeStop, the send in processSentence).
NoPanic == ~panicked

\* The words of two commands never mix on the wire: between BeginSentence and
\* EndSentence at most one Run, Listen or cancelTag is writing.
SentenceExclusive ==
    \A d, e \in Entry : Writing(d) /\ Writing(e) => d = e

\* Nobody waits on a channel that no one will close: as long as the channel
\* of a waiting call is open, asyncLoop can find the call in c.tags under its
\* own tag, or is about to close it.  Hence no waiter is left behind by an
\* ended loop (tags = nil).
NoOrphan ==
    \A p \in Call :
        Waiting(p) /\ ~closed[CallOf(p)] =>
            \/ Lookup(tag[CallOf(p)]) = CallOf(p)
            \/ lpc = "close" /\ lent = CallOf(p)

\* A sentence is processed by the request that was sent with its tag and by
\* no other, although runs, listeners and cancels draw tags concurrently.
NoCrossTalk ==
    lpc \in {"process", "delete", "close"} =>
        /\ tag[lent] = lsen.tag
        /\ \A e \in Entry : tag[e] = lsen.tag => e = lent

\* A call that ends without an error has seen its !done (or interruption)
\* unless Close was called: a lost connection never passes for the end of a
\* reply (RunArgsContext, ListenReply.Err, closeTags).
CleanEnd ==
    /\ \A p \in Call : closed[CallOf(p)] /\ err[p] = "none" =>
                         fin[p] \/ closing
    /\ \A p \in Runners : res[p] = "ok" => fin[p] \/ closing

\* Once Run has returned, or a channel is closed, asyncLoop no longer writes
\* to the reply, which the caller reads without a lock (Reply, Done, Err()).
ReplyFrozen ==
    [][\A p \in Call :
          pc[p] = "returned" \/ closed[CallOf(p)] =>
              re'[p] = re[p] /\ fin'[p] = fin[p] /\ err'[p] = err[p]]_vars

\* What client_transport.go documents of Command: a reply that has rows and no
\* error ends with the terminal sentence, so the last element of TranslateReply
\* is !done and never a data row.
TerminalReply ==
    \A p \in Runners : res[p] = "ok" /\ re[p] > 0 => fin[p]

\* What listen.go documents of ListenReply: when a sentence makes asyncLoop
\* close the channel, Done has been set to that sentence.
DoneIsSet == lpc = "close" /\ IsListen(lent) => fin[lent[1]]

\* What transport/contract.go documents of !fatal: the session is dead and all
\* pending commands fail, so none is left in c.tags when asyncLoop is done
\* with the sentence.
FatalFailsAll ==
    [][lsen.word = "fatal" /\ lpc # "read" /\ lpc' = "read" =>
          \A p \in Call : ~Registered(CallOf(p))']_vars

-----------------------------------------------------------------------------
(* The abstract specification of Run.  A reply is closed when its channel  *)
(* is, or when its caller has returned.                                    *)

R == INSTANCE Runs WITH
        Caller <- Runners,
        rows   <- [p \in Runners |-> re[p]],
        done   <- [p \in Runners |-> fin[p]],
        error  <- [p \in Runners |-> err[p]],
        closed <- [p \in Runners |-> closed[CallOf(p)] \/ pc[p] = "returned"],
        result <- [p \in Runners |-> res[p]],
        shut   <- closing

\* Run keeps its promise, in both modes: a reply only grows until it is closed,
\* is closed without an error only when complete or by Close, and its caller is
\* told once, and exactly what the closed reply says (RunArgsContext,
\* runArgsContextSync, asyncLoop, closeTags).
AnswersRuns == R!Spec

-----------------------------------------------------------------------------
(* The inductive invariant behind these properties.                        *)

\* Stages at which an entry may be in c.tags or in asyncLoop's hands.
Live(e) ==
    \/ ~IsCall(e) /\ cpc[e[1]] \in {"begin", "end", "finished"}
    \/ IsListen(e) /\ pc[e[1]] = "listening"
    \/ IsCall(e) /\ ~IsListen(e) /\ pc[e[1]] \in {"flush", "wait", "drain"}

\* Stages at which the request has its tag.
HasTag(p) == IF p \in Runners THEN pc[p] \in {"tagged", "flush", "wait", "drain"}
                               ELSE pc[p] \notin {"idle", "returned"}

LockInv ==
    /\ \A e \in Entry : Writing(e) => wlock = e
    /\ \A p \in Call : pc[p] = "flush" => mu = p
    /\ mu # None => pc[mu] = "flush"

TagInv ==
    /\ \A e \in Entry : tag[e] <= nextTag
    /\ \A d, e \in Entry : tag[d] = tag[e] /\ tag[d] # 0 => d = e
    /\ \A p \in Call : HasTag(p) => tag[CallOf(p)] # 0

RegInv ==
    /\ \A t \in Tag : tags[t] # None =>
           tag[tags[t]] = t /\ ~closed[tags[t]] /\ Live(tags[t])
    /\ tagsNil => \A t \in Tag : tags[t] = None
    /\ \A p \in Runners : pc[p] = "flush" =>
           Lookup(tag[CallOf(p)]) = CallOf(p)

PhaseInv ==
    /\ lpc = "off" <=> ~async
    /\ tagsNil <=> lpc \in {"off", "report", "ended"}

\* What asyncLoop holds.  The entry left "flush" before the lookup, so its
\* owner can no longer withdraw it.
LoopInv ==
    lpc \in {"process", "delete", "close"} =>
        /\ lent \in Entry /\ lsen.tag \in Tag
        /\ tag[lent] = lsen.tag
        /\ Live(lent) /\ (IsCall(lent) => pc[lent[1]] # "flush")
        /\ ~closed[lent]
        /\ tags[lsen.tag] = IF lpc = "close" THEN None ELSE lent

ClosedInv ==
    \A e \in Entry : closed[e] =>
        IF IsCall(e) THEN Waiting(e[1]) \/ pc[e[1]] = "returned"
                     ELSE Live(e)

\* cancelTag runs only after the wait of a run, or beside an open listener.
CancelInv ==
    /\ \A p \in Runners : pc[p] \notin {"drain", "returned"} => cpc[p] = "off"
    /\ \A l \in Listeners : pc[l] # "listening" => cpc[l] = "off"

StopInv ==
    \A l \in Listeners : stop[l] = "closed" =>
        closed[CallOf(l)] \/ (lpc \in {"delete", "close"} /\ lent = CallOf(l))

DoneInv ==
    lpc \in {"delete", "close"} /\ IsCall(lent) /\ lerr = "none" =>
        fin[lent[1]]

\* The inductive invariant: whatever the device sends, an entry is in c.tags
\* exactly while its owner waits and its channel is open, tags are never
\* reused, and asyncLoop holds only such entries.
IInv ==
    /\ TypeOK /\ LockInv /\ TagInv /\ RegInv /\ PhaseInv /\ LoopInv
    /\ ClosedInv /\ CancelInv /\ StopInv /\ DoneInv
    /\ NoOrphan /\ CleanEnd /\ NoPanic
=============================================================================
