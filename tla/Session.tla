------------------------------- MODULE Session -------------------------------
(***************************************************************************)
(* AsyncClient composed with a RouterOS device behind a FIFO connection:   *)
(* every request that EndSentence flushes reaches the device in order, the *)
(* device answers each with !re rows and a final !done, in any interleaving*)
(* of the running commands, and serves /cancel.  The read of a sentence    *)
(* takes the next one on the wire.  Under the fairness of the Go scheduler *)
(* and of a device that answers, this is where calls must return.          *)
(***************************************************************************)
EXTENDS AsyncClient, Sequences

CONSTANTS CancelTarget, \* the listener a runner's command cancels, or None:
                        \* such a runner calls ListenReply.Cancel
          MayStall,     \* applications may stop receiving from Chan()
          MayFail,      \* the network may break the connection
          Overlap       \* synchronous runs may overlap each other and Async

ASSUME SessionAssumption ==
    /\ CancelTarget \in [Runners -> Listeners \cup {None}]
    /\ MayStall \in BOOLEAN /\ MayFail \in BOOLEAN /\ Overlap \in BOOLEAN

VARIABLES
    toDev,    \* requests on the wire, by entry
    fromDev,  \* reply sentences on the wire
    dev,      \* the device's view of a request
    sent      \* number of !re rows the device has sent for a call

wireVars == <<toDev, fromDev, dev, sent>>
sessionVars == <<vars, wireVars>>

\* The request a /cancel is about: that of cancelTag, or of ListenReply.Cancel.
IsCancel(e) == ~IsCall(e) \/ (e[1] \in Runners /\ CancelTarget[e[1]] # None)
Target(e) == CallOf(IF IsCall(e) THEN CancelTarget[e[1]] ELSE e[1])

SessionTypeOK ==
    /\ TypeOK
    /\ toDev \in Seq(Entry) /\ fromDev \in Seq(Sentence)
    /\ dev \in [Entry -> {"unknown", "running", "trapped", "ended"}]
    /\ sent \in [Call -> 0 .. MaxRows]

SessionInit ==
    /\ Init
    /\ toDev = <<>> /\ fromDev = <<>>
    /\ dev = [e \in Entry |-> "unknown"]
    /\ sent = [p \in Call |-> 0]

Answer(e, word) == [tag |-> tag[e], word |-> word]

-----------------------------------------------------------------------------
(* The client's side of the wire.                                          *)

Put2Wire(e) ==
    /\ toDev' = Append(toDev, e)
    /\ UNCHANGED <<fromDev, dev, sent>>

\* A synchronous run, or one that may become synchronous, is in progress.
SyncBusy ==
    ~async /\ \E p \in Runners : pc[p] \notin {"idle", "returned"}

\* Unless Overlap, the application makes one call at a time as long as the
\* client is synchronous.  A listener can be cancelled once Listen returned it.
SRunCall(p) ==
    /\ Overlap \/ ~SyncBusy
    /\ CancelTarget[p] # None => pc[CancelTarget[p]] = "listening"
    /\ RunCall(p)
    /\ UNCHANGED wireVars

SRunLocal(p) ==
    /\ \/ RunBegin(p) \/ RunTag(p) \/ RunRegister(p) \/ RunFlush(p, FALSE)
       \/ SyncEnd(p, FALSE) \/ RunWake(p) \/ RunDrained(p)
    /\ UNCHANGED wireVars

\* A select whose context is already done need not be taken at once.
SRunCtx(p) == RunCtx(p) /\ UNCHANGED wireVars

SRunSend(p) == (RunFlush(p, TRUE) \/ SyncEnd(p, TRUE)) /\ Put2Wire(CallOf(p))

SListenLocal(l) ==
    /\ \/ ListenBegin(l) \/ ListenLock(l) \/ WatchSelect(l) \/ Consume(l)
       \/ \E withCtx \in BOOLEAN : ListenFlush(l, FALSE, withCtx)
    /\ UNCHANGED wireVars

SListenCall(l) == (Overlap \/ ~SyncBusy) /\ ListenCall(l) /\ UNCHANGED wireVars

SListenSend(l) ==
    \E withCtx \in BOOLEAN :
        ListenFlush(l, TRUE, withCtx) /\ Put2Wire(CallOf(l))

SCancel(p) ==
    \/ (CancelRegister(p) \/ CancelBegin(p) \/ CancelEnd(p, FALSE))
       /\ UNCHANGED wireVars
    \/ CancelEnd(p, TRUE) /\ Put2Wire(CancelOf(p))

SLoop == LoopStep /\ UNCHANGED wireVars

\* ReadSentence: the next sentence on the wire, whoever reads takes it.
Receive(sen) ==
    /\ fromDev # <<>> /\ sen = Head(fromDev)
    /\ fromDev' = Tail(fromDev)
    /\ UNCHANGED <<toDev, dev, sent>>

\* Or an error once the connection is lost, and then nothing more arrives.
ReceiveErr ==
    /\ conn # "open"
    /\ fromDev' = <<>>
    /\ UNCHANGED <<toDev, dev, sent>>

SRead ==
    \/ \E sen \in Sentence : LoopRead(sen) /\ Receive(sen)
    \/ LoopReadErr /\ ReceiveErr

SSyncRead(p) ==
    \/ \E sen \in Sentence : SyncRead(p, sen) /\ Receive(sen)
    \/ SyncReadErr(p) /\ ReceiveErr

SEnv ==
    /\ \/ (Overlap \/ ~SyncBusy) /\ Async
       \/ Close
       \/ MayFail /\ ConnBreak
       \/ \E p \in Call : CtxExpire(p)
       \/ MayStall /\ \E l \in Listeners : StopReading(l)
    /\ UNCHANGED wireVars

-----------------------------------------------------------------------------
(* The device (external).  It stops when the connection does.              *)

\* The next request: a command starts; a /cancel interrupts its target, which
\* answers with a category 2 trap and !done, or fails when it is not running.
DevTake ==
    LET e == Head(toDev)
        t == Target(e)
    IN  /\ conn = "open"
        /\ toDev # <<>>
        /\ toDev' = Tail(toDev)
        /\ \/ /\ ~IsCancel(e)
              /\ dev' = [dev EXCEPT ![e] = "running"]
              /\ UNCHANGED fromDev
           \/ /\ IsCancel(e) /\ dev[t] = "running"
              /\ dev' = [dev EXCEPT ![e] = "ended", ![t] = "ended"]
              /\ fromDev' = fromDev \o <<Answer(t, "trap2"), Answer(e, "done"),
                                         Answer(t, "done")>>
           \/ /\ IsCancel(e) /\ dev[t] # "running"
              /\ dev' = [dev EXCEPT ![e] = "ended"]
              /\ fromDev' = fromDev \o <<Answer(e, "trap"), Answer(e, "done")>>
        /\ UNCHANGED <<sent, vars>>

DevRow(p) ==
    /\ conn = "open"
    /\ dev[CallOf(p)] = "running"
    /\ \A q \in Call : sent[q] < MaxRows
    /\ sent' = [sent EXCEPT ![p] = @ + 1]
    /\ fromDev' = Append(fromDev, Answer(CallOf(p), "re"))
    /\ UNCHANGED <<toDev, dev, vars>>

DevEnd(p) ==
    /\ conn = "open"
    /\ dev[CallOf(p)] = "running"
    /\ \/ /\ fromDev' = Append(fromDev, Answer(CallOf(p), "done"))
          /\ dev' = [dev EXCEPT ![CallOf(p)] = "ended"]
       \/ /\ fromDev' = fromDev \o <<Answer(CallOf(p), "trap"),
                                     Answer(CallOf(p), "done")>>
          /\ dev' = [dev EXCEPT ![CallOf(p)] = "trapped"]
    /\ UNCHANGED <<toDev, sent, vars>>

-----------------------------------------------------------------------------
SessionNext ==
    \/ \E p \in Runners : SRunCall(p) \/ SRunLocal(p) \/ SRunCtx(p)
                            \/ SRunSend(p) \/ SSyncRead(p)
    \/ \E l \in Listeners : SListenCall(l) \/ SListenLocal(l) \/ SListenSend(l)
    \/ \E p \in Call : SCancel(p) \/ DevRow(p) \/ DevEnd(p)
    \/ SLoop \/ SRead \/ SEnv \/ DevTake

\* Every goroutine that can run is scheduled and applications that have not
\* stopped receive; the device takes requests and finishes the commands of
\* runs.  Nobody has to call anything, cancel, close or end a listener.
ClientFairness ==
    /\ \A p \in Runners :
          /\ WF_sessionVars(SRunLocal(p) \/ SRunCtx(p) \/ SRunSend(p))
          /\ WF_sessionVars(SSyncRead(p))
    /\ \A l \in Listeners : WF_sessionVars(SListenLocal(l) \/ SListenSend(l))
    /\ \A p \in Call : WF_sessionVars(SCancel(p))
    /\ WF_sessionVars(SLoop) /\ WF_sessionVars(SRead)
DeviceFairness ==
    /\ WF_sessionVars(DevTake)
    /\ \A p \in Runners : WF_sessionVars(DevEnd(p))

\* A session with a device that answers, and one with a device that may hang.
SafetySpec == SessionInit /\ [][SessionNext]_sessionVars
SessionSpec == SafetySpec /\ ClientFairness /\ DeviceFairness
SilentSpec == SafetySpec /\ ClientFairness

-----------------------------------------------------------------------------
(* Properties.                                                             *)

\* Nothing is lost or added on the way: a run that returns without an error
\* and without Close holds exactly the rows the device sent for it, although
\* the rows of all commands share one connection (asyncLoop, runArgsContextSync).
AllRows ==
    \A p \in Runners :
        res[p] = "ok" /\ fin[p] => re[p] = sent[p]

\* Cancelling a listener through its context ends it cleanly: on a healthy
\* connection its channel closes with an error only if the device itself
\* failed the command (ListenReply.processSentence, cancelTag).
CancelIsClean ==
    \A l \in Listeners :
        closed[CallOf(l)] /\ err[l] # "none" =>
            conn # "open" \/ dev[CallOf(l)] = "trapped"

\* A Run that is told its result, or that its context ended, leaves no command
\* behind that the device still executes: whoever retries it then does not run
\* it beside itself (RunArgsContext drains after cancelTag).  After Close the
\* device may be at work, and after a failure of the connection.
NothingLeftRunning ==
    \A p \in Runners :
        res[p] \in {"ok", "device", "ctx"} /\ ~closing =>
            dev[CallOf(p)] \in {"ended", "trapped"}

\* A Run whose request is on the wire does not wait for ever: it is answered,
\* or the loop ends and closeTags releases it.
RunAnswered == \A p \in Runners : pc[p] = "wait" ~> closed[CallOf(p)]

\* A listener whose context is done is closed, whether the cancel reaches the
\* device, the command ends first, or the connection is lost.
ListenerReleased ==
    \A l \in Listeners :
        (pc[l] = "listening" /\ stop[l] # "nil" /\ ctxDone[l])
            ~> closed[CallOf(l)]

\* After Close the loop ends and every registered call is released.
CloseReleases ==
    (closing /\ async) ~> lpc = "ended" /\ \A p \in Call : ~Registered(CallOf(p))

\* What PLAN.md asks of every network operation: a Run that waits for its reply
\* when its context ends returns, whatever happens to the other calls.
CtxReturns ==
    \A p \in Runners : (pc[p] = "wait" /\ ctxDone[p]) ~> pc[p] = "returned"

\* What transport/contract.go documents of Command: it honours the context, in
\* synchronous mode too and whether or not the device answers.
CommandHonoursCtx ==
    \A p \in Runners :
        (pc[p] \in {"sync", "wait"} /\ ctxDone[p]) ~> pc[p] = "returned"

\* What listen.go documents of Chan: Cancel closes the channel.
CancelCloses ==
    \A p \in Runners :
        (CancelTarget[p] # None /\ pc[p] = "wait") ~>
            \E l \in Listeners : CancelTarget[p] = l /\ closed[CallOf(l)]
=============================================================================
