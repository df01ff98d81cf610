----------------------------- MODULE SessionProofs -----------------------------
(***************************************************************************)
(* Session for any number of runs and listeners: what a run is told, and   *)
(* what its reply holds, is what the device did.  The invariant of         *)
(* AsyncClient carries over, since every step of a session is a step of    *)
(* the client or of the device; what is added relates the client's state   *)
(* to the sentences that are still unread and to the device.               *)
(***************************************************************************)
EXTENDS Session, AsyncClientProofs, Induction

-----------------------------------------------------------------------------
(* Counting the rows of one command among the sentences of all.            *)

IsRow(t, s) == s.word = "re" /\ s.tag = t

\* A reply that has lo rows before the sentences of ss has hi after them.
Grows(ss, t, lo, hi) ==
    \E n \in Seq(Nat) :
        /\ Len(n) = Len(ss) + 1
        /\ n[1] = lo /\ n[Len(n)] = hi
        /\ \A i \in 1 .. Len(ss) :
              n[i + 1] = n[i] + (IF IsRow(t, ss[i]) THEN 1 ELSE 0)

NoRows(ss, t) == \A i \in 1 .. Len(ss) : ~IsRow(t, ss[i])

\* Without rows it does not grow.
LEMMA GrowsNothing ==
    ASSUME NEW ss \in Seq(Sentence), NEW t, NoRows(ss, t), NEW k \in Nat
    PROVE  Grows(ss, t, k, k)
  <1>. DEFINE n == [i \in 1 .. Len(ss) + 1 |-> k]
  <1>1. n \in Seq(Nat) /\ Len(n) = Len(ss) + 1
    OBVIOUS
  <1>2. \A i \in 1 .. Len(ss) + 1 : n[i] = k
    OBVIOUS
  <1>. HIDE DEF n
  <1>. QED BY <1>1, <1>2 DEF Grows, NoRows

\* And what has no rows has not grown it.
LEMMA GrewNothing ==
    ASSUME NEW ss \in Seq(Sentence), NEW t, NoRows(ss, t), NEW lo, NEW hi,
           Grows(ss, t, lo, hi)
    PROVE  lo = hi
  <1>1. PICK n \in Seq(Nat) :
            /\ Len(n) = Len(ss) + 1
            /\ n[1] = lo /\ n[Len(n)] = hi
            /\ \A i \in 1 .. Len(ss) :
                  n[i + 1] = n[i] + (IF IsRow(t, ss[i]) THEN 1 ELSE 0)
    BY DEF Grows
  <1>. DEFINE S == {i \in Nat : i <= Len(ss) => n[i + 1] = lo}
  <1>2. 0 \in S
    BY <1>1
  <1>3. \A i \in Nat : i < Len(ss) /\ i \in S => i + 1 \in S
    <2>. SUFFICES ASSUME NEW i \in Nat, i < Len(ss), n[i + 1] = lo, i + 1 <= Len(ss)
                  PROVE  n[(i + 1) + 1] = lo
      OBVIOUS
    <2>1. i + 1 \in 1 .. Len(ss)
      OBVIOUS
    <2>2. n[(i + 1) + 1] = n[i + 1] + 0
      BY <1>1, <2>1 DEF NoRows
    <2>3. n[i + 1] \in Nat
      BY <1>1, <2>1
    <2>. QED BY <2>2, <2>3
  <1>4. Len(ss) \in Nat
    OBVIOUS
  <1>. HIDE DEF S
  <1>5. \A i \in 0 .. Len(ss) : i \in S
    BY <1>2, <1>3, <1>4, NatUpTo
  <1>6. Len(ss) \in S
    BY <1>4, <1>5
  <1>. QED BY <1>1, <1>4, <1>6 DEF S

\* The first sentence is read.
LEMMA GrowsTail ==
    ASSUME NEW ss \in Seq(Sentence), ss # <<>>, NEW t, NEW lo \in Nat, NEW hi,
           Grows(ss, t, lo, hi)
    PROVE  Grows(Tail(ss), t, IF IsRow(t, Head(ss)) THEN lo + 1 ELSE lo, hi)
  <1>1. PICK n \in Seq(Nat) :
            /\ Len(n) = Len(ss) + 1
            /\ n[1] = lo /\ n[Len(n)] = hi
            /\ \A i \in 1 .. Len(ss) :
                  n[i + 1] = n[i] + (IF IsRow(t, ss[i]) THEN 1 ELSE 0)
    BY DEF Grows
  <1>2. Tail(n) \in Seq(Nat) /\ Len(Tail(n)) = Len(Tail(ss)) + 1
    BY <1>1
  <1>3. Tail(n)[1] = IF IsRow(t, Head(ss)) THEN lo + 1 ELSE lo
    BY <1>1
  <1>4. Tail(n)[Len(Tail(n))] = hi
    BY <1>1
  <1>5. ASSUME NEW i \in 1 .. Len(Tail(ss))
        PROVE  Tail(n)[i + 1] = Tail(n)[i] + (IF IsRow(t, Tail(ss)[i]) THEN 1 ELSE 0)
    <2>1. /\ Tail(n)[i + 1] = n[i + 2] /\ Tail(n)[i] = n[i + 1]
          /\ Tail(ss)[i] = ss[i + 1] /\ i + 1 \in 1 .. Len(ss)
      BY <1>1
    <2>. QED BY <1>1, <2>1
  <1>. QED BY <1>2, <1>3, <1>4, <1>5 DEF Grows

\* One more sentence is sent.
LEMMA GrowsAppend ==
    ASSUME NEW ss \in Seq(Sentence), NEW s \in Sentence, NEW t,
           NEW lo, NEW hi \in Nat, Grows(ss, t, lo, hi)
    PROVE  Grows(Append(ss, s), t, lo, IF IsRow(t, s) THEN hi + 1 ELSE hi)
  <1>1. PICK n \in Seq(Nat) :
            /\ Len(n) = Len(ss) + 1
            /\ n[1] = lo /\ n[Len(n)] = hi
            /\ \A i \in 1 .. Len(ss) :
                  n[i + 1] = n[i] + (IF IsRow(t, ss[i]) THEN 1 ELSE 0)
    BY DEF Grows
  <1>. DEFINE top == IF IsRow(t, s) THEN hi + 1 ELSE hi
              m == Append(n, top)
  <1>2. m \in Seq(Nat) /\ Len(m) = Len(Append(ss, s)) + 1
    BY <1>1
  <1>3. m[1] = lo /\ m[Len(m)] = top
    BY <1>1
  <1>4. \A i \in 1 .. Len(ss) :
            m[i] = n[i] /\ m[i + 1] = n[i + 1] /\ Append(ss, s)[i] = ss[i]
    BY <1>1
  <1>5. LET k == Len(ss) + 1
        IN  m[k] = hi /\ m[k + 1] = top /\ Append(ss, s)[k] = s
    BY <1>1
  <1>6. Len(Append(ss, s)) = Len(ss) + 1 /\ Len(ss) \in Nat
    OBVIOUS
  <1>. HIDE DEF m
  <1>7. ASSUME NEW i \in 1 .. Len(Append(ss, s))
        PROVE  m[i + 1] = m[i] + (IF IsRow(t, Append(ss, s)[i]) THEN 1 ELSE 0)
    <2>1. CASE i \in 1 .. Len(ss)
      BY <1>1, <1>4, <2>1
    <2>2. CASE i = Len(ss) + 1
      BY <1>5, <2>2
    <2>. QED BY <1>6, <2>1, <2>2
  <1>. QED BY <1>2, <1>3, <1>7 DEF Grows

-----------------------------------------------------------------------------
(* Every step of a session is a step of the client, or leaves it alone.    *)

LEMMA ClientStep == [SessionNext]_sessionVars => [Next]_vars
  <1>. SUFFICES ASSUME [SessionNext]_sessionVars PROVE [Next]_vars
    OBVIOUS
  <1>1. ASSUME NEW p \in Runners,
               SRunCall(p) \/ SRunLocal(p) \/ SRunCtx(p) \/ SRunSend(p) \/ SSyncRead(p)
        PROVE  Next
    <2>1. RunStep(p) \/ ReadStep
      BY <1>1 DEF SRunCall, SRunLocal, SRunCtx, SRunSend, SSyncRead, RunStep, ReadStep
    <2>. QED BY <2>1 DEF Next
  <1>2. ASSUME NEW l \in Listeners, SListenCall(l) \/ SListenLocal(l) \/ SListenSend(l)
        PROVE  Next
    <2>1. ListenStep(l)
      BY <1>2 DEF SListenCall, SListenLocal, SListenSend, ListenStep
    <2>. QED BY <2>1 DEF Next
  <1>3. ASSUME NEW p \in Call, SCancel(p) PROVE Next
    <2>1. CancelStep(p)
      BY <1>3 DEF SCancel, CancelStep
    <2>. QED BY <2>1 DEF Next
  <1>4. ASSUME NEW p \in Call, DevRow(p) \/ DevEnd(p) PROVE UNCHANGED vars
    BY <1>4 DEF DevRow, DevEnd
  <1>5. CASE SLoop
    BY <1>5 DEF SLoop, Next
  <1>6. CASE SRead
    <2>1. ReadStep
      BY <1>6 DEF SRead, ReadStep
    <2>. QED BY <2>1 DEF Next
  <1>7. CASE SEnv
    <2>1. EnvStep
      BY <1>7 DEF SEnv, EnvStep
    <2>. QED BY <2>1 DEF Next
  <1>8. CASE DevTake
    BY <1>8 DEF DevTake
  <1>9. CASE UNCHANGED sessionVars
    BY <1>9 DEF sessionVars
  <1>. QED BY <1>1, <1>2, <1>3, <1>4, <1>5, <1>6, <1>7, <1>8, <1>9 DEF SessionNext

\* So what holds of the client whatever the device does holds here: its
\* inductive invariant, and the refinement of Runs.
LEMMA ClientInvariance == SafetySpec => []IInv
  <1>1. SessionInit => IInv
    BY InitEstablishes DEF SessionInit
  <1>2. IInv /\ [SessionNext]_sessionVars => IInv'
    BY ClientStep, NextPreserves
  <1>. QED BY <1>1, <1>2, PTL DEF SafetySpec

\* Both sessions, with a device that answers and with one that may hang, are
\* among those that the theorems are about.
LEMMA SafetyOfSessions == SessionSpec \/ SilentSpec => SafetySpec
  BY PTL DEF SessionSpec, SilentSpec

\* In a session too, Run keeps its promise.
THEOREM SessionImplementsRuns == SafetySpec => AnswersRuns
  <1>1. SafetySpec => Spec
    BY ClientStep, PTL DEF SafetySpec, SessionInit, Spec
  <1>. QED BY <1>1, ImplementsRuns, PTL

-----------------------------------------------------------------------------
(* The connection, the types of the wire, and the requests on it.          *)

\* The connection does not come back, and only its loss makes reads and
\* writes fail.
ConnInv ==
    /\ closing => conn = "closed"
    /\ werr => conn # "open"
    /\ lpc \in {"closeTags", "report", "ended"} => conn # "open"

OnWire(e) == \E i \in DOMAIN toDev : toDev[i] = e

\* The request has been flushed, or it never will be.
Flushed(e) ==
    IF IsCall(e) THEN pc[e[1]] \in {"wait", "drain", "listening", "sync", "returned"}
                 ELSE cpc[e[1]] = "finished"

\* A request is on the wire once, and the device has not seen it yet.
ReqInv ==
    /\ \A i, j \in DOMAIN toDev : toDev[i] = toDev[j] => i = j
    /\ \A e \in Entry : OnWire(e) => dev[e] = "unknown"
    /\ \A e \in Entry : OnWire(e) \/ dev[e] # "unknown" => Flushed(e)
    /\ \A p \in Call : dev[CallOf(p)] = "unknown" => sent[p] = 0

LEMMA StepConn == ConnInv /\ [SessionNext]_sessionVars => ConnInv'
  <1>. SUFFICES ASSUME ConnInv, [SessionNext]_sessionVars PROVE ConnInv'
    OBVIOUS
  <1>. USE DEF ConnInv, lockVars, loopVars
  <1>1. ASSUME UNCHANGED <<closing, conn, werr, lpc>> PROVE ConnInv'
    BY <1>1
  <1>2. ASSUME NEW ok \in BOOLEAN, EndSentence(ok), UNCHANGED <<closing, conn, lpc>>
        PROVE  ConnInv'
    BY <1>2 DEF EndSentence
  <1>3. ASSUME NEW p \in Runners, SRunCall(p) \/ SRunLocal(p) \/ SRunCtx(p) \/ SRunSend(p)
        PROVE  ConnInv'
    <2>1. CASE SRunCall(p) \/ SRunCtx(p)
      BY <1>1, <2>1 DEF SRunCall, RunCall, SRunCtx, RunCtx
    <2>2. CASE RunBegin(p) \/ RunTag(p) \/ RunRegister(p) \/ RunWake(p) \/ RunDrained(p)
      BY <1>1, <2>2 DEF RunBegin, RunTag, RunRegister, RunWake, RunDrained
    <2>3. ASSUME NEW ok \in BOOLEAN, RunFlush(p, ok) \/ SyncEnd(p, ok) PROVE ConnInv'
      BY <1>2, <2>3 DEF RunFlush, SyncEnd
    <2>. QED BY <1>3, <2>1, <2>2, <2>3 DEF SRunLocal, SRunSend
  <1>4. ASSUME NEW p \in Runners, SSyncRead(p) PROVE ConnInv'
    BY <1>1, <1>4 DEF SSyncRead, SyncRead, SyncReadErr
  <1>5. ASSUME NEW l \in Listeners, SListenCall(l) \/ SListenLocal(l) \/ SListenSend(l)
        PROVE  ConnInv'
    <2>1. CASE SListenCall(l)
      BY <2>1 DEF SListenCall, ListenCall
    <2>2. CASE ListenBegin(l) \/ ListenLock(l) \/ WatchSelect(l) \/ Consume(l)
      BY <1>1, <2>2 DEF ListenBegin, ListenLock, WatchSelect, Consume
    <2>3. ASSUME NEW ok \in BOOLEAN, NEW withCtx \in BOOLEAN, ListenFlush(l, ok, withCtx)
          PROVE  ConnInv'
      BY <1>2, <2>3 DEF ListenFlush
    <2>. QED BY <1>5, <2>1, <2>2, <2>3 DEF SListenLocal, SListenSend
  <1>6. ASSUME NEW p \in Call, SCancel(p) PROVE ConnInv'
    <2>1. CASE CancelRegister(p) \/ CancelBegin(p)
      BY <1>1, <2>1 DEF CancelRegister, CancelBegin
    <2>2. ASSUME NEW ok \in BOOLEAN, CancelEnd(p, ok) PROVE ConnInv'
      BY <1>2, <2>2 DEF CancelEnd
    <2>. QED BY <1>6, <2>1, <2>2 DEF SCancel
  <1>7. CASE SLoop
    <2>1. LoopStep
      BY <1>7 DEF SLoop
    <2>2. UNCHANGED <<closing, conn, werr>> /\ (lpc' = lpc \/ lpc \in {"closeTags", "report"}
              \/ lpc' \in {"read", "process", "delete", "close"})
      BY <2>1 DEF LoopStep, LoopLookup, LoopProcessReply, LoopSend, LoopProcessListen,
             LoopDelete, LoopClose, LoopCloseTags, LoopReport, LoopContinue
    <2>. QED BY <2>2
  <1>8. CASE SRead
    BY <1>8 DEF SRead, LoopRead, LoopReadErr, ReceiveErr
  <1>9. CASE SEnv
    BY <1>9 DEF SEnv, Async, Close, ConnBreak, CtxExpire, StopReading
  <1>10. CASE (\E p \in Call : DevRow(p) \/ DevEnd(p)) \/ DevTake \/ UNCHANGED sessionVars
    BY <1>1, <1>10 DEF DevRow, DevEnd, DevTake, sessionVars, vars
  <1>. QED BY <1>3, <1>4, <1>5, <1>6, <1>7, <1>8, <1>9, <1>10 DEF SessionNext

WireTypes ==
    /\ toDev \in Seq(Entry) /\ fromDev \in Seq(Sentence)
    /\ dev \in [Entry -> {"unknown", "running", "trapped", "ended"}]
    /\ sent \in [Call -> 0 .. MaxRows]

\* A /cancel is about the request of a call.
LEMMA TargetType ==
    ASSUME NEW e \in Entry, IsCancel(e)
    PROVE  \E p \in Call : Target(e) = CallOf(p) /\ CallOf(p) \in Entry
  <1>1. CASE IsCall(e)
    <2>1. CancelTarget[e[1]] \in Listeners
      BY <1>1, SessionAssumption DEF IsCancel
    <2>. QED BY <1>1, <2>1 DEF Target, CallOf, Call, Entry
  <1>2. CASE ~IsCall(e)
    BY <1>2 DEF Target, CallOf, Call, Entry
  <1>. QED BY <1>1, <1>2

LEMMA AnswerType ==
    ASSUME TypeOK, NEW e \in Entry, NEW w \in Word
    PROVE  Answer(e, w) \in Sentence /\ Answer(e, w).tag = tag[e] /\ Answer(e, w).word = w
  BY DEF TypeOK, Answer, Sentence

\* What the device takes was on the wire.
LEMMA TakeFacts ==
    ASSUME WireTypes, toDev # <<>>
    PROVE  /\ Head(toDev) \in Entry /\ OnWire(Head(toDev))
           /\ Tail(toDev) \in Seq(Entry)
           /\ \A e \in Entry :
                 (\E i \in DOMAIN Tail(toDev) : Tail(toDev)[i] = e) => OnWire(e)
  <1>1. toDev \in Seq(Entry)
    BY DEF WireTypes
  <1>2. 1 \in DOMAIN toDev /\ Head(toDev) = toDev[1] /\ toDev[1] \in Entry
    BY <1>1
  <1>3. \A i \in DOMAIN Tail(toDev) : i + 1 \in DOMAIN toDev /\ Tail(toDev)[i] = toDev[i + 1]
    BY <1>1
  <1>. QED BY <1>1, <1>2, <1>3 DEF OnWire

\* Sentences sent together arrive one after the other.
LEMMA SentTogether ==
    ASSUME NEW ss \in Seq(Sentence), NEW a \in Sentence, NEW b \in Sentence,
           NEW c \in Sentence
    PROVE  /\ ss \o <<a, b>> = Append(Append(ss, a), b)
           /\ ss \o <<a, b, c>> = Append(Append(Append(ss, a), b), c)
           /\ Append(ss, a) \in Seq(Sentence)
           /\ ss \o <<a, b>> \in Seq(Sentence)
           /\ ss \o <<a, b, c>> \in Seq(Sentence)
  <1>1. /\ ss \o <<a, b>> = Append(Append(ss, a), b)
        /\ ss \o <<a, b, c>> = Append(Append(Append(ss, a), b), c)
    OBVIOUS
  <1>2. /\ Append(ss, a) \in Seq(Sentence)
        /\ Append(Append(ss, a), b) \in Seq(Sentence)
        /\ Append(Append(Append(ss, a), b), c) \in Seq(Sentence)
    OBVIOUS
  <1>. QED BY <1>1, <1>2

LEMMA StepTypes ==
    ASSUME TypeOK, WireTypes, [SessionNext]_sessionVars PROVE WireTypes'
  <1>. USE DEF WireTypes
  <1>1. ASSUME UNCHANGED wireVars PROVE WireTypes'
    BY <1>1 DEF wireVars
  <1>2. ASSUME NEW e \in Entry, Put2Wire(e) PROVE WireTypes'
    BY <1>2 DEF Put2Wire
  <1>3. ASSUME NEW sen \in Sentence, Receive(sen) PROVE WireTypes'
    BY <1>3 DEF Receive
  <1>4. ASSUME ReceiveErr PROVE WireTypes'
    BY <1>4 DEF ReceiveErr
  <1>5. ASSUME NEW p \in Call PROVE CallOf(p) \in Entry /\ CancelOf(p) \in Entry
    BY DEF CallOf, CancelOf, Entry
  <1>6. Runners \subseteq Call /\ Listeners \subseteq Call
    BY DEF Call
  <1>7. CASE DevTake
    <2>. DEFINE e == Head(toDev)
                t == Target(e)
    <2>1. e \in Entry /\ Tail(toDev) \in Seq(Entry)
      BY <1>7, TakeFacts DEF DevTake
    <2>2. \A w \in Word : Answer(e, w) \in Sentence
      BY <2>1, AnswerType
    <2>3. IsCancel(e) => \A w \in Word : Answer(t, w) \in Sentence
      BY <2>1, TargetType, AnswerType
    <2>4. {"done", "trap", "trap2", "re"} \subseteq Word
      BY DEF Word
    <2>5. fromDev' \in Seq(Sentence)
      <3>. HIDE DEF e, t
      <3>1. CASE fromDev' = fromDev \o <<Answer(t, "trap2"), Answer(e, "done"), Answer(t, "done")>>
                 /\ IsCancel(e)
        <4>1. /\ Answer(t, "trap2") \in Sentence /\ Answer(e, "done") \in Sentence
              /\ Answer(t, "done") \in Sentence
          BY <2>2, <2>3, <2>4, <3>1
        <4>. QED BY <3>1, <4>1, SentTogether
      <3>2. CASE fromDev' = fromDev \o <<Answer(e, "trap"), Answer(e, "done")>>
        <4>1. Answer(e, "trap") \in Sentence /\ Answer(e, "done") \in Sentence
          BY <2>2, <2>4
        <4>. QED BY <3>2, <4>1, SentTogether
      <3>3. CASE fromDev' = fromDev
        BY <3>3
      <3>. QED BY <1>7, <3>1, <3>2, <3>3 DEF DevTake, e, t
    <2>. QED BY <1>7, <2>1, <2>5 DEF DevTake
  <1>8. ASSUME NEW p \in Call, DevRow(p) PROVE WireTypes'
    <2>1. Answer(CallOf(p), "re") \in Sentence
      BY <1>5, AnswerType DEF Word
    <2>2. sent[p] + 1 \in 0 .. MaxRows
      BY <1>8, BoundAssumption DEF DevRow
    <2>. QED BY <1>8, <2>1, <2>2 DEF DevRow
  <1>9. ASSUME NEW p \in Call, DevEnd(p) PROVE WireTypes'
    <2>1. Answer(CallOf(p), "trap") \in Sentence /\ Answer(CallOf(p), "done") \in Sentence
      BY <1>5, AnswerType DEF Word
    <2>2. fromDev' \in Seq(Sentence)
      <3>1. CASE fromDev' = Append(fromDev, Answer(CallOf(p), "done"))
        BY <2>1, <3>1
      <3>2. CASE fromDev' = fromDev \o <<Answer(CallOf(p), "trap"), Answer(CallOf(p), "done")>>
        BY <2>1, <3>2, SentTogether
      <3>. QED BY <1>9, <3>1, <3>2 DEF DevEnd
    <2>. QED BY <1>9, <2>2 DEF DevEnd
  <1>10. ASSUME NEW p \in Runners,
                SRunCall(p) \/ SRunLocal(p) \/ SRunCtx(p) \/ SRunSend(p) \/ SSyncRead(p)
         PROVE  WireTypes'
    BY <1>1, <1>2, <1>3, <1>4, <1>5, <1>6, <1>10
    DEF SRunCall, SRunLocal, SRunCtx, SRunSend, SSyncRead
  <1>11. ASSUME NEW l \in Listeners, SListenCall(l) \/ SListenLocal(l) \/ SListenSend(l)
         PROVE  WireTypes'
    BY <1>1, <1>2, <1>5, <1>6, <1>11 DEF SListenCall, SListenLocal, SListenSend
  <1>12. ASSUME NEW p \in Call, SCancel(p) PROVE WireTypes'
    BY <1>1, <1>2, <1>5, <1>12 DEF SCancel
  <1>13. CASE SLoop \/ SRead \/ SEnv
    BY <1>1, <1>3, <1>4, <1>13 DEF SLoop, SRead, SEnv
  <1>14. CASE UNCHANGED sessionVars
    BY <1>1, <1>14 DEF sessionVars
  <1>. QED BY <1>7, <1>8, <1>9, <1>10, <1>11, <1>12, <1>13, <1>14 DEF SessionNext

-----------------------------------------------------------------------------
(* A flushed request stays flushed.                                        *)

Stays == \A e \in Entry : Flushed(e) => Flushed(e)'

LEMMA StaysFrame ==
    ASSUME TypeOK, NEW p \in Call, NEW where,
           pc' = pc \/ pc' = [pc EXCEPT ![p] = where],
           cpc' = cpc,
           pc[p] \in {"wait", "drain", "listening", "sync", "returned"} =>
               where \in {"wait", "drain", "listening", "sync", "returned"}
    PROVE  Stays
  BY DEF Stays, Flushed, TypeOK, Entry

LEMMA FlushedStays == ASSUME IInv, [SessionNext]_sessionVars PROVE Stays
  <1>0. TypeOK /\ CancelInv /\ Runners \subseteq Call /\ Listeners \subseteq Call
    BY DEF IInv, Call
  <1>1. ASSUME UNCHANGED <<pc, cpc>> PROVE Stays
    BY <1>1 DEF Stays, Flushed
  <1>2. ASSUME NEW p \in Call, NEW where \in {"wait", "drain", "listening", "sync", "returned"},
               pc' = [pc EXCEPT ![p] = where], cpc' = cpc
        PROVE  Stays
    BY <1>0, <1>2, StaysFrame
  <1>3. ASSUME NEW p \in Call, NEW where, pc' = [pc EXCEPT ![p] = where], cpc' = cpc,
               pc[p] \in {"idle", "called", "begun", "tagged", "flush", "syncEnd"}
        PROVE  Stays
    BY <1>0, <1>3, StaysFrame
  <1>4. ASSUME NEW p \in Call, NEW where, cpc' = [cpc EXCEPT ![p] = where], pc' = pc,
               cpc[p] # "finished" \/ where = "finished"
        PROVE  Stays
    BY <1>0, <1>4 DEF Stays, Flushed, TypeOK, Entry
  <1>5. ASSUME NEW p \in Runners,
               SRunCall(p) \/ SRunLocal(p) \/ SRunCtx(p) \/ SRunSend(p) \/ SSyncRead(p)
        PROVE  Stays
    <2>1. CASE SRunCall(p)
      BY <1>0, <1>3, <2>1 DEF SRunCall, RunCall, Goto
    <2>2. CASE RunBegin(p) \/ RunTag(p)
      BY <1>0, <1>3, <2>2 DEF RunBegin, RunTag, Goto
    <2>3. CASE RunRegister(p)
      BY <1>0, <1>3, <2>3 DEF RunRegister, Goto, Return
    <2>4. ASSUME NEW ok \in BOOLEAN, RunFlush(p, ok) \/ SyncEnd(p, ok) PROVE Stays
      BY <1>0, <1>3, <2>4 DEF RunFlush, SyncEnd, Goto, Return
    <2>5. CASE RunWake(p) \/ RunDrained(p)
      BY <1>0, <1>2, <2>5 DEF RunWake, RunDrained, Return
    <2>6. CASE SRunCtx(p)
      <3>1. cpc[p] = "off" /\ pc[p] = "wait"
        BY <1>0, <2>6 DEF SRunCtx, RunCtx, CancelInv
      <3>. QED BY <1>0, <2>6, <3>1 DEF SRunCtx, RunCtx, Goto, Stays, Flushed, TypeOK, Entry
    <2>7. CASE SSyncRead(p)
      <3>1. UNCHANGED <<pc, cpc>> \/ (pc' = [pc EXCEPT ![p] = "returned"] /\ cpc' = cpc)
        BY <2>7 DEF SSyncRead, SyncRead, SyncReadErr, Return
      <3>. QED BY <1>0, <1>1, <1>2, <3>1
    <2>. QED BY <1>5, <2>1, <2>2, <2>3, <2>4, <2>5, <2>6, <2>7 DEF SRunLocal, SRunSend
  <1>6. ASSUME NEW l \in Listeners, SListenCall(l) \/ SListenLocal(l) \/ SListenSend(l)
        PROVE  Stays
    <2>1. CASE SListenCall(l)
      BY <1>0, <1>3, <2>1 DEF SListenCall, ListenCall, Goto
    <2>2. CASE ListenBegin(l) \/ ListenLock(l)
      BY <1>0, <1>3, <2>2 DEF ListenBegin, ListenLock, Goto
    <2>3. CASE WatchSelect(l)
      BY <1>0, <1>4, <2>3 DEF WatchSelect
    <2>4. CASE Consume(l)
      BY <1>1, <2>4 DEF Consume
    <2>5. ASSUME NEW ok \in BOOLEAN, NEW withCtx \in BOOLEAN, ListenFlush(l, ok, withCtx)
          PROVE  Stays
      <3>1. cpc[l] = "off" /\ pc[l] = "flush"
        BY <1>0, <2>5 DEF ListenFlush, CancelInv
      <3>. QED BY <1>0, <2>5, <3>1 DEF ListenFlush, Return, Stays, Flushed, TypeOK, Entry
    <2>. QED BY <1>6, <2>1, <2>2, <2>3, <2>4, <2>5 DEF SListenLocal, SListenSend
  <1>7. ASSUME NEW p \in Call, SCancel(p) PROVE Stays
    BY <1>4, <1>7 DEF SCancel, CancelRegister, CancelBegin, CancelEnd
  <1>8. CASE SLoop
    <2>1. UNCHANGED <<pc, cpc>>
      BY <1>8 DEF SLoop, LoopStep, LoopLookup, LoopProcessReply, LoopSend,
             LoopProcessListen, LoopDelete, LoopClose, LoopCloseTags, LoopReport
    <2>. QED BY <1>1, <2>1
  <1>9. CASE SRead \/ SEnv
    <2>1. UNCHANGED <<pc, cpc>>
      BY <1>9 DEF SRead, LoopRead, LoopReadErr, SEnv, Async, Close, ConnBreak,
             CtxExpire, StopReading
    <2>. QED BY <1>1, <2>1
  <1>10. CASE (\E p \in Call : DevRow(p) \/ DevEnd(p)) \/ DevTake \/ UNCHANGED sessionVars
    BY <1>1, <1>10 DEF DevRow, DevEnd, DevTake, sessionVars, vars
  <1>. QED BY <1>5, <1>6, <1>7, <1>8, <1>9, <1>10 DEF SessionNext

\* The request that a step flushes had not been flushed before.
LEMMA ReqFrame ==
    ASSUME ReqInv, Stays, UNCHANGED <<toDev, dev, sent>> PROVE ReqInv'
  BY DEF ReqInv, Stays, OnWire

LEMMA ReqPut ==
    ASSUME WireTypes, ReqInv, Stays, NEW e \in Entry, Put2Wire(e), ~Flushed(e), Flushed(e)'
    PROVE  ReqInv'
  <1>1. toDev' = Append(toDev, e) /\ UNCHANGED <<dev, sent>> /\ toDev \in Seq(Entry)
    BY DEF Put2Wire, WireTypes
  <1>2. ~OnWire(e) /\ dev[e] = "unknown"
    BY DEF ReqInv
  <1>3. \A i \in DOMAIN toDev' : \/ i \in DOMAIN toDev /\ toDev'[i] = toDev[i]
                                 \/ i = Len(toDev) + 1 /\ toDev'[i] = e
    BY <1>1
  <1>4. \A i, j \in DOMAIN toDev' : toDev'[i] = toDev'[j] => i = j
    BY <1>2, <1>3 DEF ReqInv, OnWire
  <1>5. \A d \in Entry : OnWire(d)' => OnWire(d) \/ d = e
    BY <1>3 DEF OnWire
  <1>. QED BY <1>1, <1>2, <1>4, <1>5 DEF ReqInv, Stays

\* What DevTake takes is gone from the wire.
LEMMA TakenOnce ==
    ASSUME WireTypes, ReqInv, DevTake
    PROVE  /\ \A i, j \in DOMAIN toDev' : toDev'[i] = toDev'[j] => i = j
           /\ \A d \in Entry : OnWire(d)' => OnWire(d) /\ d # Head(toDev)
  <1>1. toDev \in Seq(Entry) /\ toDev # <<>> /\ toDev' = Tail(toDev)
    BY DEF WireTypes, DevTake
  <1>2. \A i \in DOMAIN toDev' : i + 1 \in DOMAIN toDev /\ toDev'[i] = toDev[i + 1]
    BY <1>1
  <1>3. 1 \in DOMAIN toDev /\ Head(toDev) = toDev[1] /\ DOMAIN toDev' \subseteq Nat
    BY <1>1
  <1>4. \A i, j \in DOMAIN toDev' : toDev'[i] = toDev'[j] => i = j
    <2>. SUFFICES ASSUME NEW i \in DOMAIN toDev', NEW j \in DOMAIN toDev',
                         toDev'[i] = toDev'[j]
                  PROVE  i = j
      OBVIOUS
    <2>1. i + 1 = j + 1
      BY <1>2 DEF ReqInv
    <2>. QED BY <1>3, <2>1
  <1>5. ASSUME NEW i \in DOMAIN toDev' PROVE toDev'[i] # Head(toDev)
    <2>1. i + 1 # 1
      BY <1>1
    <2>. QED BY <1>2, <1>3, <2>1 DEF ReqInv
  <1>. QED BY <1>2, <1>4, <1>5 DEF OnWire

LEMMA StepReq ==
    ASSUME IInv, WireTypes, ReqInv, [SessionNext]_sessionVars PROVE ReqInv'
  <1>0. /\ Stays /\ TypeOK
        /\ \A p \in Call : CallOf(p) \in Entry /\ CancelOf(p) \in Entry
        /\ Runners \subseteq Call /\ Listeners \subseteq Call
        /\ \A p \in Call : CallOf(p)[1] = p /\ CancelOf(p)[1] = p
        /\ \A p \in Call : IsCall(CallOf(p)) /\ ~IsCall(CancelOf(p))
    BY FlushedStays DEF IInv, CallOf, CancelOf, Entry, Call, IsCall
  <1>1. ASSUME UNCHANGED wireVars PROVE ReqInv'
    BY <1>0, <1>1, ReqFrame DEF wireVars
  <1>2. ASSUME (\E sen \in Sentence : Receive(sen)) \/ ReceiveErr PROVE ReqInv'
    BY <1>0, <1>2, ReqFrame DEF Receive, ReceiveErr
  <1>3. ASSUME NEW p \in Runners, SRunSend(p) PROVE ReqInv'
    <2>1. pc[p] \in {"flush", "syncEnd"} /\ pc'[p] \in {"wait", "sync"}
      BY <1>0, <1>3 DEF SRunSend, RunFlush, SyncEnd, Goto, TypeOK
    <2>2. ~Flushed(CallOf(p)) /\ Flushed(CallOf(p))'
      BY <1>0, <2>1 DEF Flushed
    <2>. QED BY <1>0, <1>3, <2>2, ReqPut DEF SRunSend
  <1>4. ASSUME NEW l \in Listeners, SListenSend(l) PROVE ReqInv'
    <2>1. pc[l] = "flush" /\ pc'[l] \in {"listening", "returned"}
      BY <1>0, <1>4 DEF SListenSend, ListenFlush, Return, TypeOK
    <2>2. ~Flushed(CallOf(l)) /\ Flushed(CallOf(l))'
      BY <1>0, <2>1 DEF Flushed
    <2>. QED BY <1>0, <1>4, <2>2, ReqPut DEF SListenSend
  <1>5. ASSUME NEW p \in Call, CancelEnd(p, TRUE), Put2Wire(CancelOf(p)) PROVE ReqInv'
    <2>1. cpc[p] = "end" /\ cpc'[p] = "finished"
      BY <1>0, <1>5 DEF CancelEnd, TypeOK
    <2>2. ~Flushed(CancelOf(p)) /\ Flushed(CancelOf(p))'
      BY <1>0, <2>1 DEF Flushed
    <2>. QED BY <1>0, <1>5, <2>2, ReqPut
  <1>6. CASE DevTake
    <2>. DEFINE e == Head(toDev)
                t == Target(e)
    <2>1. e \in Entry /\ OnWire(e)
      BY <1>6, TakeFacts DEF DevTake
    <2>2. \A d \in Entry : Flushed(d)' <=> Flushed(d)
      BY <1>6 DEF DevTake, vars, Flushed
    <2>3. \A d \in Entry : dev'[d] # dev[d] => dev'[d] # "unknown" /\ (d = e \/ dev[d] = "running")
      BY <1>6, <2>1 DEF DevTake, WireTypes
    <2>4. dev'[e] # "unknown" /\ sent' = sent
      BY <1>6, <2>1 DEF DevTake, WireTypes
    <2>5. /\ \A i, j \in DOMAIN toDev' : toDev'[i] = toDev'[j] => i = j
          /\ \A d \in Entry : OnWire(d)' => OnWire(d) /\ d # e
      BY <1>6, TakenOnce
    <2>. HIDE DEF e, t
    <2>6. \A d \in Entry : OnWire(d)' => dev'[d] = "unknown"
      BY <2>3, <2>5 DEF ReqInv
    <2>7. \A d \in Entry : OnWire(d)' \/ dev'[d] # "unknown" => Flushed(d)
      BY <2>1, <2>3, <2>5 DEF ReqInv
    <2>8. \A p \in Call : dev'[CallOf(p)] = "unknown" => sent'[p] = 0
      BY <1>0, <2>3, <2>4 DEF ReqInv
    <2>. QED BY <2>2, <2>5, <2>6, <2>7, <2>8 DEF ReqInv
  <1>7. ASSUME NEW p \in Call, DevRow(p) \/ DevEnd(p) PROVE ReqInv'
    <2>1. \A d \in Entry : Flushed(d)' <=> Flushed(d)
      BY <1>7 DEF DevRow, DevEnd, vars, Flushed
    <2>2. toDev' = toDev /\ dev[CallOf(p)] = "running"
      BY <1>7 DEF DevRow, DevEnd
    <2>3. dev' = dev \/ \E w \in {"ended", "trapped"} : dev' = [dev EXCEPT ![CallOf(p)] = w]
      BY <1>7 DEF DevRow, DevEnd
    <2>4. \A q \in Call : q # p => sent'[q] = sent[q]
      BY <1>7 DEF DevRow, DevEnd, WireTypes
    <2>. QED BY <1>0, <2>1, <2>2, <2>3, <2>4 DEF ReqInv, OnWire, WireTypes
  <1>8. ASSUME NEW p \in Runners,
               SRunCall(p) \/ SRunLocal(p) \/ SRunCtx(p) \/ SSyncRead(p)
        PROVE  ReqInv'
    BY <1>1, <1>2, <1>8 DEF SRunCall, SRunLocal, SRunCtx, SSyncRead
  <1>9. ASSUME NEW l \in Listeners, SListenCall(l) \/ SListenLocal(l) PROVE ReqInv'
    BY <1>1, <1>9 DEF SListenCall, SListenLocal
  <1>10. ASSUME NEW p \in Call, SCancel(p) PROVE ReqInv'
    BY <1>1, <1>5, <1>10 DEF SCancel
  <1>11. CASE SLoop \/ SRead \/ SEnv \/ UNCHANGED sessionVars
    BY <1>1, <1>2, <1>11 DEF SLoop, SRead, SEnv, sessionVars
  <1>. QED BY <1>3, <1>4, <1>6, <1>7, <1>8, <1>9, <1>10, <1>11 DEF SessionNext

-----------------------------------------------------------------------------
(* A listener has an error only for a reason.  This needs nothing of how   *)
(* the application calls the client.                                       *)

\* The sentences still to be dispatched: the one that asyncLoop looks up or
\* processes, and those on the wire.
InHand == lpc \in {"lookup", "process"}
InTransit(s) == (InHand /\ s = lsen) \/ \E i \in DOMAIN fromDev : fromDev[i] = s

\* None of them is fatal or has a tag to come, and a trap for a listener says
\* that its command was trapped.
TrapInv ==
    /\ \A s \in Sentence : InTransit(s) =>
           /\ s.word # "fatal"
           /\ s.tag <= nextTag
           /\ \A l \in Listeners :
                 s.word = "trap" /\ s.tag # 0 /\ tag[CallOf(l)] = s.tag =>
                     dev[CallOf(l)] = "trapped"
    /\ lpc \notin {"delete", "close"} => lerr = "none"
    /\ \A l \in Listeners :
           /\ lent = CallOf(l) /\ lerr # "none" => dev[CallOf(l)] = "trapped"
           /\ err[l] # "none" => conn # "open" \/ dev[CallOf(l)] = "trapped"

DeviceNext == DevTake \/ \E p \in Call : DevRow(p) \/ DevEnd(p)

\* Tags only grow, and a request that was flushed keeps its own.
TagMoves ==
    /\ nextTag' >= nextTag
    /\ \A e \in Entry : \/ tag'[e] = tag[e]
                        \/ ~Flushed(e) /\ tag'[e] > nextTag

\* A command only goes forth.
DevMoves == \A e \in Entry : \/ dev'[e] = dev[e]
                             \/ dev[e] = "unknown" /\ dev'[e] # "unknown"
                             \/ dev[e] = "running" /\ dev'[e] \in {"ended", "trapped"}

LEMMA DeviceMoves ==
    ASSUME WireTypes, ReqInv, [SessionNext]_sessionVars PROVE DevMoves
  <1>1. ASSUME dev' = dev PROVE DevMoves
    BY <1>1 DEF DevMoves
  <1>2. CASE DevTake
    <2>1. Head(toDev) \in Entry /\ dev[Head(toDev)] = "unknown"
      BY <1>2, TakeFacts DEF DevTake, ReqInv
    <2>. QED BY <1>2, <2>1 DEF DevTake, DevMoves, WireTypes
  <1>3. ASSUME NEW p \in Call, DevRow(p) \/ DevEnd(p) PROVE DevMoves
    BY <1>3 DEF DevRow, DevEnd, DevMoves, WireTypes
  <1>4. ASSUME NEW p \in Runners,
               SRunCall(p) \/ SRunLocal(p) \/ SRunCtx(p) \/ SRunSend(p) \/ SSyncRead(p)
        PROVE  DevMoves
    BY <1>1, <1>4 DEF SRunCall, SRunLocal, SRunCtx, SRunSend, SSyncRead, wireVars,
          Put2Wire, Receive, ReceiveErr
  <1>5. ASSUME NEW l \in Listeners, SListenCall(l) \/ SListenLocal(l) \/ SListenSend(l)
        PROVE  DevMoves
    BY <1>1, <1>5 DEF SListenCall, SListenLocal, SListenSend, wireVars, Put2Wire
  <1>6. ASSUME NEW p \in Call, SCancel(p) PROVE DevMoves
    BY <1>1, <1>6 DEF SCancel, wireVars, Put2Wire
  <1>7. CASE SLoop \/ SRead \/ SEnv \/ UNCHANGED sessionVars
    BY <1>1, <1>7 DEF SLoop, SRead, SEnv, sessionVars, wireVars, Receive, ReceiveErr
  <1>. QED BY <1>2, <1>3, <1>4, <1>5, <1>6, <1>7 DEF SessionNext

LEMMA TagsMove == ASSUME IInv, [SessionNext]_sessionVars PROVE TagMoves
  <1>0. TypeOK /\ nextTag \in Nat
    BY DEF IInv, TypeOK
  <1>1. ASSUME UNCHANGED <<nextTag, tag>> PROVE TagMoves
    BY <1>0, <1>1 DEF TagMoves
  <1>2. ASSUME NEW e \in Entry, IncrementTag(e), ~Flushed(e) PROVE TagMoves
    BY <1>0, <1>2 DEF IncrementTag, NextTag, TagMoves, TypeOK
  <1>3. /\ \A p \in Call : CallOf(p) \in Entry /\ CancelOf(p) \in Entry
        /\ \A p \in Call : CallOf(p)[1] = p /\ CancelOf(p)[1] = p
        /\ \A p \in Call : IsCall(CallOf(p)) /\ ~IsCall(CancelOf(p))
        /\ Runners \subseteq Call /\ Listeners \subseteq Call
    BY DEF CallOf, CancelOf, Entry, IsCall, Call
  <1>4. ASSUME NEW p \in Runners,
               SRunCall(p) \/ SRunLocal(p) \/ SRunCtx(p) \/ SRunSend(p) \/ SSyncRead(p)
        PROVE  TagMoves
    <2>1. CASE RunTag(p)
      <3>1. ~Flushed(CallOf(p))
        BY <1>3, <2>1 DEF RunTag, Flushed
      <3>. QED BY <1>1, <1>2, <1>3, <2>1, <3>1 DEF RunTag
    <2>2. CASE ~RunTag(p)
      <3>1. UNCHANGED <<nextTag, tag>>
        BY <1>4, <2>2 DEF SRunCall, SRunLocal, SRunCtx, SRunSend, SSyncRead, RunCall,
              RunBegin, RunRegister, RunFlush, SyncEnd, RunWake, RunDrained, RunCtx,
              SyncRead, SyncReadErr, tagVars
      <3>. QED BY <1>1, <3>1
    <2>. QED BY <2>1, <2>2
  <1>5. ASSUME NEW l \in Listeners, SListenCall(l) \/ SListenLocal(l) \/ SListenSend(l)
        PROVE  TagMoves
    <2>1. CASE SListenCall(l)
      <3>1. ~Flushed(CallOf(l))
        BY <1>3, <2>1 DEF SListenCall, ListenCall, Flushed
      <3>. QED BY <1>2, <1>3, <2>1, <3>1 DEF SListenCall, ListenCall
    <2>2. CASE SListenLocal(l) \/ SListenSend(l)
      <3>1. UNCHANGED <<nextTag, tag>>
        BY <2>2 DEF SListenLocal, SListenSend, ListenBegin, ListenLock, ListenFlush,
              WatchSelect, Consume, tagVars
      <3>. QED BY <1>1, <3>1
    <2>. QED BY <1>5, <2>1, <2>2
  <1>6. ASSUME NEW p \in Call, SCancel(p) PROVE TagMoves
    <2>1. CASE CancelRegister(p)
      <3>1. ~Flushed(CancelOf(p))
        BY <1>3, <2>1 DEF CancelRegister, Flushed
      <3>. QED BY <1>2, <1>3, <2>1, <3>1 DEF CancelRegister
    <2>2. CASE ~CancelRegister(p)
      BY <1>1, <1>6, <2>2 DEF SCancel, CancelBegin, CancelEnd, tagVars
    <2>. QED BY <2>1, <2>2
  <1>7. CASE SLoop
    <2>1. UNCHANGED <<nextTag, tag>>
      BY <1>7 DEF SLoop, LoopStep, LoopLookup, LoopProcessReply, LoopSend,
             LoopProcessListen, LoopDelete, LoopClose, LoopCloseTags, LoopReport, tagVars
    <2>. QED BY <1>1, <2>1
  <1>8. CASE SRead \/ SEnv \/ DeviceNext \/ UNCHANGED sessionVars
    <2>1. UNCHANGED <<nextTag, tag>>
      BY <1>8 DEF SRead, LoopRead, LoopReadErr, SEnv, Async, Close, ConnBreak,
             CtxExpire, StopReading, DeviceNext, DevTake, DevRow, DevEnd, vars,
             sessionVars, tagVars
    <2>. QED BY <1>1, <2>1
  <1>. QED BY <1>4, <1>5, <1>6, <1>7, <1>8 DEF SessionNext, DeviceNext

\* The client adds nothing to the sentences it is still to dispatch.
LEMMA ClientTransit ==
    ASSUME IInv, WireTypes, [SessionNext]_sessionVars, ~DeviceNext
    PROVE  \A s : InTransit(s)' => InTransit(s)
  <1>. DEFINE Goal == \A s : InTransit(s)' => InTransit(s)
  <1>1. ASSUME fromDev' = fromDev, InHand' => InHand /\ lsen' = lsen PROVE Goal
    BY <1>1 DEF InTransit
  <1>2. ASSUME NEW sen, Receive(sen) PROVE \A i \in DOMAIN fromDev' :
                \E j \in DOMAIN fromDev : fromDev[j] = fromDev'[i]
    <2>1. fromDev \in Seq(Sentence) /\ fromDev # <<>> /\ fromDev' = Tail(fromDev)
      BY <1>2 DEF Receive, WireTypes
    <2>2. \A i \in DOMAIN fromDev' : i + 1 \in DOMAIN fromDev /\ fromDev[i + 1] = fromDev'[i]
      BY <2>1
    <2>. QED BY <2>2
  <1>3. ASSUME NEW sen, Receive(sen) PROVE \E j \in DOMAIN fromDev : fromDev[j] = sen
    BY <1>3 DEF Receive, WireTypes
  <1>4. ASSUME NEW p \in Runners, SRunCall(p) \/ SRunLocal(p) \/ SRunCtx(p) \/ SRunSend(p)
        PROVE  Goal
    <2>1. UNCHANGED <<lpc, lsen, fromDev>>
      BY <1>4 DEF SRunCall, SRunLocal, SRunCtx, SRunSend, RunCall, RunBegin, RunTag,
             RunRegister, RunFlush, SyncEnd, RunWake, RunDrained, RunCtx, loopVars,
             wireVars, Put2Wire
    <2>. QED BY <1>1, <2>1 DEF InHand
  <1>5. ASSUME NEW p \in Runners, SSyncRead(p) PROVE Goal
    <2>1. UNCHANGED <<lpc, lsen>>
      BY <1>5 DEF SSyncRead, SyncRead, SyncReadErr, loopVars
    <2>2. fromDev' = <<>> \/ \E sen : Receive(sen)
      BY <1>5 DEF SSyncRead, ReceiveErr
    <2>. QED BY <1>2, <2>1, <2>2 DEF InTransit, InHand
  <1>6. ASSUME NEW l \in Listeners, SListenCall(l) \/ SListenLocal(l) \/ SListenSend(l)
        PROVE  Goal
    <2>1. UNCHANGED <<lsen, fromDev>> /\ (lpc' = lpc \/ lpc' = "read")
      BY <1>6 DEF SListenCall, SListenLocal, SListenSend, ListenCall, ListenBegin,
             ListenLock, ListenFlush, WatchSelect, Consume, loopVars, wireVars, Put2Wire
    <2>. QED BY <1>1, <2>1 DEF InHand
  <1>7. ASSUME NEW p \in Call, SCancel(p) PROVE Goal
    <2>1. UNCHANGED <<lpc, lsen, fromDev>>
      BY <1>7 DEF SCancel, CancelRegister, CancelBegin, CancelEnd, loopVars, wireVars,
             Put2Wire
    <2>. QED BY <1>1, <2>1 DEF InHand
  <1>8. CASE SLoop
    <2>1. fromDev' = fromDev
      BY <1>8 DEF SLoop, wireVars
    <2>2. InHand' => InHand /\ lsen' = lsen
      BY <1>8 DEF SLoop, LoopStep, LoopLookup, LoopProcessReply, LoopSend,
             LoopProcessListen, LoopDelete, LoopClose, LoopCloseTags, LoopReport,
             LoopContinue, InHand, loopVars
    <2>. QED BY <1>1, <2>1, <2>2
  <1>9. CASE SRead
    <2>1. ASSUME NEW sen \in Sentence, LoopRead(sen), Receive(sen) PROVE Goal
      <3>1. lsen' = sen
        BY <2>1 DEF LoopRead
      <3>. QED BY <1>2, <1>3, <2>1, <3>1 DEF InTransit
    <2>2. CASE LoopReadErr /\ ReceiveErr
      BY <2>2 DEF LoopReadErr, ReceiveErr, InTransit, InHand
    <2>. QED BY <1>9, <2>1, <2>2 DEF SRead
  <1>10. CASE SEnv \/ UNCHANGED sessionVars
    <2>1. UNCHANGED <<lsen, fromDev>> /\ (lpc' = lpc \/ lpc' = "read")
      BY <1>10 DEF SEnv, Async, Close, ConnBreak, CtxExpire, StopReading, sessionVars,
             vars, loopVars, wireVars
    <2>. QED BY <1>1, <2>1 DEF InHand
  <1>. QED BY <1>4, <1>5, <1>6, <1>7, <1>8, <1>9, <1>10 DEF SessionNext, DeviceNext

\* The device traps what it runs, and a /cancel that finds nothing to cancel.
LEMMA DeviceTraps ==
    ASSUME IInv, WireTypes, ReqInv, DeviceNext, NEW s, InTransit(s)', ~InTransit(s)
    PROVE  \E e \in Entry :
              /\ s.tag = tag[e] /\ s.word \in {"re", "done", "trap", "trap2"}
              /\ s.word = "trap" => IsCancel(e) \/ dev'[e] = "trapped"
  <1>0. TypeOK /\ fromDev \in Seq(Sentence) /\ UNCHANGED <<lpc, lsen, tag>>
    BY DEF IInv, WireTypes, DeviceNext, DevTake, DevRow, DevEnd, vars, loopVars, tagVars
  <1>1. \E i \in DOMAIN fromDev' : fromDev'[i] = s /\ \A j \in DOMAIN fromDev : fromDev[j] # s
    BY <1>0 DEF InTransit, InHand
  <1>2. ASSUME NEW a, fromDev' = Append(fromDev, a) PROVE s = a
    BY <1>0, <1>1, <1>2
  <1>3. ASSUME NEW a, NEW b, fromDev' = fromDev \o <<a, b>> PROVE s \in {a, b}
    BY <1>0, <1>1, <1>3
  <1>4. ASSUME NEW a, NEW b, NEW c, fromDev' = fromDev \o <<a, b, c>> PROVE s \in {a, b, c}
    BY <1>0, <1>1, <1>4
  <1>5. CASE DevTake
    <2>. DEFINE e == Head(toDev)
                t == Target(e)
    <2>1. e \in Entry /\ (IsCancel(e) => t \in Entry)
      BY <1>5, TakeFacts, TargetType DEF DevTake
    <2>2. CASE IsCancel(e) /\ fromDev' = fromDev \o
                   <<Answer(t, "trap2"), Answer(e, "done"), Answer(t, "done")>>
      <3>. HIDE DEF e, t
      <3>1. s \in {Answer(t, "trap2"), Answer(e, "done"), Answer(t, "done")}
        BY <1>4, <2>2
      <3>. QED BY <2>1, <2>2, <3>1 DEF Answer
    <2>3. CASE IsCancel(e) /\ fromDev' = fromDev \o <<Answer(e, "trap"), Answer(e, "done")>>
      <3>. HIDE DEF e, t
      <3>1. s \in {Answer(e, "trap"), Answer(e, "done")}
        BY <1>3, <2>3
      <3>. QED BY <2>1, <2>3, <3>1 DEF Answer
    <2>4. CASE fromDev' = fromDev
      BY <1>1, <2>4
    <2>. QED BY <1>5, <2>2, <2>3, <2>4 DEF DevTake
  <1>6. ASSUME NEW p \in Call, DevRow(p) \/ DevEnd(p)
        PROVE  \E e \in Entry :
                  /\ s.tag = tag[e] /\ s.word \in {"re", "done", "trap", "trap2"}
                  /\ s.word = "trap" => IsCancel(e) \/ dev'[e] = "trapped"
    <2>. DEFINE e == CallOf(p)
    <2>1. e \in Entry
      BY DEF CallOf, Entry
    <2>. HIDE DEF e
    <2>2. ASSUME NEW w \in {"re", "done"}, fromDev' = Append(fromDev, Answer(e, w))
          PROVE  s.tag = tag[e] /\ s.word = w
      BY <1>2, <2>2 DEF Answer
    <2>3. CASE /\ fromDev' = fromDev \o <<Answer(e, "trap"), Answer(e, "done")>>
               /\ dev' = [dev EXCEPT ![e] = "trapped"]
      <3>1. s \in {Answer(e, "trap"), Answer(e, "done")}
        BY <1>3, <2>3
      <3>. QED BY <2>1, <2>3, <3>1 DEF Answer, WireTypes
    <2>. QED BY <1>6, <2>1, <2>2, <2>3 DEF DevRow, DevEnd, e
  <1>. QED BY <1>5, <1>6 DEF DeviceNext

LEMMA StepTrap ==
    ASSUME IInv, WireTypes, ConnInv, ReqInv, TrapInv, [SessionNext]_sessionVars
    PROVE  TrapInv'
  <1>0. /\ TypeOK /\ LoopInv /\ TagInv /\ TagMoves /\ DevMoves /\ nextTag \in Nat
        /\ \A l \in Listeners : CallOf(l) \in Entry /\ IsListen(CallOf(l)) /\ CallOf(l)[1] = l
        /\ \A e \in Entry : IsListen(e) => e = CallOf(e[1])
        /\ \A l \in Listeners : l \notin Runners /\ l \in Call
    BY TagsMove, DeviceMoves, EntryFacts, CallFacts
    DEF IInv, TypeOK, CallOf, Entry, Call, IsListen, IsCall
  <1>1. ASSUME NEW s \in Sentence, InTransit(s)'
        PROVE  /\ s.word # "fatal"
               /\ s.tag <= nextTag'
               /\ \A l \in Listeners :
                     s.word = "trap" /\ s.tag # 0 /\ tag'[CallOf(l)] = s.tag =>
                         dev'[CallOf(l)] = "trapped"
    <2>1. CASE InTransit(s)
      <3>1. s.word # "fatal" /\ s.tag <= nextTag
        BY <2>1 DEF TrapInv
      <3>2. s.tag \in Nat
        BY DEF Sentence
      <3>3. ASSUME NEW l \in Listeners, s.word = "trap", s.tag # 0, tag'[CallOf(l)] = s.tag
            PROVE  dev'[CallOf(l)] = "trapped"
        <4>1. tag'[CallOf(l)] = tag[CallOf(l)]
          BY <1>0, <3>1, <3>2, <3>3 DEF TagMoves
        <4>2. dev[CallOf(l)] = "trapped"
          BY <2>1, <3>3, <4>1 DEF TrapInv
        <4>. QED BY <1>0, <4>2 DEF DevMoves
      <3>4. nextTag' \in Nat /\ nextTag <= nextTag'
        BY <1>0, ClientStep, NextPreserves DEF TagMoves, IInv, TypeOK
      <3>. QED BY <1>0, <3>1, <3>2, <3>3, <3>4
    <2>2. CASE ~InTransit(s)
      <3>1. DeviceNext
        BY <1>1, <2>2, ClientTransit
      <3>2. UNCHANGED <<tag, nextTag>>
        BY <3>1 DEF DeviceNext, DevTake, DevRow, DevEnd, vars, tagVars
      <3>3. PICK e \in Entry :
              /\ s.tag = tag[e] /\ s.word \in {"re", "done", "trap", "trap2"}
              /\ s.word = "trap" => IsCancel(e) \/ dev'[e] = "trapped"
        BY <1>1, <2>2, <3>1, DeviceTraps
      <3>4. ASSUME NEW l \in Listeners, s.word = "trap", s.tag # 0, tag'[CallOf(l)] = s.tag
            PROVE  dev'[CallOf(l)] = "trapped"
        <4>1. e = CallOf(l)
          BY <1>0, <3>2, <3>3, <3>4 DEF TagInv
        <4>2. ~IsCancel(e)
          BY <1>0, <4>1 DEF IsCancel, IsListen
        <4>. QED BY <3>3, <3>4, <4>1, <4>2
      <3>5. s.tag <= nextTag'
        BY <1>0, <3>2, <3>3 DEF TagInv
      <3>. QED BY <3>3, <3>4, <3>5
    <2>. QED BY <2>1, <2>2
  <1>2. ASSUME NEW e \in Entry, dev[e] = "trapped" PROVE dev'[e] = "trapped"
    BY <1>0, <1>2 DEF DevMoves
  <1>3. conn # "open" => conn' # "open"
    <2>1. conn' = conn \/ conn' \in {"broken", "closed"}
      BY ClientStep, <1>0 DEF SessionNext, SRunCall, SRunLocal, SRunCtx, SRunSend, SSyncRead,
         SListenCall, SListenLocal, SListenSend, SCancel, SLoop, SRead, SEnv, DevTake,
         DevRow, DevEnd, vars, sessionVars, RunCall, RunBegin, RunTag, RunRegister,
         RunFlush, SyncEnd, RunWake, RunDrained, RunCtx, SyncRead, SyncReadErr,
         ListenCall, ListenBegin, ListenLock, ListenFlush, WatchSelect, Consume,
         CancelRegister, CancelBegin, CancelEnd, LoopStep, LoopLookup, LoopProcessReply,
         LoopSend, LoopProcessListen, LoopDelete, LoopClose, LoopCloseTags, LoopReport,
         LoopRead, LoopReadErr, Async, Close, ConnBreak, CtxExpire, StopReading
    <2>. QED BY <2>1
  <1>. DEFINE Errors ==
        /\ lpc \notin {"delete", "close"} => lerr = "none"
        /\ \A l \in Listeners :
             /\ lent = CallOf(l) /\ lerr # "none" => dev[CallOf(l)] = "trapped"
             /\ err[l] # "none" => conn # "open" \/ dev[CallOf(l)] = "trapped"
  <1>4. Errors
    BY DEF TrapInv
  <1>5. ASSUME lpc' = lpc \/ (lpc \notin {"delete", "close"} /\ lpc' \notin {"delete", "close"}),
               UNCHANGED <<lent, lerr>>, \A l \in Listeners : err'[l] = err[l]
        PROVE  Errors'
    BY <1>0, <1>2, <1>3, <1>4, <1>5
  <1>6. ASSUME SLoop PROVE Errors'
    <2>1. dev' = dev /\ conn' = conn
      BY <1>6 DEF SLoop, LoopStep, LoopLookup, LoopProcessReply, LoopSend,
         LoopProcessListen, LoopDelete, LoopClose, LoopCloseTags, LoopReport, wireVars
    <2>2. CASE LoopLookup
      BY <1>4, <2>1, <2>2 DEF LoopLookup, LoopContinue, replyVars
    <2>3. CASE LoopProcessReply
      <3>1. lpc = "process" /\ (\A l \in Listeners : lent # CallOf(l)) /\ err' = err
        BY <1>0, <2>3 DEF LoopProcessReply
      <3>2. \A l \in Listeners : None # CallOf(l)
        BY <1>0, CallFacts
      <3>. QED BY <1>4, <2>1, <2>3, <3>1, <3>2 DEF LoopProcessReply, LoopContinue
    <2>4. CASE LoopSend
      BY <1>4, <2>1, <2>4 DEF LoopSend, LoopContinue
    <2>5. CASE LoopProcessListen
      <3>1. CASE LoopContinue
        BY <1>4, <2>1, <2>5, <3>1 DEF LoopProcessListen, LoopContinue
      <3>2. CASE /\ ListenDone(lsen.word) /\ lerr' = ListenErr(lsen.word)
                 /\ lpc' = "delete" /\ UNCHANGED <<lsen, lent>>
        <4>1. /\ lpc = "process" /\ lent \in Entry /\ lsen \in Sentence /\ IsListen(lent)
              /\ tag[lent] = lsen.tag /\ lsen.tag \in Tag /\ err' = err
          BY <1>0, <2>5 DEF LoopProcessListen, LoopInv, TypeOK
        <4>2. lerr' # "none" => lsen.word \in {"trap", "fatal"}
          BY <3>2 DEF ListenErr
        <4>3. InTransit(lsen) /\ lsen.tag # 0
          BY <4>1 DEF InTransit, InHand, Tag
        <4>4. lerr' # "none" => dev[lent] = "trapped"
          BY <1>0, <4>1, <4>2, <4>3 DEF TrapInv, IsListen
        <4>. QED BY <1>4, <2>1, <3>2, <4>1, <4>4
      <3>. QED BY <2>5, <3>1, <3>2 DEF LoopProcessListen
    <2>6. CASE LoopDelete
      BY <1>4, <2>1, <2>6 DEF LoopDelete, replyVars
    <2>7. CASE LoopClose
      <3>1. \A l \in Listeners : err'[l] # err[l] => lent = CallOf(l) /\ lerr # "none"
        BY <1>0, <2>7 DEF LoopClose, LoopInv, TypeOK, IsListen, IsCall
      <3>. QED BY <1>4, <2>1, <2>7, <3>1 DEF LoopClose, LoopContinue
    <2>8. CASE LoopCloseTags
      <3>1. conn # "open" /\ lpc = "closeTags" /\ lpc' = "report" /\ UNCHANGED <<lent, lerr>>
        BY <2>8 DEF LoopCloseTags, ConnInv
      <3>. QED BY <1>4, <2>1, <3>1
    <2>9. CASE LoopReport
      BY <1>4, <2>1, <2>9 DEF LoopReport, replyVars
    <2>. QED BY <1>6, <2>2, <2>3, <2>4, <2>5, <2>6, <2>7, <2>8, <2>9 DEF SLoop, LoopStep
  <1>7. ASSUME NEW p \in Runners,
               SRunCall(p) \/ SRunLocal(p) \/ SRunCtx(p) \/ SRunSend(p) \/ SSyncRead(p)
        PROVE  Errors'
    <2>1. UNCHANGED <<lpc, lent, lerr>>
      BY <1>7 DEF SRunCall, SRunLocal, SRunCtx, SRunSend, SSyncRead, RunCall, RunBegin,
         RunTag, RunRegister, RunFlush, SyncEnd, RunWake, RunDrained, RunCtx, SyncRead,
         SyncReadErr, loopVars
    <2>2. \A l \in Listeners : err'[l] = err[l]
      BY <1>0, <1>7 DEF SRunCall, SRunLocal, SRunCtx, SRunSend, SSyncRead, RunCall, RunBegin,
         RunTag, RunRegister, RunFlush, SyncEnd, RunWake, RunDrained, RunCtx, SyncRead,
         SyncReadErr, replyVars, TypeOK
    <2>. QED BY <1>5, <2>1, <2>2
  <1>8. ASSUME NEW l \in Listeners, SListenCall(l) \/ SListenLocal(l) \/ SListenSend(l)
        PROVE  Errors'
    <2>1. /\ UNCHANGED <<lent, lerr, err>>
          /\ lpc' = lpc \/ (lpc = "off" /\ lpc' = "read")
      BY <1>8 DEF SListenCall, SListenLocal, SListenSend, ListenCall, ListenBegin,
         ListenLock, ListenFlush, WatchSelect, Consume, loopVars, replyVars, IInv, PhaseInv
    <2>. QED BY <1>5, <2>1
  <1>9. ASSUME NEW p \in Call, SCancel(p) PROVE Errors'
    <2>1. UNCHANGED <<lpc, lent, lerr, err>>
      BY <1>9 DEF SCancel, CancelRegister, CancelBegin, CancelEnd, loopVars, replyVars
    <2>. QED BY <1>5, <2>1
  <1>10. ASSUME SRead PROVE Errors'
    <2>1. UNCHANGED <<lent, lerr, err>> /\ lpc = "read" /\ lpc' \in {"lookup", "closeTags"}
      BY <1>10 DEF SRead, LoopRead, LoopReadErr, replyVars
    <2>. QED BY <1>5, <2>1
  <1>11. ASSUME SEnv \/ DeviceNext \/ UNCHANGED sessionVars PROVE Errors'
    <2>1. /\ UNCHANGED <<lent, lerr, err>>
          /\ lpc' = lpc \/ (lpc = "off" /\ lpc' = "read")
      BY <1>11 DEF SEnv, Async, Close, ConnBreak, CtxExpire, StopReading, DeviceNext,
         DevTake, DevRow, DevEnd, sessionVars, vars, loopVars, replyVars, IInv, PhaseInv
    <2>. QED BY <1>5, <2>1
  <1>12. Errors'
    BY <1>6, <1>7, <1>8, <1>9, <1>10, <1>11 DEF SessionNext, DeviceNext
  <1>. QED BY <1>1, <1>12 DEF TrapInv

\* What holds however the application calls the client.
BaseInv == IInv /\ WireTypes /\ ConnInv /\ ReqInv /\ TrapInv

LEMMA InitBase == SessionInit => BaseInv
  <1>. SUFFICES ASSUME SessionInit PROVE BaseInv
    OBVIOUS
  <1>1. IInv /\ Init
    BY InitEstablishes DEF SessionInit
  <1>2. WireTypes /\ ConnInv
    BY <1>1, BoundAssumption DEF SessionInit, Init, WireTypes, ConnInv
  <1>3. ReqInv
    BY DEF SessionInit, ReqInv, OnWire, CallOf, Entry
  <1>4. TrapInv
    <2>1. \A l \in Listeners : lerr = "none" /\ err[l] = "none"
      BY <1>1 DEF Init, Call
    <2>2. \A s : ~InTransit(s)
      BY <1>1 DEF Init, SessionInit, InTransit, InHand
    <2>. QED BY <1>1, <2>1, <2>2 DEF TrapInv, Init
  <1>. QED BY <1>1, <1>2, <1>3, <1>4 DEF BaseInv

LEMMA StepBase == BaseInv /\ [SessionNext]_sessionVars => BaseInv'
  <1>1. IInv => TypeOK
    BY DEF IInv
  <1>. QED BY <1>1, ClientStep, NextPreserves, StepTypes, StepConn, StepReq, StepTrap
           DEF BaseInv

LEMMA Base == SafetySpec => []BaseInv
  BY InitBase, StepBase, PTL DEF SafetySpec

\* The channel of a listener closes with an error only if the device failed the
\* command or the connection was lost, whatever else happens: a cancel, by
\* context or by Cancel, is a clean end.
THEOREM CancelsAreClean == SafetySpec => []CancelIsClean
  <1>1. BaseInv => CancelIsClean
    BY DEF BaseInv, TrapInv, CancelIsClean
  <1>. QED BY <1>1, Base, PTL

-----------------------------------------------------------------------------
(* The application makes one call at a time as long as the client is       *)
(* synchronous (~Overlap).  Then at most one synchronous run is in         *)
(* progress, and none is left when the client becomes asynchronous.        *)

Busy(p) == pc[p] \notin {"idle", "returned"}
SyncPC == {"idle", "called", "begun", "syncEnd", "sync", "returned"}

ModeInv ==
    /\ ~async => /\ \A l \in Listeners : pc[l] = "idle"
                 /\ \A p \in Runners : pc[p] \in SyncPC
                 /\ \A p, q \in Runners : Busy(p) /\ Busy(q) => p = q
                 /\ \A p \in Call : cpc[p] = "off"
                 /\ \A e \in Entry : tag[e] = 0
    /\ async => \A p \in Runners : pc[p] \notin {"syncEnd", "sync"}

LEMMA StepMode ==
    ASSUME ~Overlap, TypeOK, ModeInv, [SessionNext]_sessionVars PROVE ModeInv'
  <1>. USE DEF ModeInv, SyncPC, Busy
  <1>0. /\ \A p \in Runners : p \in Call /\ p \notin Listeners
        /\ \A l \in Listeners : l \in Call /\ l \notin Runners
    BY CallFacts
  <1>1. ASSUME UNCHANGED <<async, pc, cpc, tag>> PROVE ModeInv'
    BY <1>1
  <1>2. ASSUME NEW p \in Runners,
               SRunCall(p) \/ SRunLocal(p) \/ SRunCtx(p) \/ SRunSend(p) \/ SSyncRead(p)
        PROVE  ModeInv'
    <2>1. async' = async
      BY <1>2 DEF SRunCall, SRunLocal, SRunCtx, SRunSend, SSyncRead, RunCall, RunBegin,
         RunTag, RunRegister, RunFlush, SyncEnd, RunWake, RunDrained, RunCtx, SyncRead,
         SyncReadErr
    <2>2. \A q \in Call : q # p => pc'[q] = pc[q]
      BY <1>2 DEF SRunCall, SRunLocal, SRunCtx, SRunSend, SSyncRead, RunCall, RunBegin,
         RunTag, RunRegister, RunFlush, SyncEnd, RunWake, RunDrained, RunCtx, SyncRead,
         SyncReadErr, Goto, Return, TypeOK
    <2>3. CASE async
      <3>1. pc'[p] \notin {"syncEnd", "sync"}
        BY <1>0, <1>2, <2>3 DEF SRunCall, SRunLocal, SRunCtx, SRunSend, SSyncRead, RunCall,
           RunBegin, RunTag, RunRegister, RunFlush, SyncEnd, RunWake, RunDrained, RunCtx,
           SyncRead, SyncReadErr, Goto, Return, TypeOK
      <3>. QED BY <1>0, <2>1, <2>2, <2>3, <3>1
    <2>4. CASE ~async
      <3>1. /\ pc[p] \in SyncPC /\ pc'[p] \in SyncPC /\ UNCHANGED <<cpc, tag>>
            /\ pc[p] = "idle" => \A q \in Runners : pc[q] \in {"idle", "returned"}
        BY <1>0, <1>2, <2>4 DEF SRunCall, SRunLocal, SRunCtx, SRunSend, SSyncRead, RunCall,
           RunBegin, RunTag, RunRegister, RunFlush, SyncEnd, RunWake, RunDrained, RunCtx,
           SyncRead, SyncReadErr, Goto, Return, TypeOK, SyncBusy, tagVars
      <3>2. pc[p] # "idle" /\ pc'[p] \notin {"idle", "returned"} => pc[p] # "returned"
        BY <1>0, <1>2, <2>4 DEF SRunCall, SRunLocal, SRunCtx, SRunSend, SSyncRead, RunCall,
           RunBegin, RunTag, RunRegister, RunFlush, SyncEnd, RunWake, RunDrained, RunCtx,
           SyncRead, SyncReadErr, Goto, Return, TypeOK
      <3>3. \A q, r \in Runners : Busy(q)' /\ Busy(r)' => q = r
        BY <1>0, <2>2, <2>4, <3>1, <3>2
      <3>4. \A l \in Listeners : pc'[l] = "idle"
        BY <1>0, <2>2, <2>4
      <3>5. \A q \in Runners : pc'[q] \in SyncPC
        BY <1>0, <2>2, <2>4, <3>1
      <3>. QED BY <2>1, <2>4, <3>1, <3>3, <3>4, <3>5
    <2>. QED BY <2>3, <2>4 DEF TypeOK
  <1>3. ASSUME NEW l \in Listeners, SListenCall(l) \/ SListenLocal(l) \/ SListenSend(l)
        PROVE  ModeInv'
    <2>1. CASE SListenCall(l)
      <3>1. /\ async' /\ pc' = [pc EXCEPT ![l] = "called"] /\ l \notin Runners
            /\ async \/ \A p \in Runners : pc[p] \in {"idle", "returned"}
        BY <2>1, CallFacts DEF SListenCall, ListenCall, Goto, SyncBusy
      <3>. QED BY <1>0, <3>1 DEF TypeOK
    <2>2. CASE SListenLocal(l) \/ SListenSend(l)
      <3>0. async' = async /\ (pc' = pc \/ \E where : pc' = [pc EXCEPT ![l] = where])
        BY <2>2 DEF SListenLocal, SListenSend, ListenBegin, ListenLock, ListenFlush,
           WatchSelect, Consume, Goto, Return
      <3>1. async' = async /\ \A p \in Runners : pc'[p] = pc[p]
        BY <1>0, <3>0 DEF TypeOK
      <3>2. async \/ UNCHANGED <<pc, cpc, tag>>
        BY <2>2, CallFacts DEF SListenLocal, SListenSend, ListenBegin, ListenLock,
           ListenFlush, WatchSelect, Consume, tagVars
      <3>. QED BY <3>1, <3>2
    <2>. QED BY <1>3, <2>1, <2>2
  <1>4. ASSUME NEW p \in Call, SCancel(p) PROVE ModeInv'
    <2>1. async /\ UNCHANGED <<async, pc>>
      BY <1>4 DEF SCancel, CancelRegister, CancelBegin, CancelEnd
    <2>. QED BY <2>1
  <1>5. CASE SLoop
    <2>1. UNCHANGED <<async, pc, cpc, tag>>
      BY <1>5 DEF SLoop, LoopStep, LoopLookup, LoopProcessReply, LoopSend,
             LoopProcessListen, LoopDelete, LoopClose, LoopCloseTags, LoopReport, tagVars
    <2>. QED BY <1>1, <2>1
  <1>6. CASE Async /\ ~SyncBusy
    BY <1>6 DEF Async, SyncBusy
  <1>7. CASE SRead \/ (SEnv /\ ~Async) \/ DeviceNext \/ UNCHANGED sessionVars
    <2>1. UNCHANGED <<async, pc, cpc, tag>>
      BY <1>7 DEF SRead, LoopRead, LoopReadErr, SEnv, Close, ConnBreak, CtxExpire,
         StopReading, DeviceNext, DevTake, DevRow, DevEnd, vars, sessionVars, tagVars
    <2>. QED BY <1>1, <2>1
  <1>8. SEnv => (Async /\ ~SyncBusy) \/ ~Async
    BY DEF SEnv, Async, Close, ConnBreak, CtxExpire, StopReading
  <1>. QED BY <1>2, <1>3, <1>4, <1>5, <1>6, <1>7, <1>8 DEF SessionNext, DeviceNext

\* The request of a cancelTag has its tag before it is written.
CancelTagInv ==
    \A p \in Call : cpc[p] \in {"begin", "end"} => tag[CancelOf(p)] # 0

LEMMA StepCancelTag ==
    ASSUME IInv, CancelTagInv, [SessionNext]_sessionVars PROVE CancelTagInv'
  <1>0. TypeOK /\ TagMoves /\ \A p \in Call : CancelOf(p) \in Entry
    BY TagsMove, EntryFacts DEF IInv
  <1>1. \A p \in Call : tag'[CancelOf(p)] = 0 => tag[CancelOf(p)] = 0
    BY <1>0 DEF TagMoves, TypeOK
  <1>2. ASSUME \A p \in Call : cpc'[p] = cpc[p] \/ cpc'[p] \notin {"begin", "end"}
        PROVE  CancelTagInv'
    BY <1>1, <1>2 DEF CancelTagInv
  <1>3. ASSUME NEW p \in Runners,
               SRunCall(p) \/ SRunLocal(p) \/ SRunCtx(p) \/ SRunSend(p) \/ SSyncRead(p)
        PROVE  CancelTagInv'
    <2>1. cpc' = cpc \/ cpc' = [cpc EXCEPT ![p] = "start"]
      BY <1>3 DEF SRunCall, SRunLocal, SRunCtx, SRunSend, SSyncRead, RunCall, RunBegin,
         RunTag, RunRegister, RunFlush, SyncEnd, RunWake, RunDrained, RunCtx, SyncRead,
         SyncReadErr
    <2>. QED BY <1>0, <1>2, <2>1 DEF TypeOK
  <1>4. ASSUME NEW l \in Listeners, SListenCall(l) \/ SListenLocal(l) \/ SListenSend(l)
        PROVE  CancelTagInv'
    <2>1. cpc' = cpc \/ \E w \in {"off", "select", "start", "finished"} :
                           cpc' = [cpc EXCEPT ![l] = w]
      BY <1>4 DEF SListenCall, SListenLocal, SListenSend, ListenCall, ListenBegin,
         ListenLock, ListenFlush, WatchSelect, Consume
    <2>. QED BY <1>0, <1>2, <2>1 DEF TypeOK
  <1>5. ASSUME NEW p \in Call, SCancel(p) PROVE CancelTagInv'
    <2>1. CASE CancelRegister(p)
      <3>1. tag'[CancelOf(p)] # 0
        BY <1>0, <2>1 DEF CancelRegister, IncrementTag, NextTag, TypeOK
      <3>2. \A q \in Call : q # p => cpc'[q] = cpc[q]
        BY <1>0, <2>1 DEF CancelRegister, TypeOK
      <3>. QED BY <1>1, <3>1, <3>2 DEF CancelTagInv
    <2>2. CASE CancelBegin(p)
      <3>1. cpc[p] = "begin" /\ \A q \in Call : q # p => cpc'[q] = cpc[q]
        BY <1>0, <2>2 DEF CancelBegin, TypeOK
      <3>. QED BY <1>1, <3>1 DEF CancelTagInv
    <2>3. ASSUME NEW ok \in BOOLEAN, CancelEnd(p, ok) PROVE CancelTagInv'
      BY <1>0, <1>2, <2>3 DEF CancelEnd, TypeOK
    <2>. QED BY <1>5, <2>1, <2>2, <2>3 DEF SCancel
  <1>6. CASE SLoop \/ SRead \/ SEnv \/ DeviceNext \/ UNCHANGED sessionVars
    <2>1. cpc' = cpc
      BY <1>6 DEF SLoop, LoopStep, LoopLookup, LoopProcessReply, LoopSend,
         LoopProcessListen, LoopDelete, LoopClose, LoopCloseTags, LoopReport, SRead,
         LoopRead, LoopReadErr, SEnv, Async, Close, ConnBreak, CtxExpire, StopReading,
         DeviceNext, DevTake, DevRow, DevEnd, vars, sessionVars
    <2>. QED BY <1>2, <2>1
  <1>. QED BY <1>3, <1>4, <1>5, <1>6 DEF SessionNext, DeviceNext

-----------------------------------------------------------------------------
(* Whose sentences are unread.  In asynchronous mode a sentence belongs to *)
(* the request with its tag; before, to the run that is in progress.       *)

Unread == (IF InHand THEN <<lsen>> ELSE <<>>) \o fromDev

Ended(e) == dev[e] \in {"ended", "trapped"}
Mine(e) == IF async THEN tag[e] # 0 ELSE IsCall(e) /\ pc[e[1]] = "sync"

\* The device answers the request e with s, which ends it unless it is a row.
Owner(e, s) == /\ Mine(e) /\ tag[e] = s.tag
               /\ dev[e] # "unknown" /\ (s.word # "re" => Ended(e))

OwnInv ==
    /\ \A i \in DOMAIN Unread : \E e \in Entry : Owner(e, Unread[i])
    /\ conn = "open" => \A e \in Entry : OnWire(e) \/ dev[e] = "running" => Mine(e)
    /\ \A i, j \in DOMAIN Unread :
          i < j /\ Unread[i].tag = Unread[j].tag /\ Unread[i].word # "re" =>
              Unread[j].word # "re"
    /\ ~async => \A i \in DOMAIN Unread : Unread[i].word = "done" => i = Len(Unread)

LEMMA UnreadType ==
    ASSUME TypeOK, WireTypes
    PROVE  /\ Unread \in Seq(Sentence)
           /\ InHand => Unread # <<>> /\ Head(Unread) = lsen /\ Tail(Unread) = fromDev
           /\ ~InHand => Unread = fromDev
  <1>1. fromDev \in Seq(Sentence) /\ lsen \in Sentence
    BY DEF TypeOK, WireTypes
  <1>2. <<lsen>> \in Seq(Sentence)
    BY <1>1
  <1>. QED BY <1>1, <1>2 DEF Unread

LEMMA UnreadSame ==
    ASSUME fromDev' = fromDev, InHand' <=> InHand, InHand => lsen' = lsen
    PROVE  Unread' = Unread
  BY DEF Unread

\* LoopRead takes the next sentence in hand.
LEMMA UnreadTaken ==
    ASSUME TypeOK, WireTypes, NEW sen, LoopRead(sen), Receive(sen)
    PROVE  Unread' = Unread
  <1>1. ~InHand /\ InHand' /\ lsen' = Head(fromDev) /\ fromDev # <<>> /\ fromDev' = Tail(fromDev)
    BY DEF LoopRead, Receive, InHand
  <1>2. fromDev \in Seq(Sentence)
    BY DEF WireTypes
  <1>3. <<Head(fromDev)>> \o Tail(fromDev) = fromDev
    BY <1>1, <1>2
  <1>. QED BY <1>1, <1>2, <1>3 DEF Unread

\* asyncLoop is done with the sentence in hand.
LEMMA UnreadDone ==
    ASSUME TypeOK, WireTypes, InHand, ~InHand', fromDev' = fromDev
    PROVE  Unread # <<>> /\ Head(Unread) = lsen /\ Unread' = Tail(Unread)
  <1>1. Unread' = fromDev
    BY DEF Unread, WireTypes
  <1>. QED BY <1>1, UnreadType

\* More sentences are sent.
LEMMA UnreadSent ==
    ASSUME TypeOK, WireTypes, NEW ss \in Seq(Sentence), UNCHANGED vars, fromDev' = fromDev \o ss
    PROVE  Unread' = Unread \o ss
  <1>1. fromDev \in Seq(Sentence) /\ lsen \in Sentence /\ UNCHANGED <<lpc, lsen>>
    BY DEF TypeOK, WireTypes, vars, loopVars
  <1>2. <<lsen>> \o (fromDev \o ss) = (<<lsen>> \o fromDev) \o ss
    BY <1>1
  <1>3. <<>> \o (fromDev \o ss) = (<<>> \o fromDev) \o ss
    BY <1>1
  <1>4. InHand' <=> InHand
    BY <1>1 DEF InHand
  <1>. QED BY <1>1, <1>2, <1>3, <1>4 DEF Unread

\* A sentence has one owner.
LEMMA MineUnique ==
    ASSUME TypeOK, TagInv, ModeInv, NEW d \in Entry, NEW e \in Entry,
           Mine(d), Mine(e), tag[d] = tag[e]
    PROVE  d = e
  <1>1. CASE async
    BY <1>1 DEF Mine, TagInv
  <1>2. CASE ~async
    <2>1. /\ IsCall(d) /\ IsCall(e) /\ pc[d[1]] = "sync" /\ pc[e[1]] = "sync"
          /\ d[1] \in Call /\ e[1] \in Call
      BY <1>2, EntryFacts DEF Mine
    <2>2. d[1] \in Runners /\ e[1] \in Runners
      BY <2>1, CallFacts DEF TypeOK, ListenPC
    <2>3. d[1] = e[1]
      BY <1>2, <2>1, <2>2 DEF ModeInv, Busy
    <2>. QED BY <2>1, <2>3, EntryFacts DEF IsCall
  <1>. QED BY <1>1, <1>2

\* Owner in the next state, of a sentence of either state.
OwnerNext(e, s) == /\ Mine(e)' /\ tag'[e] = s.tag
                   /\ dev'[e] # "unknown" /\ (s.word # "re" => Ended(e)')

\* The client reads in order, or loses what is left; who owns what stays.
Reads == \/ Unread' = Unread
         \/ Unread # <<>> /\ Unread' = Tail(Unread)
         \/ Unread' = <<>>

LEMMA OwnKeep ==
    ASSUME TypeOK, WireTypes, ReqInv, OwnInv, TagMoves, Reads, dev' = dev, async' = async,
           conn' = "open" => conn = "open",
           \A e \in Entry : ~async /\ Mine(e) => Mine(e)',
           \A e \in Entry : OnWire(e)' => OnWire(e) \/ Mine(e)'
    PROVE  OwnInv'
  <1>1. \A e \in Entry : Mine(e) /\ (OnWire(e) \/ dev[e] # "unknown") =>
                             Mine(e)' /\ tag'[e] = tag[e]
    BY DEF TagMoves, ReqInv, Mine
  <1>2. Unread \in Seq(Sentence)
    BY UnreadType
  <1>3. \A e \in Entry : \A s : Owner(e, s) => OwnerNext(e, s)
    BY <1>1 DEF Owner, OwnerNext, Ended
  <1>4. conn' = "open" => \A e \in Entry : OnWire(e)' \/ dev'[e] = "running" => Mine(e)'
    BY <1>1 DEF OwnInv
  <1>5. CASE Unread' = Unread
    BY <1>3, <1>4, <1>5 DEF OwnInv, Owner, OwnerNext
  <1>6. CASE Unread # <<>> /\ Unread' = Tail(Unread)
    <2>1. \A i \in DOMAIN Unread' : i + 1 \in DOMAIN Unread /\ Unread'[i] = Unread[i + 1]
      BY <1>2, <1>6
    <2>2. Len(Unread') + 1 = Len(Unread) /\ DOMAIN Unread' \subseteq Nat /\ Len(Unread') \in Nat
      BY <1>2, <1>6
    <2>3. \A i \in DOMAIN Unread' : \E e \in Entry : OwnerNext(e, Unread'[i])
      BY <1>3, <2>1 DEF OwnInv
    <2>4. \A i, j \in DOMAIN Unread' : i < j => i + 1 < j + 1
      BY <2>2
    <2>5. \A i, j \in DOMAIN Unread' :
             i < j /\ Unread'[i].tag = Unread'[j].tag /\ Unread'[i].word # "re" =>
                 Unread'[j].word # "re"
      BY <2>1, <2>4 DEF OwnInv
    <2>6. ~async => \A i \in DOMAIN Unread' : Unread'[i].word = "done" => i = Len(Unread')
      BY <2>1, <2>2 DEF OwnInv
    <2>. QED BY <1>4, <2>3, <2>5, <2>6 DEF OwnInv, Owner, OwnerNext
  <1>7. CASE Unread' = <<>>
    <2>1. DOMAIN Unread' = {}
      BY <1>7
    <2>. QED BY <1>4, <2>1 DEF OwnInv, Owner
  <1>. QED BY <1>5, <1>6, <1>7 DEF Reads

\* The device only answers requests that it has not ended, and ends them last.
LEMMA OwnSends ==
    ASSUME TypeOK, TagInv, WireTypes, ModeInv, OwnInv, DevMoves, UNCHANGED vars,
           conn = "open", NEW ss \in Seq(Sentence), Unread' = Unread \o ss,
           \A i \in DOMAIN ss : \E e \in Entry :
               /\ Mine(e) /\ tag[e] = ss[i].tag /\ ~Ended(e)
               /\ dev'[e] # "unknown" /\ (ss[i].word # "re" => Ended(e)'),
           \A i, j \in DOMAIN ss : i < j => ss[j].word # "re",
           ~async => \A i \in DOMAIN ss : ss[i].word = "done" => i = Len(ss),
           \A e \in Entry : OnWire(e)' \/ dev'[e] = "running" =>
                                OnWire(e) \/ dev[e] = "running"
    PROVE  OwnInv'
  <1>1. /\ UNCHANGED <<async, pc, tag, conn>>
        /\ \A e \in Entry : Mine(e)' <=> Mine(e)
    BY DEF vars, tagVars, Mine
  <1>2. Unread \in Seq(Sentence)
    BY UnreadType
  <1>3. \A i \in DOMAIN Unread' :
            \/ i \in DOMAIN Unread /\ Unread'[i] = Unread[i] /\ i <= Len(Unread)
            \/ i - Len(Unread) \in DOMAIN ss /\ Unread'[i] = ss[i - Len(Unread)]
               /\ i > Len(Unread)
    BY <1>2
  <1>4. Len(Unread') = Len(Unread) + Len(ss) /\ DOMAIN Unread' \subseteq Nat
        /\ Len(Unread) \in Nat /\ Len(ss) \in Nat
    BY <1>2
  <1>5. \A e \in Entry : \A s : Owner(e, s) => OwnerNext(e, s)
    BY <1>1 DEF Owner, OwnerNext, Ended, DevMoves
  <1>6. ASSUME NEW i \in DOMAIN Unread' PROVE \E e \in Entry : OwnerNext(e, Unread'[i])
    <2>1. CASE i \in DOMAIN Unread /\ Unread'[i] = Unread[i]
      BY <1>5, <2>1 DEF OwnInv
    <2>2. CASE i - Len(Unread) \in DOMAIN ss /\ Unread'[i] = ss[i - Len(Unread)]
      BY <1>1, <2>2 DEF OwnerNext
    <2>. QED BY <1>3, <2>1, <2>2
  <1>7. ASSUME NEW i \in DOMAIN Unread, NEW k \in DOMAIN ss, Unread[i].word # "re"
        PROVE  Unread[i].tag # ss[k].tag /\ async
    <2>1. PICK d \in Entry : Mine(d) /\ tag[d] = Unread[i].tag /\ Ended(d)
      BY <1>7 DEF OwnInv, Owner
    <2>2. PICK e \in Entry : Mine(e) /\ tag[e] = ss[k].tag /\ ~Ended(e)
      BY <1>7
    <2>3. tag[d] # tag[e]
      BY <2>1, <2>2, MineUnique
    <2>. QED BY <2>1, <2>2, <2>3 DEF ModeInv
  <1>8. ASSUME NEW i \in DOMAIN Unread', NEW j \in DOMAIN Unread', i < j,
               Unread'[i].tag = Unread'[j].tag, Unread'[i].word # "re"
        PROVE  Unread'[j].word # "re"
    <2>1. CASE i > Len(Unread)
      <3>1. /\ i - Len(Unread) \in DOMAIN ss /\ j - Len(Unread) \in DOMAIN ss
            /\ i - Len(Unread) < j - Len(Unread) /\ Unread'[j] = ss[j - Len(Unread)]
        BY <1>3, <1>4, <1>8, <2>1
      <3>. QED BY <3>1
    <2>2. CASE i \in DOMAIN Unread /\ Unread'[i] = Unread[i]
      <3>1. CASE j \in DOMAIN Unread /\ Unread'[j] = Unread[j]
        BY <1>8, <2>2, <3>1 DEF OwnInv
      <3>2. CASE j - Len(Unread) \in DOMAIN ss /\ Unread'[j] = ss[j - Len(Unread)]
        BY <1>7, <1>8, <2>2, <3>2
      <3>. QED BY <1>3, <3>1, <3>2
    <2>. QED BY <1>3, <1>4, <2>1, <2>2
  <1>9. ASSUME ~async, NEW i \in DOMAIN Unread', Unread'[i].word = "done"
        PROVE  i = Len(Unread')
    <2>1. CASE i \in DOMAIN Unread /\ Unread'[i] = Unread[i]
      <3>1. DOMAIN ss = {}
        BY <1>7, <1>9, <2>1
      <3>2. Len(ss) = 0
        BY <1>4, <3>1
      <3>. QED BY <1>4, <1>9, <2>1, <3>2 DEF OwnInv
    <2>2. CASE i - Len(Unread) \in DOMAIN ss /\ Unread'[i] = ss[i - Len(Unread)]
      <3>1. i - Len(Unread) = Len(ss)
        BY <1>9, <2>2
      <3>. QED BY <1>4, <3>1
    <2>. QED BY <1>3, <2>1, <2>2
  <1>10. \A e \in Entry : OnWire(e)' \/ dev'[e] = "running" => Mine(e)'
    BY <1>1 DEF OwnInv
  <1>. QED BY <1>1, <1>6, <1>8, <1>9, <1>10 DEF OwnInv, Owner, OwnerNext
\* No run is reading: then nothing is left to read, or to be answered.
LEMMA OwnQuiet ==
    ASSUME TypeOK, WireTypes, ModeInv, OwnInv, ~async, \A p \in Runners : pc[p] # "sync"
    PROVE  /\ Unread = <<>>
           /\ conn = "open" => \A e \in Entry : ~OnWire(e) /\ dev[e] # "running"
  <1>1. \A e \in Entry : ~Mine(e)
    BY EntryFacts, CallFacts DEF Mine, ModeInv, IsCall
  <1>2. Unread \in Seq(Sentence)
    BY UnreadType
  <1>3. DOMAIN Unread = {}
    BY <1>1 DEF OwnInv, Owner
  <1>. QED BY <1>1, <1>2, <1>3 DEF OwnInv

\* Nothing is left to read.
LEMMA OwnNone ==
    ASSUME Unread' = <<>>,
           conn' = "open" => \A e \in Entry : ~OnWire(e)' /\ dev'[e] # "running"
    PROVE  OwnInv'
  <1>1. DOMAIN Unread' = {} /\ Len(Unread') = 0
    BY DEF OwnInv
  <1>. QED BY <1>1 DEF OwnInv

LEMMA ReadsInOrder ==
    ASSUME IInv, WireTypes, ModeInv, [SessionNext]_sessionVars, ~DeviceNext
    PROVE  Reads
  <1>0. TypeOK /\ (~async => ~InHand) /\ fromDev \in Seq(Sentence)
    BY DEF IInv, PhaseInv, InHand, WireTypes
  <1>1. ASSUME fromDev' = fromDev, UNCHANGED <<lpc, lsen>> PROVE Reads
    BY <1>1, UnreadSame DEF InHand, Reads
  <1>2. ASSUME NEW p \in Runners, SRunCall(p) \/ SRunLocal(p) \/ SRunCtx(p) \/ SRunSend(p)
        PROVE  Reads
    <2>1. UNCHANGED <<lpc, lsen, fromDev>>
      BY <1>2 DEF SRunCall, SRunLocal, SRunCtx, SRunSend, RunCall, RunBegin, RunTag,
             RunRegister, RunFlush, SyncEnd, RunWake, RunDrained, RunCtx, loopVars,
             wireVars, Put2Wire
    <2>. QED BY <1>1, <2>1
  <1>3. ASSUME NEW p \in Runners, SSyncRead(p) PROVE Reads
    <2>1. UNCHANGED <<lpc, lsen>> /\ ~InHand /\ ~InHand'
      BY <1>0, <1>3 DEF SSyncRead, SyncRead, SyncReadErr, loopVars, ModeInv, InHand
    <2>2. Unread = fromDev /\ Unread' = fromDev'
      <3>1. Unread = <<>> \o fromDev /\ Unread' = <<>> \o fromDev'
        BY <2>1 DEF Unread
      <3>2. fromDev' \in Seq(Sentence)
        BY <1>0, StepTypes DEF WireTypes
      <3>. QED BY <1>0, <3>1, <3>2
    <2>. QED BY <1>3, <2>2 DEF SSyncRead, Receive, ReceiveErr, Reads
  <1>4. ASSUME NEW l \in Listeners, SListenCall(l) \/ SListenLocal(l) \/ SListenSend(l)
        PROVE  Reads
    <2>1. UNCHANGED <<lsen, fromDev>> /\ (lpc' = lpc \/ (~async /\ lpc' = "read"))
      BY <1>4 DEF SListenCall, SListenLocal, SListenSend, ListenCall, ListenBegin,
             ListenLock, ListenFlush, WatchSelect, Consume, loopVars, wireVars, Put2Wire
    <2>2. InHand' <=> InHand
      BY <1>0, <2>1 DEF InHand
    <2>. QED BY <2>1, <2>2, UnreadSame DEF Reads
  <1>5. ASSUME NEW p \in Call, SCancel(p) PROVE Reads
    <2>1. UNCHANGED <<lpc, lsen, fromDev>>
      BY <1>5 DEF SCancel, CancelRegister, CancelBegin, CancelEnd, loopVars, wireVars,
             Put2Wire
    <2>. QED BY <1>1, <2>1
  <1>6. CASE SLoop
    <2>1. fromDev' = fromDev
      BY <1>6 DEF SLoop, wireVars
    <2>2. (InHand' /\ InHand /\ lsen' = lsen) \/ ~InHand'
      BY <1>6 DEF SLoop, LoopStep, LoopLookup, LoopProcessReply, LoopSend,
             LoopProcessListen, LoopDelete, LoopClose, LoopCloseTags, LoopReport,
             LoopContinue, InHand, loopVars
    <2>. QED BY <1>0, <2>1, <2>2, UnreadSame, UnreadDone DEF Reads
  <1>7. CASE SRead
    <2>1. ASSUME NEW sen \in Sentence, LoopRead(sen), Receive(sen) PROVE Reads
      BY <1>0, <2>1, UnreadTaken DEF Reads
    <2>2. CASE LoopReadErr /\ ReceiveErr
      <3>1. ~InHand' /\ fromDev' = <<>>
        BY <2>2 DEF LoopReadErr, ReceiveErr, InHand
      <3>. QED BY <3>1 DEF Unread, Reads
    <2>. QED BY <1>7, <2>1, <2>2 DEF SRead
  <1>8. CASE SEnv \/ UNCHANGED sessionVars
    <2>1. UNCHANGED <<lsen, fromDev>> /\ (lpc' = lpc \/ (~async /\ lpc' = "read"))
      BY <1>8 DEF SEnv, Async, Close, ConnBreak, CtxExpire, StopReading, sessionVars,
             vars, loopVars, wireVars
    <2>2. InHand' <=> InHand
      BY <1>0, <2>1 DEF InHand
    <2>. QED BY <2>1, <2>2, UnreadSame DEF Reads
  <1>. QED BY <1>2, <1>3, <1>4, <1>5, <1>6, <1>7, <1>8 DEF SessionNext, DeviceNext

\* The device answers what it was asked: a command with rows and then its end,
\* a /cancel with what it interrupts and its own end.
LEMMA StepOwnDevice ==
    ASSUME IInv, WireTypes, ReqInv, ModeInv, OwnInv, DeviceNext, DevMoves PROVE OwnInv'
  <1>0. /\ TypeOK /\ TagInv /\ UNCHANGED vars /\ conn = "open"
        /\ dev \in [Entry -> {"unknown", "running", "trapped", "ended"}]
        /\ \A e \in Entry : OnWire(e) \/ dev[e] = "running" => Mine(e)
    BY DEF IInv, DeviceNext, DevTake, DevRow, DevEnd, WireTypes, OwnInv
  <1>. DEFINE Due(e, w) == /\ Mine(e) /\ ~Ended(e) /\ dev'[e] # "unknown"
                           /\ w # "re" => Ended(e)'
  <1>1. ASSUME NEW e \in Entry, NEW w \in Word
        PROVE  Answer(e, w) \in Sentence /\ Answer(e, w).tag = tag[e] /\ Answer(e, w).word = w
    BY <1>0, AnswerType
  <1>2. ASSUME NEW e \in Entry, NEW w \in Word, Due(e, w),
               fromDev' = fromDev \o <<Answer(e, w)>>,
               \A d \in Entry : OnWire(d)' \/ dev'[d] = "running" =>
                                    OnWire(d) \/ dev[d] = "running"
        PROVE  OwnInv'
    <2>. DEFINE ss == <<Answer(e, w)>>
    <2>1. ss \in Seq(Sentence) /\ Len(ss) = 1 /\ DOMAIN ss = {1} /\ ss[1] = Answer(e, w)
      BY <1>1
    <2>2. Unread' = Unread \o ss
      BY <1>0, <1>2, <2>1, UnreadSent
    <2>. HIDE DEF ss
    <2>3. \A i \in DOMAIN ss : \E d \in Entry :
              /\ Mine(d) /\ tag[d] = ss[i].tag /\ ~Ended(d)
              /\ dev'[d] # "unknown" /\ (ss[i].word # "re" => Ended(d)')
      BY <1>1, <1>2, <2>1
    <2>4. /\ \A i, j \in DOMAIN ss : i < j => ss[j].word # "re"
          /\ \A i \in DOMAIN ss : i = Len(ss)
      BY <2>1
    <2>. QED BY <1>0, <1>2, <2>1, <2>2, <2>3, <2>4, OwnSends
  <1>3. ASSUME NEW e \in Entry, Due(e, "done"),
               fromDev' = fromDev \o <<Answer(e, "trap"), Answer(e, "done")>>,
               \A d \in Entry : OnWire(d)' \/ dev'[d] = "running" =>
                                    OnWire(d) \/ dev[d] = "running"
        PROVE  OwnInv'
    <2>. DEFINE ss == <<Answer(e, "trap"), Answer(e, "done")>>
    <2>1. Answer(e, "trap") \in Sentence /\ Answer(e, "done") \in Sentence
      BY <1>1 DEF Word
    <2>2. /\ ss \in Seq(Sentence) /\ Len(ss) = 2 /\ DOMAIN ss = {1, 2}
          /\ ss[1] = Answer(e, "trap") /\ ss[2] = Answer(e, "done")
      BY <2>1
    <2>3. Unread' = Unread \o ss
      BY <1>0, <1>3, <2>2, UnreadSent
    <2>. HIDE DEF ss
    <2>4. /\ ss[1].tag = tag[e] /\ ss[1].word = "trap"
          /\ ss[2].tag = tag[e] /\ ss[2].word = "done"
      BY <1>1, <2>2 DEF Word
    <2>5. \A i \in DOMAIN ss : \E d \in Entry :
              /\ Mine(d) /\ tag[d] = ss[i].tag /\ ~Ended(d)
              /\ dev'[d] # "unknown" /\ (ss[i].word # "re" => Ended(d)')
      BY <1>3, <2>2, <2>4
    <2>. QED BY <1>0, <1>3, <2>2, <2>3, <2>4, <2>5, OwnSends
  <1>4. ASSUME NEW e \in Entry, NEW t \in Entry, Due(e, "done"), Due(t, "done"), async,
               fromDev' = fromDev \o
                   <<Answer(t, "trap2"), Answer(e, "done"), Answer(t, "done")>>,
               \A d \in Entry : OnWire(d)' \/ dev'[d] = "running" =>
                                    OnWire(d) \/ dev[d] = "running"
        PROVE  OwnInv'
    <2>. DEFINE ss == <<Answer(t, "trap2"), Answer(e, "done"), Answer(t, "done")>>
    <2>1. /\ Answer(t, "trap2") \in Sentence /\ Answer(e, "done") \in Sentence
          /\ Answer(t, "done") \in Sentence
      BY <1>1 DEF Word
    <2>2. /\ ss \in Seq(Sentence) /\ Len(ss) = 3 /\ DOMAIN ss = {1, 2, 3}
          /\ ss[1] = Answer(t, "trap2") /\ ss[2] = Answer(e, "done")
          /\ ss[3] = Answer(t, "done")
      BY <2>1
    <2>3. Unread' = Unread \o ss
      BY <1>0, <1>4, <2>2, UnreadSent
    <2>. HIDE DEF ss
    <2>4. /\ ss[1].tag = tag[t] /\ ss[1].word = "trap2"
          /\ ss[2].tag = tag[e] /\ ss[2].word = "done"
          /\ ss[3].tag = tag[t] /\ ss[3].word = "done"
      BY <1>1, <2>2 DEF Word
    <2>5. \A i \in DOMAIN ss : \E d \in Entry :
              /\ Mine(d) /\ tag[d] = ss[i].tag /\ ~Ended(d)
              /\ dev'[d] # "unknown" /\ (ss[i].word # "re" => Ended(d)')
      BY <1>4, <2>2, <2>4
    <2>. QED BY <1>0, <1>4, <2>2, <2>3, <2>4, <2>5, OwnSends
  <1>5. CASE DevTake
    <2>0. PICK e \in Entry : e = Head(toDev)
      BY <1>5, TakeFacts DEF DevTake
    <2>. DEFINE t == Target(e)
    <2>1. e \in Entry /\ OnWire(e) /\ (IsCancel(e) => t \in Entry)
      BY <1>5, <2>0, TakeFacts, TargetType DEF DevTake
    <2>2. Mine(e) /\ dev[e] = "unknown" /\ \A d \in Entry : OnWire(d)' => OnWire(d)
      BY <1>0, <1>5, <2>0, <2>1, TakenOnce DEF ReqInv
    <2>3. IsCancel(e) /\ dev[t] = "running" => async
      <3>. SUFFICES ASSUME IsCancel(e), dev[t] = "running", ~async PROVE FALSE
        BY <1>0 DEF TypeOK
      <3>1. Mine(t) /\ IsCall(e) /\ IsCall(t) /\ pc[t[1]] = "sync"
        BY <1>0, <2>1, <2>2 DEF Mine
      <3>2. t[1] \in Listeners
        BY <3>1, SessionAssumption DEF IsCancel, Target, CallOf
      <3>. QED BY <3>1, <3>2 DEF ModeInv
    <2>4. \/ ~IsCancel(e) /\ dev' = [dev EXCEPT ![e] = "running"] /\ fromDev' = fromDev
          \/ /\ IsCancel(e) /\ dev[t] = "running"
             /\ dev' = [dev EXCEPT ![e] = "ended", ![t] = "ended"]
             /\ fromDev' = fromDev \o
                    <<Answer(t, "trap2"), Answer(e, "done"), Answer(t, "done")>>
          \/ /\ IsCancel(e)
             /\ dev' = [dev EXCEPT ![e] = "ended"]
             /\ fromDev' = fromDev \o <<Answer(e, "trap"), Answer(e, "done")>>
      BY <1>5, <2>0 DEF DevTake
    <2>. HIDE DEF t
    <2>5. CASE ~IsCancel(e) /\ dev' = [dev EXCEPT ![e] = "running"] /\ fromDev' = fromDev
      <3>1. Unread' = Unread /\ \A d \in Entry : Mine(d)' <=> Mine(d)
        <4>1. UNCHANGED <<lpc, lsen, async, tag, pc>>
          BY <1>0 DEF vars, loopVars, tagVars
        <4>. QED BY <2>5, <4>1, UnreadSame DEF InHand, Mine
      <3>2. \A d \in Entry : \A s : Owner(d, s) => OwnerNext(d, s)
        BY <1>0, <3>1 DEF Owner, OwnerNext, vars, tagVars, Ended, DevMoves
      <3>3. \A d \in Entry : OnWire(d)' \/ dev'[d] = "running" => Mine(d)'
        BY <1>0, <2>1, <2>2, <2>5, <3>1
      <3>. QED BY <1>0, <3>1, <3>2, <3>3 DEF OwnInv, Owner, OwnerNext, vars, tagVars
    <2>6. CASE /\ IsCancel(e) /\ dev[t] = "running"
               /\ dev' = [dev EXCEPT ![e] = "ended", ![t] = "ended"]
               /\ fromDev' = fromDev \o
                      <<Answer(t, "trap2"), Answer(e, "done"), Answer(t, "done")>>
      <3>1. Due(e, "done") /\ Due(t, "done")
        BY <1>0, <2>1, <2>2, <2>6 DEF Ended
      <3>2. \A d \in Entry : OnWire(d)' \/ dev'[d] = "running" => OnWire(d) \/ dev[d] = "running"
        BY <1>0, <2>1, <2>2, <2>6
      <3>. QED BY <1>4, <2>1, <2>3, <2>6, <3>1, <3>2
    <2>7. CASE /\ IsCancel(e) /\ dev' = [dev EXCEPT ![e] = "ended"]
               /\ fromDev' = fromDev \o <<Answer(e, "trap"), Answer(e, "done")>>
      <3>1. Due(e, "done")
        BY <1>0, <2>1, <2>2, <2>7 DEF Ended
      <3>2. \A d \in Entry : OnWire(d)' \/ dev'[d] = "running" => OnWire(d) \/ dev[d] = "running"
        BY <1>0, <2>1, <2>2, <2>7
      <3>. QED BY <1>3, <2>1, <2>7, <3>1, <3>2
    <2>. QED BY <2>4, <2>5, <2>6, <2>7
  <1>6. ASSUME NEW p \in Call, DevRow(p) \/ DevEnd(p) PROVE OwnInv'
    <2>. DEFINE e == CallOf(p)
    <2>1. e \in Entry /\ dev[e] = "running" /\ toDev' = toDev
      BY <1>6, EntryFacts DEF DevRow, DevEnd
    <2>2. \/ dev' = dev /\ fromDev' = Append(fromDev, Answer(e, "re"))
          \/ dev' = [dev EXCEPT ![e] = "ended"] /\ fromDev' = Append(fromDev, Answer(e, "done"))
          \/ /\ dev' = [dev EXCEPT ![e] = "trapped"]
             /\ fromDev' = fromDev \o <<Answer(e, "trap"), Answer(e, "done")>>
      BY <1>6 DEF DevRow, DevEnd
    <2>. HIDE DEF e
    <2>3. \A s \in Sentence : Append(fromDev, s) = fromDev \o <<s>>
      BY DEF WireTypes
    <2>4. \A d \in Entry : OnWire(d)' \/ dev'[d] = "running" => OnWire(d) \/ dev[d] = "running"
      BY <1>0, <2>1, <2>2 DEF OnWire
    <2>5. CASE dev' = dev /\ fromDev' = Append(fromDev, Answer(e, "re"))
      <3>1. Due(e, "re") /\ "re" \in Word
        BY <1>0, <2>1, <2>5 DEF Ended, Word
      <3>2. fromDev' = fromDev \o <<Answer(e, "re")>>
        BY <1>1, <2>1, <2>3, <2>5, <3>1
      <3>. QED BY <1>2, <2>1, <2>4, <3>1, <3>2
    <2>6. CASE dev' = [dev EXCEPT ![e] = "ended"] /\ fromDev' = Append(fromDev, Answer(e, "done"))
      <3>1. Due(e, "done") /\ "done" \in Word
        BY <1>0, <2>1, <2>6 DEF Ended, Word
      <3>2. fromDev' = fromDev \o <<Answer(e, "done")>>
        BY <1>1, <2>1, <2>3, <2>6, <3>1
      <3>. QED BY <1>2, <2>1, <2>4, <3>1, <3>2
    <2>7. CASE /\ dev' = [dev EXCEPT ![e] = "trapped"]
               /\ fromDev' = fromDev \o <<Answer(e, "trap"), Answer(e, "done")>>
      <3>1. Due(e, "done")
        BY <1>0, <2>1, <2>7 DEF Ended
      <3>. QED BY <1>3, <2>1, <2>4, <2>7, <3>1
    <2>. QED BY <2>2, <2>5, <2>6, <2>7
  <1>. QED BY <1>5, <1>6 DEF DeviceNext

\* A request that a step puts on the wire is owned.
LEMMA PutOwned ==
    ASSUME TypeOK, WireTypes, NEW e \in Entry, Put2Wire(e), Mine(e)'
    PROVE  \A d \in Entry : OnWire(d)' => OnWire(d) \/ Mine(d)'
  <1>1. toDev \in Seq(Entry) /\ toDev' = Append(toDev, e)
    BY DEF WireTypes, Put2Wire
  <1>2. \A i \in DOMAIN toDev' : \/ i \in DOMAIN toDev /\ toDev'[i] = toDev[i]
                                 \/ toDev'[i] = e
    BY <1>1
  <1>. QED BY <1>2 DEF OnWire

\* The steps of the client other than the read of a synchronous run.
LEMMA StepOwnClient ==
    ASSUME IInv, WireTypes, ReqInv, ModeInv, CancelTagInv, OwnInv, TagMoves, Reads,
           dev' = dev, async' = async, conn' = "open" => conn = "open",
           \A p \in Runners : ~async /\ pc[p] = "sync" => pc'[p] = "sync",
           \/ toDev' = toDev
           \/ \E e \in Entry : Put2Wire(e) /\ Mine(e)'
    PROVE  OwnInv'
  <1>1. TypeOK
    BY DEF IInv
  <1>2. \A e \in Entry : ~async /\ Mine(e) => Mine(e)'
    BY EntryFacts, CallFacts DEF Mine, ModeInv, IsCall
  <1>3. \A e \in Entry : OnWire(e)' => OnWire(e) \/ Mine(e)'
    BY <1>1, PutOwned DEF OnWire
  <1>. QED BY <1>1, <1>2, <1>3, OwnKeep

LEMMA StepOwn ==
    ASSUME ~Overlap, BaseInv, ModeInv, CancelTagInv, OwnInv, [SessionNext]_sessionVars
    PROVE  OwnInv'
  <1>0. /\ IInv /\ WireTypes /\ ConnInv /\ ReqInv /\ TrapInv
        /\ TypeOK /\ TagMoves /\ DevMoves /\ ModeInv' /\ WireTypes'
        /\ (~async => ~InHand) /\ fromDev \in Seq(Sentence)
    BY TagsMove, DeviceMoves, StepMode, StepTypes DEF BaseInv, IInv, PhaseInv, InHand, WireTypes
  <1>1. CASE DeviceNext
    BY <1>0, <1>1, StepOwnDevice
  <1>2. ASSUME NEW p \in Runners,
               SRunCall(p) \/ SRunLocal(p) \/ SRunCtx(p) \/ SRunSend(p), ~DeviceNext
        PROVE  OwnInv'
    <2>1. Reads
      BY <1>0, <1>2, ReadsInOrder
    <2>2. UNCHANGED <<async, conn, dev>>
      BY <1>2 DEF SRunCall, SRunLocal, SRunCtx, SRunSend, RunCall, RunBegin, RunTag,
             RunRegister, RunFlush, SyncEnd, RunWake, RunDrained, RunCtx, wireVars, Put2Wire
    <2>3. /\ \A q \in Call : q # p => pc'[q] = pc[q]
          /\ pc[p] # "sync"
      BY <1>0, <1>2 DEF SRunCall, SRunLocal, SRunCtx, SRunSend, RunCall, RunBegin, RunTag,
             RunRegister, RunFlush, SyncEnd, RunWake, RunDrained, RunCtx, TypeOK, Goto, Return
    <2>4. CASE SRunSend(p)
      <3>1. /\ Put2Wire(CallOf(p)) /\ CallOf(p) \in Entry
            /\ \/ pc[p] = "flush"
               \/ pc[p] = "syncEnd" /\ pc'[p] = "sync"
            /\ tag' = tag
        BY <1>0, <2>4, EntryFacts, CallFacts DEF SRunSend, RunFlush, SyncEnd, TypeOK,
           tagVars, Goto, Return
      <3>2. Mine(CallOf(p))'
        BY <1>0, <2>2, <3>1, EntryFacts, CallFacts
        DEF Mine, ModeInv, SyncPC, IInv, TagInv, HasTag, IsCall
      <3>. QED BY <1>0, <2>1, <2>2, <2>3, <3>1, <3>2, CallFacts, StepOwnClient DEF BaseInv
    <2>5. CASE ~SRunSend(p)
      <3>1. toDev' = toDev
        BY <1>2, <2>5 DEF SRunCall, SRunLocal, SRunCtx, wireVars
      <3>. QED BY <1>0, <2>1, <2>2, <2>3, <3>1, CallFacts, StepOwnClient
    <2>. QED BY <2>4, <2>5
  <1>3. ASSUME NEW p \in Runners, SSyncRead(p), ~DeviceNext PROVE OwnInv'
    <2>1. /\ Reads /\ UNCHANGED <<async, conn, dev, toDev, lpc>> /\ ~async /\ pc[p] = "sync"
      BY <1>0, <1>3, ReadsInOrder DEF SSyncRead, SyncRead, SyncReadErr, Receive, ReceiveErr,
         loopVars, ModeInv
    <2>2. ~InHand /\ ~InHand' /\ Unread = fromDev /\ Unread' = fromDev'
      <3>1. ~InHand /\ ~InHand' /\ fromDev' \in Seq(Sentence)
        BY <1>0, <2>1 DEF InHand, WireTypes
      <3>. QED BY <1>0, <3>1 DEF Unread
    <2>3. ASSUME NEW sen \in Sentence, SyncRead(p, sen), Receive(sen), ~ReplyDone(sen.word)
          PROVE  OwnInv'
      <3>1. pc' = pc
        BY <2>3 DEF SyncRead
      <3>. QED BY <1>0, <2>1, <3>1, StepOwnClient
    <2>4. ASSUME NEW sen \in Sentence, SyncRead(p, sen), Receive(sen), ReplyDone(sen.word)
          PROVE  OwnInv'
      <3>1. /\ Unread # <<>> /\ Unread \in Seq(Sentence) /\ 1 \in DOMAIN Unread
            /\ Unread[1] = sen /\ Unread' = Tail(Unread)
        BY <1>0, <2>2, <2>4 DEF Receive
      <3>2. sen.word = "done"
        <4>1. InTransit(sen)
          BY <2>2, <3>1 DEF InTransit
        <4>. QED BY <1>0, <2>4, <4>1 DEF TrapInv, ReplyDone
      <3>3. Len(Unread) = 1 /\ Unread' = <<>>
        <4>1. 1 = Len(Unread)
          BY <2>1, <3>1, <3>2 DEF OwnInv
        <4>. QED BY <3>1, <4>1
      <3>4. PICK e \in Entry : Mine(e) /\ Ended(e)
        BY <3>1, <3>2 DEF OwnInv, Owner
      <3>5. \A d \in Entry : Mine(d) => d = e
        BY <1>0, <2>1, <3>4, MineUnique DEF IInv, ModeInv
      <3>6. conn = "open" => \A d \in Entry : ~OnWire(d) /\ dev[d] # "running"
        BY <1>0, <3>4, <3>5 DEF OwnInv, Ended, ReqInv
      <3>. QED BY <2>1, <3>3, <3>6, OwnNone DEF OnWire
    <2>5. CASE SyncReadErr(p) /\ ReceiveErr
      BY <2>1, <2>2, <2>5, OwnNone DEF ReceiveErr
    <2>. QED BY <1>3, <2>3, <2>4, <2>5 DEF SSyncRead
  <1>4. ASSUME NEW l \in Listeners, SListenLocal(l) \/ SListenSend(l), ~DeviceNext
        PROVE  OwnInv'
    <2>1. Reads
      BY <1>0, <1>4, ReadsInOrder
    <2>2. UNCHANGED <<async, conn, dev, tag>>
      BY <1>4 DEF SListenLocal, SListenSend, ListenBegin,
             ListenLock, ListenFlush, WatchSelect, Consume, wireVars, Put2Wire, tagVars
    <2>3. \A p \in Runners : pc'[p] = pc[p]
      <3>1. pc' = pc \/ \E where : pc' = [pc EXCEPT ![l] = where]
        BY <1>4 DEF SListenLocal, SListenSend, ListenBegin, ListenLock, ListenFlush,
           WatchSelect, Consume, Goto, Return
      <3>. QED BY <1>0, <3>1, CallFacts DEF TypeOK
    <2>4. CASE SListenSend(l)
      <3>1. Put2Wire(CallOf(l)) /\ CallOf(l) \in Entry /\ pc[l] = "flush"
        BY <2>4, EntryFacts, CallFacts DEF SListenSend, ListenFlush
      <3>2. Mine(CallOf(l))'
        BY <1>0, <2>2, <3>1, CallFacts DEF Mine, ModeInv, IInv, TagInv, HasTag
      <3>. QED BY <1>0, <2>1, <2>2, <2>3, <3>1, <3>2, StepOwnClient
    <2>5. CASE SListenLocal(l)
      <3>1. toDev' = toDev
        BY <2>5 DEF SListenLocal, wireVars
      <3>. QED BY <1>0, <2>1, <2>2, <2>3, <3>1, StepOwnClient
    <2>. QED BY <1>4, <2>4, <2>5
  <1>5. ASSUME NEW p \in Call, SCancel(p), ~DeviceNext PROVE OwnInv'
    <2>1. Reads /\ UNCHANGED <<async, conn, dev, pc>>
      BY <1>0, <1>5, ReadsInOrder DEF SCancel, CancelRegister, CancelBegin, CancelEnd,
         wireVars, Put2Wire
    <2>2. CASE CancelEnd(p, TRUE) /\ Put2Wire(CancelOf(p))
      <3>1. CancelOf(p) \in Entry /\ tag' = tag /\ async
        BY <1>0, <2>2, EntryFacts DEF CancelEnd, tagVars, ModeInv
      <3>2. Mine(CancelOf(p))'
        BY <2>1, <2>2, <3>1 DEF Mine, CancelTagInv, CancelEnd
      <3>. QED BY <1>0, <2>1, <2>2, <3>1, <3>2, StepOwnClient
    <2>3. CASE toDev' = toDev
      BY <1>0, <2>1, <2>3, StepOwnClient
    <2>. QED BY <1>5, <2>2, <2>3 DEF SCancel, wireVars
  <1>6. ASSUME SLoop \/ SRead \/ (SEnv /\ ~Async) \/ UNCHANGED sessionVars, ~DeviceNext
        PROVE  OwnInv'
    <2>1. UNCHANGED <<async, pc, dev, toDev>> /\ (conn' = "open" => conn = "open")
      BY <1>6 DEF SLoop, LoopStep, LoopLookup, LoopProcessReply, LoopSend,
         LoopProcessListen, LoopDelete, LoopClose, LoopCloseTags, LoopReport, SRead,
         LoopRead, LoopReadErr, SEnv, Close, ConnBreak, CtxExpire, StopReading,
         vars, sessionVars, wireVars, Receive, ReceiveErr
    <2>2. Reads
      BY <1>0, <1>6, ReadsInOrder DEF SessionNext
    <2>. QED BY <1>0, <2>1, <2>2, StepOwnClient
  <1>7. ASSUME (SEnv /\ Async) \/ \E l \in Listeners : SListenCall(l), ~DeviceNext
        PROVE  OwnInv'
    <2>1. /\ Reads /\ UNCHANGED <<conn, dev, toDev>>
          /\ async \/ \A p \in Runners : pc[p] \in {"idle", "returned"}
          /\ \A p \in Runners : pc'[p] = pc[p]
      <3>1. /\ UNCHANGED <<conn, dev, toDev>>
            /\ async \/ \A p \in Runners : pc[p] \in {"idle", "returned"}
            /\ pc' = pc \/ \E l \in Listeners : pc' = [pc EXCEPT ![l] = "called"]
        BY <1>7 DEF SEnv, Async, Close, ConnBreak, CtxExpire, StopReading, SListenCall,
           ListenCall, wireVars, SyncBusy, Goto
      <3>2. Reads
        BY <1>0, <1>7, ReadsInOrder DEF SessionNext
      <3>. QED BY <1>0, <3>1, <3>2, CallFacts DEF TypeOK
    <2>2. CASE async
      <3>1. async' = async
        BY <1>7, <2>2 DEF Async, SListenCall, ListenCall
      <3>. QED BY <1>0, <2>1, <2>2, <3>1, StepOwnClient
    <2>3. CASE ~async
      <3>1. /\ Unread = <<>>
            /\ conn = "open" => \A e \in Entry : ~OnWire(e) /\ dev[e] # "running"
        BY <1>0, <2>1, <2>3, OwnQuiet
      <3>2. Unread' = <<>>
        BY <2>1, <3>1 DEF Reads
      <3>. QED BY <2>1, <3>1, <3>2, OwnNone DEF OnWire
    <2>. QED BY <2>2, <2>3
  <1>. QED BY <1>1, <1>2, <1>3, <1>4, <1>5, <1>6, <1>7 DEF SessionNext, DeviceNext

\* What holds as long as the application makes one synchronous call at a time.
CallsInv == BaseInv /\ ModeInv /\ CancelTagInv /\ OwnInv

-----------------------------------------------------------------------------
(* What changes a run, seen from the run: its own steps, the end or a row  *)
(* of its reply, and closeTags.                                            *)

Same(p) == /\ pc'[p] = pc[p] /\ res'[p] = res[p]
           /\ re'[p] = re[p] /\ fin'[p] = fin[p] /\ err'[p] = err[p]
           /\ closed'[CallOf(p)] = closed[CallOf(p)]

Steps(p) == SRunCall(p) \/ SRunLocal(p) \/ SRunCtx(p) \/ SRunSend(p) \/ SSyncRead(p)

LEMMA RunnerMoves ==
    ASSUME IInv, [SessionNext]_sessionVars, NEW p \in Runners
    PROVE  \/ Same(p)
           \/ Steps(p)
           \/ SLoop /\ (LoopProcessReply \/ LoopClose) /\ lent = CallOf(p)
           \/ SLoop /\ LoopCloseTags /\ Registered(CallOf(p))
  <1>. DEFINE Goal == \/ Same(p)
                      \/ Steps(p)
                      \/ SLoop /\ (LoopProcessReply \/ LoopClose) /\ lent = CallOf(p)
                      \/ SLoop /\ LoopCloseTags /\ Registered(CallOf(p))
  <1>0. TypeOK /\ LoopInv /\ p \in Call /\ p \notin Listeners /\ CallOf(p) \in Entry
    BY CallFacts, EntryFacts DEF IInv
  <1>1. ASSUME NEW q \in Runners, Steps(q) PROVE Goal
    <2>1. CASE q = p
      BY <1>1, <2>1
    <2>2. CASE q # p
      <3>1. pc'[p] = pc[p] /\ res'[p] = res[p] /\ closed' = closed
        BY <1>0, <1>1, <2>2, CallFacts DEF Steps, SRunCall, SRunLocal, SRunCtx, SRunSend,
           SSyncRead, RunCall, RunBegin, RunTag, RunRegister, RunFlush, SyncEnd, RunWake,
           RunDrained, RunCtx, SyncRead, SyncReadErr, TypeOK, Goto, Return, replyVars
      <3>2. re'[p] = re[p] /\ fin'[p] = fin[p] /\ err'[p] = err[p]
        BY <1>0, <1>1, <2>2, CallFacts DEF Steps, SRunCall, SRunLocal, SRunCtx, SRunSend,
           SSyncRead, RunCall, RunBegin, RunTag, RunRegister, RunFlush, SyncEnd, RunWake,
           RunDrained, RunCtx, SyncRead, SyncReadErr, TypeOK, replyVars
      <3>. QED BY <3>1, <3>2 DEF Same
    <2>. QED BY <2>1, <2>2
  <1>2. ASSUME NEW l \in Listeners, SListenCall(l) \/ SListenLocal(l) \/ SListenSend(l)
        PROVE  Goal
    <2>1. pc'[p] = pc[p] /\ res'[p] = res[p] /\ UNCHANGED <<closed, err, re, fin>>
      BY <1>0, <1>2, CallFacts DEF SListenCall, SListenLocal, SListenSend, ListenCall,
         ListenBegin, ListenLock, ListenFlush, WatchSelect, Consume, TypeOK, Goto, Return,
         replyVars
    <2>. QED BY <2>1 DEF Same
  <1>3. ASSUME NEW q \in Call, SCancel(q) PROVE Goal
    <2>1. UNCHANGED <<pc, res, closed, err, re, fin>>
      BY <1>3 DEF SCancel, CancelRegister, CancelBegin, CancelEnd, replyVars
    <2>. QED BY <2>1 DEF Same
  <1>4. CASE SRead \/ SEnv \/ DeviceNext \/ UNCHANGED sessionVars
    <2>1. UNCHANGED <<pc, res, closed, err, re, fin>>
      BY <1>4 DEF SRead, LoopRead, LoopReadErr, SEnv, Async, Close, ConnBreak, CtxExpire,
         StopReading, DeviceNext, DevTake, DevRow, DevEnd, vars, sessionVars, replyVars
    <2>. QED BY <2>1 DEF Same
  <1>5. CASE SLoop
    <2>1. CASE LoopProcessReply
      <3>1. CASE lent = CallOf(p)
        BY <1>5, <2>1, <3>1
      <3>2. CASE lent # CallOf(p)
        <4>1. lent \in Entry /\ (IsCall(lent) => lent[1] # p)
          BY <1>0, <2>1, <3>2, EntryFacts DEF LoopProcessReply, LoopInv, IsCall
        <4>2. re'[p] = re[p] /\ fin'[p] = fin[p]
          BY <1>0, <2>1, <4>1, EntryFacts DEF LoopProcessReply, TypeOK
        <4>. QED BY <2>1, <4>2 DEF LoopProcessReply, Same
      <3>. QED BY <3>1, <3>2
    <2>2. CASE LoopSend \/ LoopProcessListen
      <3>1. lent[1] \in Listeners
        BY <2>2 DEF LoopSend, LoopProcessListen, IsListen
      <3>2. re'[p] = re[p] /\ fin'[p] = fin[p] /\ UNCHANGED <<pc, res, closed, err>>
        BY <1>0, <2>2, <3>1 DEF LoopSend, LoopProcessListen, TypeOK
      <3>. QED BY <3>2 DEF Same
    <2>3. CASE LoopClose
      <3>1. CASE lent = CallOf(p)
        BY <1>5, <2>3, <3>1
      <3>2. CASE lent # CallOf(p)
        <4>1. lent \in Entry /\ (IsCall(lent) => lent[1] # p)
          BY <1>0, <2>3, <3>2, EntryFacts DEF LoopClose, LoopInv, IsCall
        <4>2. err'[p] = err[p] /\ closed'[CallOf(p)] = closed[CallOf(p)]
          BY <1>0, <2>3, <3>2, <4>1, EntryFacts DEF LoopClose, TypeOK
        <4>. QED BY <2>3, <4>2 DEF LoopClose, Same
      <3>. QED BY <3>1, <3>2
    <2>4. CASE LoopCloseTags
      <3>1. CASE Registered(CallOf(p))
        BY <1>5, <2>4, <3>1
      <3>2. CASE ~Registered(CallOf(p))
        <4>1. err'[p] = err[p] /\ (closed'[CallOf(p)] = closed[CallOf(p)])
          BY <1>0, <2>4, <3>2 DEF LoopCloseTags, TypeOK
        <4>. QED BY <2>4, <4>1 DEF LoopCloseTags, Same
      <3>. QED BY <3>1, <3>2
    <2>5. CASE LoopLookup \/ LoopDelete \/ LoopReport
      BY <2>5 DEF LoopLookup, LoopDelete, LoopReport, replyVars, Same
    <2>. QED BY <1>5, <2>1, <2>2, <2>3, <2>4, <2>5 DEF SLoop, LoopStep
  <1>. QED BY <1>1, <1>2, <1>3, <1>4, <1>5 DEF SessionNext, DeviceNext, Steps

\* A run that has not been flushed has an empty reply.
Fresh == {"idle", "called", "begun", "tagged", "syncEnd", "flush"}
FreshInv == \A p \in Runners :
                pc[p] \in Fresh => err[p] = "none" /\ re[p] = 0 /\ ~fin[p]

LEMMA StepFresh ==
    ASSUME IInv, FreshInv, [SessionNext]_sessionVars PROVE FreshInv'
  <1>. SUFFICES ASSUME NEW p \in Runners, pc'[p] \in Fresh
                PROVE  err'[p] = "none" /\ re'[p] = 0 /\ ~fin'[p]
    BY DEF FreshInv
  <1>0. /\ TypeOK /\ LoopInv /\ RegInv /\ LockInv
        /\ p \in Call /\ p \notin Listeners /\ CallOf(p) \in Entry
        /\ IsCall(CallOf(p)) /\ ~IsListen(CallOf(p)) /\ CallOf(p)[1] = p /\ None # p
    BY CallFacts, EntryFacts DEF IInv, IsCall, IsListen
  <1>1. CASE Same(p)
    BY <1>1 DEF Same, FreshInv
  <1>2. CASE Steps(p)
    <2>1. pc[p] \in Fresh /\ UNCHANGED <<err, re, fin>>
      BY <1>0, <1>2 DEF Steps, SRunCall, SRunLocal, SRunCtx, SRunSend,
           SSyncRead, RunCall, RunBegin, RunTag, RunRegister, RunFlush, SyncEnd, RunWake,
           RunDrained, RunCtx, SyncRead, SyncReadErr, TypeOK, Goto, Return, replyVars, Fresh
    <2>. QED BY <2>1 DEF FreshInv
  <1>3. CASE (LoopProcessReply \/ LoopClose) /\ lent = CallOf(p)
    <2>1. pc[p] \in {"wait", "drain"} /\ pc' = pc
      BY <1>0, <1>3 DEF LoopProcessReply, LoopClose, LoopInv, Live
    <2>. QED BY <2>1 DEF Fresh
  <1>4. CASE LoopCloseTags /\ Registered(CallOf(p))
    <2>1. pc[p] \in {"wait", "drain"} /\ pc' = pc
      <3>1. PICK t \in Tag : tags[t] = CallOf(p)
        BY <1>4 DEF Registered
      <3>2. Live(CallOf(p))
        BY <1>0, <3>1, CallFacts DEF RegInv
      <3>. QED BY <1>0, <1>4, <3>2 DEF LoopCloseTags, Live, LockInv
    <2>. QED BY <2>1 DEF Fresh
  <1>. QED BY <1>1, <1>2, <1>3, <1>4, RunnerMoves

-----------------------------------------------------------------------------
(* What a run is told is what the device did with its command.             *)

EndInv ==
    \A p \in Runners :
        /\ pc[p] \in {"wait", "drain"} /\ ~closed[CallOf(p)] => err[p] = "none"
        /\ pc[p] = "sync" => err[p] \in {"none", "device"}
        /\ closed[CallOf(p)] => Ended(CallOf(p)) \/ err[p] = "read" \/ closing
        /\ lpc \in {"delete", "close"} /\ lent = CallOf(p) => Ended(CallOf(p))
        /\ res[p] \in {"ok", "device", "ctx"} /\ ~closing => Ended(CallOf(p))

\* The sentence that asyncLoop processes was sent for the entry it looked up.
LEMMA InHandOwner ==
    ASSUME IInv, WireTypes, OwnInv, lpc = "process"
    PROVE  Owner(lent, lsen) /\ lsen = Head(Unread) /\ Unread # <<>>
  <1>1. /\ TypeOK /\ TagInv /\ LoopInv /\ async /\ InHand
        /\ lent \in Entry /\ tag[lent] = lsen.tag /\ lsen.tag # 0
    BY DEF IInv, PhaseInv, InHand, LoopInv, Tag
  <1>2. Unread \in Seq(Sentence) /\ Unread # <<>> /\ Head(Unread) = lsen
    BY <1>1, UnreadType
  <1>3. 1 \in DOMAIN Unread /\ Unread[1] = lsen
    BY <1>2
  <1>4. PICK e \in Entry : Owner(e, lsen)
    BY <1>3 DEF OwnInv
  <1>5. e = lent
    BY <1>1, <1>4 DEF Owner, TagInv
  <1>. QED BY <1>2, <1>4, <1>5

\* The sentence that a synchronous run reads was sent for it.
LEMMA SyncOwner ==
    ASSUME IInv, WireTypes, ModeInv, OwnInv, NEW p \in Runners, NEW sen \in Sentence,
           SyncRead(p, sen), Receive(sen)
    PROVE  /\ Owner(CallOf(p), sen)
           /\ Unread \in Seq(Sentence) /\ Unread # <<>> /\ Head(Unread) = sen
           /\ Unread' = Tail(Unread)
  <1>1. /\ ~async /\ ~InHand /\ ~InHand' /\ fromDev \in Seq(Sentence) /\ fromDev # <<>>
        /\ sen = Head(fromDev) /\ fromDev' = Tail(fromDev) /\ pc[p] = "sync"
    BY DEF SyncRead, Receive, ModeInv, IInv, PhaseInv, InHand, WireTypes, loopVars
  <1>2. Unread = fromDev /\ Unread' = fromDev'
    BY <1>1 DEF Unread
  <1>3. 1 \in DOMAIN Unread /\ Unread[1] = sen
    BY <1>1, <1>2
  <1>4. PICK e \in Entry : Owner(e, sen)
    BY <1>3 DEF OwnInv
  <1>5. Mine(CallOf(p)) /\ CallOf(p) \in Entry /\ tag[e] = tag[CallOf(p)]
    BY <1>1, EntryFacts, CallFacts DEF Mine, ModeInv, IsCall
  <1>6. e = CallOf(p)
    BY <1>4, <1>5, MineUnique DEF Owner, IInv
  <1>. QED BY <1>1, <1>2, <1>4, <1>6

\* asyncLoop keeps what it holds until it closes it.
LEMMA LoopHolds ==
    ASSUME [SessionNext]_sessionVars, lpc' \in {"delete", "close"}
    PROVE  /\ lent' = lent
           /\ \/ lpc \in {"delete", "close"}
              \/ LoopProcessReply \/ LoopProcessListen
  <1>1. ASSUME UNCHANGED <<lpc, lent>> \/ lpc' = "read"
        PROVE  lent' = lent /\ lpc \in {"delete", "close"}
    BY <1>1
  <1>2. ASSUME NEW p \in Runners, Steps(p) PROVE UNCHANGED <<lpc, lent>>
    BY <1>2 DEF Steps, SRunCall, SRunLocal, SRunCtx, SRunSend, SSyncRead, RunCall, RunBegin,
       RunTag, RunRegister, RunFlush, SyncEnd, RunWake, RunDrained, RunCtx, SyncRead,
       SyncReadErr, loopVars
  <1>3. ASSUME NEW l \in Listeners, SListenCall(l) \/ SListenLocal(l) \/ SListenSend(l)
        PROVE  UNCHANGED <<lpc, lent>> \/ lpc' = "read"
    BY <1>3 DEF SListenCall, SListenLocal, SListenSend, ListenCall, ListenBegin,
       ListenLock, ListenFlush, WatchSelect, Consume, loopVars
  <1>4. ASSUME NEW p \in Call, SCancel(p) PROVE UNCHANGED <<lpc, lent>>
    BY <1>4 DEF SCancel, CancelRegister, CancelBegin, CancelEnd, loopVars
  <1>5. CASE SLoop
    BY <1>5 DEF SLoop, LoopStep, LoopLookup, LoopProcessReply, LoopSend, LoopContinue,
       LoopProcessListen, LoopDelete, LoopClose, LoopCloseTags, LoopReport
  <1>6. CASE SRead \/ SEnv \/ DeviceNext \/ UNCHANGED sessionVars
    <2>1. UNCHANGED <<lpc, lent>> \/ lpc' \in {"read", "lookup", "closeTags"}
      BY <1>6 DEF SRead, LoopRead, LoopReadErr, SEnv, Async, Close, ConnBreak, CtxExpire,
         StopReading, DeviceNext, DevTake, DevRow, DevEnd, vars, sessionVars, loopVars
    <2>. QED BY <2>1
  <1>. QED BY <1>1, <1>2, <1>3, <1>4, <1>5, <1>6 DEF SessionNext, DeviceNext, Steps

\* Close is for good.
LEMMA ClosingStays == ASSUME [SessionNext]_sessionVars, closing PROVE closing'
  BY DEF SessionNext, SRunCall, SRunLocal, SRunCtx, SRunSend, SSyncRead,
     SListenCall, SListenLocal, SListenSend, SCancel, SLoop, SRead, SEnv, DevTake,
     DevRow, DevEnd, vars, sessionVars, RunCall, RunBegin, RunTag, RunRegister,
     RunFlush, SyncEnd, RunWake, RunDrained, RunCtx, SyncRead, SyncReadErr,
     ListenCall, ListenBegin, ListenLock, ListenFlush, WatchSelect, Consume,
     CancelRegister, CancelBegin, CancelEnd, LoopStep, LoopLookup, LoopProcessReply,
     LoopSend, LoopProcessListen, LoopDelete, LoopClose, LoopCloseTags, LoopReport,
     LoopRead, LoopReadErr, Async, Close, ConnBreak, CtxExpire, StopReading

LEMMA StepEnd ==
    ASSUME CallsInv, FreshInv, EndInv, [SessionNext]_sessionVars PROVE EndInv'
  <1>. DEFINE Out(p) ==
          /\ pc[p] \in {"wait", "drain"} /\ ~closed[CallOf(p)] => err[p] = "none"
          /\ pc[p] = "sync" => err[p] \in {"none", "device"}
          /\ closed[CallOf(p)] => Ended(CallOf(p)) \/ err[p] = "read" \/ closing
          /\ res[p] \in {"ok", "device", "ctx"} /\ ~closing => Ended(CallOf(p))
  <1>. SUFFICES ASSUME NEW p \in Runners
                PROVE  /\ Out(p)'
                       /\ lpc' \in {"delete", "close"} /\ lent' = CallOf(p) =>
                              Ended(CallOf(p))'
    BY DEF EndInv
  <1>0. /\ IInv /\ WireTypes /\ ReqInv /\ TrapInv /\ ModeInv /\ OwnInv
        /\ TypeOK /\ LoopInv /\ RegInv /\ LockInv /\ DevMoves
        /\ p \in Call /\ p \notin Listeners /\ CallOf(p) \in Entry
        /\ IsCall(CallOf(p)) /\ ~IsListen(CallOf(p)) /\ CallOf(p)[1] = p /\ None # p
    BY CallFacts, EntryFacts, DeviceMoves DEF CallsInv, BaseInv, IInv, IsCall, IsListen
  <1>1. (Ended(CallOf(p)) => Ended(CallOf(p))') /\ (closing => closing')
    BY <1>0, ClosingStays DEF DevMoves, Ended
  <1>2. Out(p) /\ (lpc \in {"delete", "close"} /\ lent = CallOf(p) => Ended(CallOf(p)))
    BY DEF EndInv
  <1>3. lpc' \in {"delete", "close"} /\ lent' = CallOf(p) => Ended(CallOf(p))'
    <2>. SUFFICES ASSUME lpc' \in {"delete", "close"}, lent' = CallOf(p)
                  PROVE  Ended(CallOf(p))
      BY <1>1
    <2>1. CASE lpc \in {"delete", "close"}
      BY <1>2, <2>1, LoopHolds
    <2>2. CASE LoopProcessReply /\ lent = CallOf(p)
      <3>1. Owner(lent, lsen) /\ lpc = "process"
        BY <1>0, <2>2, InHandOwner DEF LoopProcessReply
      <3>2. lsen.word # "re"
        BY <2>2 DEF LoopProcessReply, LoopContinue, ReplyDone, ReplyErr
      <3>. QED BY <2>2, <3>1, <3>2 DEF Owner
    <2>3. CASE LoopProcessListen /\ lent = CallOf(p)
      BY <1>0, <2>3 DEF LoopProcessListen
    <2>. QED BY <2>1, <2>2, <2>3, LoopHolds
  <1>4. CASE Same(p)
    BY <1>1, <1>2, <1>3, <1>4 DEF Same
  <1>5. CASE Steps(p)
    <2>1. CASE SRunCall(p) \/ RunBegin(p) \/ RunTag(p) \/ RunRegister(p)
      <3>1. /\ pc'[p] \in {"called", "begun", "tagged", "syncEnd", "flush", "returned"}
            /\ res'[p] = res[p] \/ res'[p] = "ended"
            /\ UNCHANGED <<err, closed>>
        BY <1>0, <2>1 DEF SRunCall, RunCall, RunBegin, RunTag, RunRegister, TypeOK, Goto,
           Return, replyVars
      <3>. QED BY <1>1, <1>2, <1>3, <3>1
    <2>2. ASSUME NEW ok \in BOOLEAN, RunFlush(p, ok) \/ SyncEnd(p, ok) PROVE Out(p)'
      <3>1. /\ err[p] = "none"
            /\ res'[p] = res[p] \/ res'[p] = "write"
            /\ UNCHANGED <<err, closed>>
        BY <1>0, <2>2 DEF RunFlush, SyncEnd, TypeOK, Goto, Return, replyVars, FreshInv, Fresh
      <3>. QED BY <1>1, <1>2, <1>3, <3>1
    <2>3. CASE RunWake(p) \/ RunDrained(p)
      <3>1. /\ closed[CallOf(p)] /\ pc'[p] = "returned" /\ UNCHANGED <<err, closed>>
            /\ (res'[p] \in {"ok", "ctx"} /\ err[p] = "none") \/ res'[p] = err[p]
        BY <1>0, <2>3 DEF RunWake, RunDrained, TypeOK, Return, replyVars
      <3>. QED BY <1>1, <1>2, <1>3, <3>1
    <2>4. CASE SRunCtx(p)
      <3>1. pc[p] = "wait" /\ pc'[p] = "drain" /\ UNCHANGED <<err, closed, res>>
        BY <1>0, <2>4 DEF SRunCtx, RunCtx, TypeOK, Goto, replyVars
      <3>. QED BY <1>1, <1>2, <1>3, <3>1
    <2>5. ASSUME NEW sen \in Sentence, SyncRead(p, sen), Receive(sen) PROVE Out(p)'
      <3>1. /\ pc[p] = "sync" /\ err'[p] \in {"none", "device"} /\ closed' = closed
            /\ \/ UNCHANGED <<pc, res>>
               \/ ReplyDone(sen.word) /\ pc'[p] = "returned"
        BY <1>0, <1>2, <2>5 DEF SyncRead, TypeOK, Return, ReplyErr
      <3>2. ReplyDone(sen.word) => Ended(CallOf(p))
        BY <1>0, <2>5, SyncOwner DEF Owner, ReplyDone
      <3>. QED BY <1>1, <1>2, <3>1, <3>2
    <2>6. CASE SyncReadErr(p)
      <3>1. pc'[p] = "returned" /\ res'[p] = "read" /\ UNCHANGED <<err, closed>>
        BY <1>0, <2>6 DEF SyncReadErr, TypeOK, Return, replyVars
      <3>. QED BY <1>1, <1>2, <1>3, <3>1
    <2>. QED BY <1>3, <1>5, <2>1, <2>2, <2>3, <2>4, <2>5, <2>6
             DEF Steps, SRunLocal, SRunSend, SSyncRead
  <1>6. CASE LoopProcessReply /\ lent = CallOf(p)
    <2>1. UNCHANGED <<pc, closed, err, res>>
      BY <1>6 DEF LoopProcessReply
    <2>. QED BY <1>1, <1>2, <1>3, <2>1
  <1>7. CASE LoopClose /\ lent = CallOf(p)
    <2>1. Ended(CallOf(p)) /\ closed'[CallOf(p)] /\ pc[p] # "sync" /\ UNCHANGED <<pc, res>>
      BY <1>0, <1>2, <1>7 DEF LoopClose, LoopInv, Live, TypeOK
    <2>. QED BY <1>1, <1>2, <1>3, <2>1
  <1>8. CASE LoopCloseTags /\ Registered(CallOf(p))
    <2>1. pc[p] \in {"wait", "drain"} /\ ~closed[CallOf(p)] /\ UNCHANGED <<pc, res>>
      <3>1. PICK t \in Tag : tags[t] = CallOf(p)
        BY <1>8 DEF Registered
      <3>2. Live(CallOf(p)) /\ ~closed[CallOf(p)]
        BY <1>0, <3>1, CallFacts DEF RegInv
      <3>. QED BY <1>0, <1>8, <3>2 DEF LoopCloseTags, Live, LockInv
    <2>2. closed'[CallOf(p)] /\ (closing \/ err'[p] = "read")
      BY <1>0, <1>2, <1>8, <2>1 DEF LoopCloseTags, CloseTagsErr
    <2>. QED BY <1>1, <1>2, <1>3, <2>1, <2>2
  <1>. QED BY <1>0, <1>3, <1>4, <1>5, <1>6, <1>7, <1>8, RunnerMoves

-----------------------------------------------------------------------------
(* The rows of a run: those in its reply and those that are unread are     *)
(* those the device has sent.                                              *)

\* The rows that are unread will reach the reply.
Counting(p) ==
    \/ pc[p] = "sync"
    \/ /\ Lookup(tag[CallOf(p)]) = CallOf(p)
       /\ lpc \in {"read", "lookup", "process", "delete", "close"}
       /\ ~(lpc = "delete" /\ lent = CallOf(p))

RowInv ==
    \A p \in Runners :
        /\ Counting(p) => ~fin[p] /\ Grows(Unread, tag[CallOf(p)], re[p], sent[p])
        /\ fin[p] => re[p] = sent[p] /\ Ended(CallOf(p))

\* A run in c.tags was there, or registers now.
LEMMA LookupMoves ==
    ASSUME IInv, [SessionNext]_sessionVars, NEW p \in Runners,
           Lookup(tag[CallOf(p)])' = CallOf(p)
    PROVE  /\ tag'[CallOf(p)] = tag[CallOf(p)]
           /\ \/ Lookup(tag[CallOf(p)]) = CallOf(p)
              \/ SRunLocal(p) /\ RunRegister(p)
  <1>0. /\ TypeOK /\ RegInv /\ LoopInv /\ p \in Call /\ p \notin Listeners
        /\ CallOf(p) \in Entry /\ CallOf(p)[1] = p /\ CallOf(p) # None
        /\ \A q \in Call : /\ CallOf(q) = CallOf(p) => q = p
                           /\ CancelOf(q) # CallOf(p)
                           /\ CallOf(q) \in Entry /\ CancelOf(q) \in Entry
    BY CallFacts, EntryFacts DEF IInv
  <1>. DEFINE Found == \E t \in Tag : tags'[t] = CallOf(p)
              Goal == /\ tag'[CallOf(p)] = tag[CallOf(p)]
                      /\ \/ Lookup(tag[CallOf(p)]) = CallOf(p)
                         \/ SRunLocal(p) /\ RunRegister(p)
  <1>1. tag'[CallOf(p)] \in Tag /\ tags'[tag'[CallOf(p)]] = CallOf(p)
    BY <1>0 DEF Lookup
  <1>2. ASSUME \A t \in Tag : tags'[t] = CallOf(p) => tags[t] = CallOf(p)
        PROVE  Goal
    <2>1. tags[tag'[CallOf(p)]] = CallOf(p)
      BY <1>1, <1>2
    <2>2. tag[CallOf(p)] = tag'[CallOf(p)]
      BY <1>0, <1>1, <2>1 DEF RegInv
    <2>. QED BY <1>1, <2>1, <2>2 DEF Lookup
  <1>3. ASSUME NEW e, NEW t, e # CallOf(p), tags' = [tags EXCEPT ![t] = e] PROVE Goal
    BY <1>0, <1>2, <1>3 DEF TypeOK
  <1>4. ASSUME UNCHANGED tags PROVE Goal
    BY <1>2, <1>4
  <1>5. ASSUME NEW q \in Runners, Steps(q) PROVE Goal
    <2>1. ASSUME RunRegister(q), SRunLocal(q) PROVE Goal
      <3>1. CASE q = p
        <4>1. tag' = tag
          BY <2>1 DEF RunRegister
        <4>. QED BY <2>1, <3>1, <4>1
      <3>2. CASE q # p
        <4>1. CallOf(q) # CallOf(p)
          BY <1>0, <3>2, CallFacts
        <4>. QED BY <1>3, <1>4, <2>1, <4>1 DEF RunRegister, Put
      <3>. QED BY <3>1, <3>2
    <2>2. ASSUME NEW ok \in BOOLEAN, RunFlush(q, ok) PROVE Goal
      BY <1>0, <1>3, <1>4, <2>2 DEF RunFlush, Delete
    <2>3. CASE ~(RunRegister(q) /\ SRunLocal(q)) /\ ~RunFlush(q, TRUE) /\ ~RunFlush(q, FALSE)
      <3>1. UNCHANGED tags
        BY <1>5, <2>3 DEF Steps, SRunCall, SRunLocal, SRunCtx, SRunSend, SSyncRead, RunCall,
           RunBegin, RunTag, SyncEnd, RunWake, RunDrained, RunCtx, SyncRead, SyncReadErr,
           tagVars
      <3>. QED BY <1>4, <3>1
    <2>. QED BY <2>1, <2>2, <2>3
  <1>6. ASSUME NEW l \in Listeners, SListenCall(l) \/ SListenLocal(l) \/ SListenSend(l)
        PROVE  Goal
    <2>1. CallOf(l) # CallOf(p)
      BY <1>0, CallFacts
    <2>2. UNCHANGED tags \/ \E t : tags' = [tags EXCEPT ![t] = CallOf(l)]
      BY <1>6 DEF SListenCall, SListenLocal, SListenSend, ListenCall, ListenBegin,
         ListenLock, ListenFlush, WatchSelect, Consume, tagVars, Put
    <2>. QED BY <1>3, <1>4, <2>1, <2>2
  <1>7. ASSUME NEW q \in Call, SCancel(q) PROVE Goal
    <2>1. UNCHANGED tags \/ \E t : tags' = [tags EXCEPT ![t] = CancelOf(q)]
      BY <1>7 DEF SCancel, CancelRegister, CancelBegin, CancelEnd, tagVars, Put
    <2>. QED BY <1>0, <1>3, <1>4, <2>1
  <1>8. CASE SLoop
    <2>1. CASE LoopCloseTags
      BY <1>0, <1>2, <2>1 DEF LoopCloseTags
    <2>2. CASE LoopDelete
      BY <1>0, <1>3, <2>2 DEF LoopDelete, Delete
    <2>3. CASE ~LoopCloseTags /\ ~LoopDelete
      <3>1. UNCHANGED tags
        BY <1>8, <2>3 DEF SLoop, LoopStep, LoopLookup, LoopProcessReply, LoopSend,
           LoopProcessListen, LoopClose, LoopReport, tagVars
      <3>. QED BY <1>4, <3>1
    <2>. QED BY <2>1, <2>2, <2>3
  <1>9. CASE SRead \/ SEnv \/ DeviceNext \/ UNCHANGED sessionVars
    <2>1. UNCHANGED tags
      BY <1>9 DEF SRead, LoopRead, LoopReadErr, SEnv, Async, Close, ConnBreak, CtxExpire,
         StopReading, DeviceNext, DevTake, DevRow, DevEnd, vars, sessionVars, tagVars
    <2>. QED BY <1>4, <2>1
  <1>. QED BY <1>5, <1>6, <1>7, <1>8, <1>9 DEF SessionNext, DeviceNext, Steps

\* Who moves asyncLoop.
LEMMA LoopMoves ==
    ASSUME IInv, [SessionNext]_sessionVars
    PROVE  \/ lpc' = lpc /\ lent' = lent
           \/ lpc = "off"
           \/ SLoop \/ SRead
  <1>1. ASSUME NEW p \in Runners, Steps(p) PROVE lpc' = lpc /\ lent' = lent
    BY <1>1 DEF Steps, SRunCall, SRunLocal, SRunCtx, SRunSend, SSyncRead, RunCall, RunBegin,
       RunTag, RunRegister, RunFlush, SyncEnd, RunWake, RunDrained, RunCtx, SyncRead,
       SyncReadErr, loopVars
  <1>2. ASSUME NEW l \in Listeners, SListenCall(l) \/ SListenLocal(l) \/ SListenSend(l)
        PROVE  lpc = "off" \/ (lpc' = lpc /\ lent' = lent)
    BY <1>2 DEF SListenCall, SListenLocal, SListenSend, ListenCall, ListenBegin,
       ListenLock, ListenFlush, WatchSelect, Consume, loopVars, IInv, PhaseInv
  <1>3. ASSUME NEW p \in Call, SCancel(p) PROVE lpc' = lpc /\ lent' = lent
    BY <1>3 DEF SCancel, CancelRegister, CancelBegin, CancelEnd, loopVars
  <1>4. ASSUME SEnv \/ DeviceNext \/ UNCHANGED sessionVars
        PROVE  lpc = "off" \/ (lpc' = lpc /\ lent' = lent)
    BY <1>4 DEF SEnv, Async, Close, ConnBreak, CtxExpire, StopReading, DeviceNext, DevTake,
       DevRow, DevEnd, vars, sessionVars, loopVars, IInv, PhaseInv
  <1>. QED BY <1>1, <1>2, <1>3, <1>4 DEF SessionNext, DeviceNext, Steps

LEMMA CountingMoves ==
    ASSUME IInv, [SessionNext]_sessionVars, NEW p \in Runners, Counting(p)'
    PROVE  /\ tag'[CallOf(p)] = tag[CallOf(p)]
           /\ \/ Counting(p)
              \/ SRunLocal(p) /\ RunRegister(p)
              \/ SRunSend(p) /\ SyncEnd(p, TRUE)
  <1>0. /\ TypeOK /\ RegInv /\ LoopInv /\ PhaseInv /\ p \in Call /\ p \notin Listeners
        /\ CallOf(p) \in Entry /\ CallOf(p) # None
    BY CallFacts, EntryFacts DEF IInv
  <1>1. CASE pc'[p] = "sync"
    <2>1. \/ pc[p] = "sync"
          \/ SRunSend(p) /\ SyncEnd(p, TRUE)
      <3>1. CASE Steps(p)
        BY <1>0, <1>1, <3>1 DEF Steps, SRunCall, SRunLocal, SRunCtx, SRunSend, SSyncRead,
           RunCall, RunBegin, RunTag, RunRegister, RunFlush, SyncEnd, RunWake, RunDrained,
           RunCtx, SyncRead, SyncReadErr, TypeOK, Goto, Return
      <3>2. CASE ~Steps(p)
        BY <1>1, <3>2, RunnerMoves
        DEF Same, LoopProcessReply, LoopClose, LoopCloseTags
      <3>. QED BY <3>1, <3>2
    <2>2. tag'[CallOf(p)] = tag[CallOf(p)]
      <3>1. pc[p] = "sync" => Flushed(CallOf(p))
        BY <1>0, EntryFacts DEF Flushed, IsCall
      <3>. QED BY <1>0, <2>1, <3>1, TagsMove DEF TagMoves, SyncEnd, tagVars
    <2>. QED BY <2>1, <2>2 DEF Counting
  <1>2. CASE Lookup(tag[CallOf(p)])' = CallOf(p) /\ pc'[p] # "sync"
    <2>1. /\ lpc' \in {"read", "lookup", "process", "delete", "close"}
          /\ ~(lpc' = "delete" /\ lent' = CallOf(p))
      BY <1>2 DEF Counting
    <2>2. tag'[CallOf(p)] = tag[CallOf(p)]
      BY <1>2, LookupMoves
    <2>3. ASSUME Lookup(tag[CallOf(p)]) = CallOf(p)
          PROVE  /\ lpc \in {"read", "lookup", "process", "delete", "close"}
                 /\ ~(lpc = "delete" /\ lent = CallOf(p))
      <3>1. tag[CallOf(p)] \in Tag /\ tags[tag[CallOf(p)]] = CallOf(p)
        BY <1>0, <2>3 DEF Lookup
      <3>2. lpc \notin {"off", "report", "ended"}
        BY <1>0, <3>1 DEF RegInv, PhaseInv
      <3>3. CASE lpc' = lpc /\ lent' = lent
        BY <2>1, <3>3
      <3>4. CASE SRead
        BY <3>4 DEF SRead, LoopRead, LoopReadErr
      <3>5. CASE SLoop
        <4>1. lpc # "closeTags"
          BY <2>1, <3>5 DEF SLoop, LoopStep, LoopLookup, LoopProcessReply, LoopSend,
             LoopProcessListen, LoopDelete, LoopClose, LoopCloseTags, LoopReport
        <4>2. ~(lpc = "delete" /\ lent = CallOf(p))
          <5>. SUFFICES ASSUME lpc = "delete", lent = CallOf(p) PROVE FALSE
            OBVIOUS
          <5>1. LoopDelete /\ tag[lent] = lsen.tag
            BY <1>0, <3>5 DEF SLoop, LoopStep, LoopLookup, LoopProcessReply, LoopSend,
               LoopProcessListen, LoopDelete, LoopClose, LoopCloseTags, LoopReport, LoopInv
          <5>2. tags'[tag[CallOf(p)]] = None
            BY <1>0, <3>1, <5>1 DEF LoopDelete, Delete, TypeOK
          <5>. QED BY <1>0, <1>2, <2>2, <3>1, <5>2 DEF Lookup
        <4>. QED BY <1>0, <3>2, <4>1, <4>2 DEF TypeOK, LoopPC
      <3>. QED BY <3>2, <3>3, <3>4, <3>5, LoopMoves
    <2>. QED BY <1>2, <2>2, <2>3, LookupMoves DEF Counting
  <1>. QED BY <1>1, <1>2 DEF Counting

\* What is read is a row of the run exactly when its reply grows.
LEMMA RowsRead ==
    ASSUME CallsInv, [SessionNext]_sessionVars, ~DeviceNext,
           NEW p \in Runners, Counting(p), Counting(p)'
    PROVE  \/ Unread' = Unread /\ re'[p] = re[p]
           \/ /\ Unread # <<>> /\ Unread' = Tail(Unread)
              /\ re'[p] = IF IsRow(tag[CallOf(p)], Head(Unread)) THEN re[p] + 1 ELSE re[p]
  <1>. DEFINE Goal ==
           \/ Unread' = Unread /\ re'[p] = re[p]
           \/ /\ Unread # <<>> /\ Unread' = Tail(Unread)
              /\ re'[p] = IF IsRow(tag[CallOf(p)], Head(Unread)) THEN re[p] + 1 ELSE re[p]
  <1>0. /\ IInv /\ WireTypes /\ ModeInv /\ OwnInv
        /\ TypeOK /\ LoopInv /\ TagInv /\ RegInv /\ PhaseInv
        /\ p \in Call /\ p \notin Listeners /\ CallOf(p) \in Entry /\ CallOf(p) # None
        /\ CallOf(p)[1] = p /\ IsCall(CallOf(p)) /\ ~IsListen(CallOf(p))
    BY CallFacts, EntryFacts DEF CallsInv, BaseInv, IInv, IsCall, IsListen
  <1>1. async => tag[CallOf(p)] \in Tag /\ Lookup(tag[CallOf(p)]) = CallOf(p)
    BY <1>0 DEF Counting, ModeInv, Lookup
  <1>2. ~async => pc[p] = "sync" /\ pc'[p] = "sync"
    <2>1. ~async => \A t \in Tag : tags[t] = None
      BY <1>0 DEF RegInv, PhaseInv
    <2>2. pc[p] = "sync" => pc'[p] = "sync"
      <3>. SUFFICES ASSUME pc[p] = "sync", pc'[p] # "sync" PROVE FALSE
        OBVIOUS
      <3>1. tag'[CallOf(p)] = tag[CallOf(p)] /\ Lookup(tag[CallOf(p)])' = CallOf(p)
        BY <1>0, LookupMoves DEF Counting
      <3>2. ~async
        BY <1>0 DEF ModeInv
      <3>3. tag[CallOf(p)] = 0
        BY <1>0, <3>2 DEF ModeInv
      <3>. QED BY <1>0, <3>1, <3>3 DEF Lookup, Tag
    <2>. QED BY <1>0, <2>1, <2>2 DEF Counting, Lookup
  <1>3. ASSUME UNCHANGED <<lpc, lsen, fromDev>>, re'[p] = re[p] PROVE Goal
    BY <1>3, UnreadSame DEF InHand
  <1>4. ASSUME NEW q \in Runners, SRunCall(q) \/ SRunLocal(q) \/ SRunCtx(q) \/ SRunSend(q)
        PROVE  Goal
    <2>1. UNCHANGED <<lpc, lsen, fromDev, re>>
      BY <1>4 DEF SRunCall, SRunLocal, SRunCtx, SRunSend, RunCall, RunBegin, RunTag,
             RunRegister, RunFlush, SyncEnd, RunWake, RunDrained, RunCtx, loopVars,
             wireVars, Put2Wire, replyVars
    <2>. QED BY <1>3, <2>1
  <1>5. ASSUME NEW q \in Runners, SSyncRead(q) PROVE Goal
    <2>1. ~async /\ pc[q] = "sync" /\ q = p
      BY <1>0, <1>2, <1>5 DEF SSyncRead, SyncRead, SyncReadErr, ModeInv, Busy
    <2>2. ASSUME NEW sen \in Sentence, SyncRead(p, sen), Receive(sen) PROVE Goal
      <3>1. /\ Owner(CallOf(p), sen) /\ Unread # <<>> /\ Head(Unread) = sen
            /\ Unread' = Tail(Unread)
        BY <1>0, <2>2, SyncOwner
      <3>2. re'[p] = IF sen.word = "re" THEN re[p] + 1 ELSE re[p]
        BY <1>0, <2>2 DEF SyncRead, TypeOK
      <3>. QED BY <3>1, <3>2 DEF Owner, IsRow
    <2>3. ~SyncReadErr(p)
      BY <1>0, <1>2, <2>1 DEF SyncReadErr, Return, TypeOK
    <2>. QED BY <1>5, <2>1, <2>2, <2>3 DEF SSyncRead
  <1>6. ASSUME NEW l \in Listeners, SListenCall(l) \/ SListenLocal(l) \/ SListenSend(l)
        PROVE  Goal
    <2>1. /\ UNCHANGED <<lsen, fromDev, re>>
          /\ lpc' = lpc \/ (~async /\ lpc' = "read")
      BY <1>6 DEF SListenCall, SListenLocal, SListenSend, ListenCall, ListenBegin,
         ListenLock, ListenFlush, WatchSelect, Consume, loopVars, wireVars, Put2Wire, replyVars
    <2>2. InHand' <=> InHand
      BY <1>0, <2>1 DEF InHand, PhaseInv
    <2>. QED BY <2>1, <2>2, UnreadSame
  <1>7. ASSUME NEW q \in Call, SCancel(q) PROVE Goal
    <2>1. UNCHANGED <<lpc, lsen, fromDev, re>>
      BY <1>7 DEF SCancel, CancelRegister, CancelBegin, CancelEnd, loopVars, wireVars,
         Put2Wire, replyVars
    <2>. QED BY <1>3, <2>1
  <1>8. CASE SLoop
    <2>0. async /\ fromDev' = fromDev
      <3>1. lpc # "off"
        BY <1>8 DEF SLoop, LoopStep, LoopLookup, LoopProcessReply, LoopSend,
           LoopProcessListen, LoopDelete, LoopClose, LoopCloseTags, LoopReport
      <3>. QED BY <1>0, <1>8, <3>1 DEF PhaseInv, SLoop, wireVars
    <2>1. ASSUME NEW e \in Entry, lent = e, lpc = "process", IsRow(tag[CallOf(p)], lsen)
          PROVE  e = CallOf(p)
      BY <1>0, <1>1, <2>0, <2>1 DEF LoopInv, TagInv, IsRow, Tag
    <2>2. ASSUME InHand, ~InHand',
                 re'[p] = IF IsRow(tag[CallOf(p)], lsen) THEN re[p] + 1 ELSE re[p]
          PROVE  Goal
      BY <1>0, <2>0, <2>2, UnreadDone
    <2>3. CASE LoopLookup
      <3>1. CASE lpc' = "process" /\ lsen' = lsen
        <4>1. InHand /\ InHand' /\ re' = re
          BY <2>3, <3>1 DEF LoopLookup, InHand, replyVars
        <4>. QED BY <2>0, <3>1, <4>1, UnreadSame
      <3>2. CASE Lookup(lsen.tag) = None /\ LoopContinue
        <4>1. InHand /\ ~InHand' /\ re' = re
          BY <2>3, <3>2 DEF LoopLookup, LoopContinue, InHand, replyVars
        <4>2. ~IsRow(tag[CallOf(p)], lsen)
          BY <1>0, <1>1, <2>0, <3>2 DEF IsRow
        <4>. QED BY <2>2, <4>1, <4>2
      <3>. QED BY <2>3, <3>1, <3>2 DEF LoopLookup
    <2>4. CASE LoopProcessReply
      <3>1. lent \in Entry /\ lpc = "process" /\ tag[lent] = lsen.tag
        BY <1>0, <2>4 DEF LoopProcessReply, LoopInv
      <3>2. CASE LoopContinue
        <4>1. InHand /\ ~InHand'
          BY <3>1, <3>2 DEF LoopContinue, InHand
        <4>2. CASE lent = CallOf(p)
          <5>1. re'[p] = IF lsen.word = "re" THEN re[p] + 1 ELSE re[p]
            BY <1>0, <2>4, <4>2 DEF LoopProcessReply, TypeOK
          <5>. QED BY <2>2, <3>1, <4>1, <4>2, <5>1 DEF IsRow
        <4>3. CASE lent # CallOf(p)
          <5>1. ~IsRow(tag[CallOf(p)], lsen)
            BY <2>1, <3>1, <4>3
          <5>2. IsCall(lent) => lent[1] # p
            BY <3>1, <4>3, EntryFacts DEF IsCall
          <5>3. re'[p] = re[p]
            BY <1>0, <2>4, <3>1, <5>2, EntryFacts DEF LoopProcessReply, TypeOK
          <5>. QED BY <2>2, <4>1, <5>1, <5>3
        <4>. QED BY <4>2, <4>3
      <3>3. CASE /\ ReplyDone(lsen.word) \/ ReplyErr(lsen.word) # "none"
                 /\ lpc' = "delete" /\ UNCHANGED <<lsen, lent>>
        <4>0. lent # CallOf(p)
          <5>1. tag'[CallOf(p)] = tag[CallOf(p)]
            BY CountingMoves, <1>0
          <5>2. ~async' \/ ~(lpc' = "delete" /\ lent' = CallOf(p))
            BY <1>0, <2>4, <2>0 DEF Counting, LoopProcessReply, ModeInv
          <5>. QED BY <2>0, <2>4, <3>3, <5>2 DEF LoopProcessReply
        <4>1. InHand /\ ~InHand'
          BY <3>1, <3>3 DEF InHand
        <4>2. ~IsRow(tag[CallOf(p)], lsen)
          BY <2>1, <3>1, <4>0
        <4>3. IsCall(lent) => lent[1] # p
          BY <3>1, <4>0, EntryFacts DEF IsCall
        <4>4. re'[p] = re[p]
          BY <1>0, <2>4, <3>1, <4>3, EntryFacts DEF LoopProcessReply, TypeOK
        <4>. QED BY <2>2, <4>1, <4>2, <4>4
      <3>. QED BY <2>4, <3>2, <3>3 DEF LoopProcessReply
    <2>5. CASE LoopSend \/ LoopProcessListen
      <3>1. /\ lent \in Entry /\ IsListen(lent) /\ lpc = "process"
            /\ InHand /\ ~InHand'
        BY <1>0, <2>5 DEF LoopSend, LoopProcessListen, LoopInv, LoopContinue, InHand
      <3>2. ~IsRow(tag[CallOf(p)], lsen)
        BY <1>0, <2>1, <3>1
      <3>3. re'[p] = re[p]
        BY <1>0, <2>5, <3>1 DEF LoopSend, LoopProcessListen, TypeOK, IsListen
      <3>. QED BY <2>2, <3>1, <3>2, <3>3
    <2>6. CASE LoopDelete \/ LoopClose \/ LoopCloseTags \/ LoopReport
      <3>1. ~InHand /\ ~InHand' /\ re' = re
        BY <2>6 DEF LoopDelete, LoopClose, LoopCloseTags, LoopReport, LoopContinue, InHand,
           replyVars
      <3>. QED BY <2>0, <3>1, UnreadSame
    <2>. QED BY <1>8, <2>3, <2>4, <2>5, <2>6 DEF SLoop, LoopStep
  <1>9. CASE SRead
    <2>1. ASSUME NEW sen \in Sentence, LoopRead(sen), Receive(sen) PROVE Goal
      <3>1. Unread' = Unread /\ re' = re
        BY <1>0, <2>1, UnreadTaken DEF LoopRead, replyVars
      <3>. QED BY <3>1
    <2>2. ~LoopReadErr
      <3>. SUFFICES ASSUME LoopReadErr PROVE FALSE
        OBVIOUS
      <3>1. lpc = "read" /\ lpc' = "closeTags" /\ pc' = pc
        BY DEF LoopReadErr
      <3>2. pc[p] = "sync"
        BY <3>1 DEF Counting
      <3>. QED BY <1>0, <3>1, <3>2 DEF ModeInv, PhaseInv
    <2>. QED BY <1>9, <2>1, <2>2 DEF SRead
  <1>10. CASE SEnv \/ UNCHANGED sessionVars
    <2>1. UNCHANGED <<lsen, fromDev, re>> /\ (lpc' = lpc \/ (~async /\ lpc' = "read"))
      BY <1>10 DEF SEnv, Async, Close, ConnBreak, CtxExpire, StopReading, sessionVars,
             vars, loopVars, wireVars, replyVars
    <2>2. InHand' <=> InHand
      BY <1>0, <2>1 DEF InHand, PhaseInv
    <2>. QED BY <2>1, <2>2, UnreadSame
  <1>. QED BY <1>4, <1>5, <1>6, <1>7, <1>8, <1>9, <1>10 DEF SessionNext, DeviceNext

\* The device's part: a row is sent, or what is sent is none of the run's rows.
LEMMA RowsSent ==
    ASSUME CallsInv, DeviceNext, NEW p \in Runners, Counting(p),
           Grows(Unread, tag[CallOf(p)], re[p], sent[p])
    PROVE  Grows(Unread', tag[CallOf(p)], re[p], sent'[p])
  <1>. DEFINE t == tag[CallOf(p)]
              Goal == Grows(Unread', t, re[p], sent'[p])
  <1>0. /\ IInv /\ WireTypes /\ ReqInv /\ ModeInv /\ OwnInv /\ TypeOK /\ TagInv
        /\ UNCHANGED vars /\ conn = "open"
        /\ p \in Call /\ CallOf(p) \in Entry
        /\ \A q \in Call : CallOf(q) \in Entry /\ (CallOf(q) = CallOf(p) => q = p)
        /\ sent[p] \in Nat /\ re[p] \in Nat
        /\ fromDev \in Seq(Sentence) /\ Unread \in Seq(Sentence)
    <2>1. /\ IInv /\ WireTypes /\ ReqInv /\ ModeInv /\ OwnInv /\ TypeOK /\ TagInv
      BY DEF CallsInv, BaseInv, IInv
    <2>2. UNCHANGED vars /\ conn = "open"
      BY DEF DeviceNext, DevTake, DevRow, DevEnd
    <2>3. p \in Call /\ CallOf(p) \in Entry
          /\ \A q \in Call : CallOf(q) \in Entry /\ (CallOf(q) = CallOf(p) => q = p)
      BY CallFacts, EntryFacts
    <2>4. sent[p] \in Nat /\ re[p] \in Nat
      BY <2>1, <2>3, BoundAssumption DEF WireTypes, TypeOK
    <2>. QED BY <2>1, <2>2, <2>3, <2>4, UnreadType DEF WireTypes
  <1>1. ASSUME NEW e \in Entry, NEW w \in Word
        PROVE  Answer(e, w) \in Sentence /\ Answer(e, w).tag = tag[e] /\ Answer(e, w).word = w
    BY <1>0, AnswerType
  <1>. HIDE DEF t
  <1>2. ASSUME NEW u \in Seq(Sentence), NEW hi \in Nat, Grows(u, t, re[p], hi),
               NEW e \in Entry, NEW w \in Word, w # "re"
        PROVE  Append(u, Answer(e, w)) \in Seq(Sentence)
               /\ Grows(Append(u, Answer(e, w)), t, re[p], hi)
    <2>1. Answer(e, w) \in Sentence /\ ~IsRow(t, Answer(e, w))
      BY <1>1, <1>2 DEF IsRow
    <2>. QED BY <1>0, <1>2, <2>1, GrowsAppend
  <1>3. \A s \in Sentence : Append(fromDev, s) = fromDev \o <<s>>
    <2>1. \A u \in Seq(Sentence), s \in Sentence : u \o <<s>> = Append(u, s)
      OBVIOUS
    <2>. QED BY <1>0, <2>1
  <1>4. ASSUME NEW s \in Sentence
        PROVE  Unread \o <<s>> = Append(Unread, s) /\ <<s>> \in Seq(Sentence)
    <2>1. \A u \in Seq(Sentence) : u \o <<s>> = Append(u, s)
      OBVIOUS
    <2>. QED BY <1>0, <2>1
  <1>5. {"done", "trap", "trap2", "re"} \subseteq Word
    BY DEF Word
  <1>6. ASSUME NEW e \in Entry, sent'[p] = sent[p],
               fromDev' = fromDev \o <<Answer(e, "trap"), Answer(e, "done")>>
        PROVE  Goal
    <2>1. Answer(e, "trap") \in Sentence /\ Answer(e, "done") \in Sentence
      BY <1>1, <1>5
    <2>2. Unread' = Unread \o <<Answer(e, "trap"), Answer(e, "done")>>
      <3>1. <<Answer(e, "trap"), Answer(e, "done")>> \in Seq(Sentence)
        BY <2>1
      <3>. QED BY <1>0, <1>6, <3>1, UnreadSent
    <2>3. Unread' = Append(Append(Unread, Answer(e, "trap")), Answer(e, "done"))
      BY <1>0, <2>1, <2>2, SentTogether
    <2>. QED BY <1>0, <1>2, <1>5, <1>6, <2>3 DEF t
  <1>7. ASSUME NEW e \in Entry, NEW f \in Entry, sent'[p] = sent[p],
               fromDev' = fromDev \o
                   <<Answer(f, "trap2"), Answer(e, "done"), Answer(f, "done")>>
        PROVE  Goal
    <2>1. /\ Answer(f, "trap2") \in Sentence /\ Answer(e, "done") \in Sentence
          /\ Answer(f, "done") \in Sentence
      BY <1>1, <1>5
    <2>2. Unread' = Unread \o <<Answer(f, "trap2"), Answer(e, "done"), Answer(f, "done")>>
      <3>1. <<Answer(f, "trap2"), Answer(e, "done"), Answer(f, "done")>> \in Seq(Sentence)
        BY <2>1
      <3>. QED BY <1>0, <1>7, <3>1, UnreadSent
    <2>3. Unread' = Append(Append(Append(Unread, Answer(f, "trap2")), Answer(e, "done")),
                           Answer(f, "done"))
      BY <1>0, <2>1, <2>2, SentTogether
    <2>4. /\ Append(Unread, Answer(f, "trap2")) \in Seq(Sentence)
          /\ Grows(Append(Unread, Answer(f, "trap2")), t, re[p], sent[p])
      BY <1>0, <1>2, <1>5 DEF t
    <2>5. /\ Append(Append(Unread, Answer(f, "trap2")), Answer(e, "done")) \in Seq(Sentence)
          /\ Grows(Append(Append(Unread, Answer(f, "trap2")), Answer(e, "done")),
                   t, re[p], sent[p])
      BY <1>0, <1>2, <1>5, <2>4
    <2>. QED BY <1>0, <1>2, <1>5, <1>7, <2>3, <2>5
  <1>8. ASSUME NEW q \in Call, DevRow(q) PROVE Goal
    <2>1. /\ CallOf(q) \in Entry /\ dev[CallOf(q)] = "running"
          /\ Answer(CallOf(q), "re") \in Sentence
          /\ Answer(CallOf(q), "re").tag = tag[CallOf(q)] /\ Answer(CallOf(q), "re").word = "re"
      BY <1>0, <1>1, <1>5, <1>8 DEF DevRow
    <2>2. Unread' = Append(Unread, Answer(CallOf(q), "re"))
      <3>1. fromDev' = fromDev \o <<Answer(CallOf(q), "re")>>
        BY <1>3, <1>8, <2>1 DEF DevRow
      <3>. QED BY <1>0, <1>4, <2>1, <3>1, UnreadSent
    <2>3. Mine(CallOf(q)) /\ Mine(CallOf(p))
      <3>1. Mine(CallOf(q))
        BY <1>0, <2>1 DEF OwnInv
      <3>2. CASE async
        <4>1. pc[p] # "sync"
          BY <1>0, <3>2 DEF ModeInv
        <4>. QED BY <1>0, <3>1, <3>2, <4>1, CallFacts DEF Counting, Lookup, Mine, Tag
      <3>3. CASE ~async
        <4>1. tag[CallOf(p)] = 0
          BY <1>0, <3>3 DEF ModeInv
        <4>2. pc[p] = "sync"
          BY <1>0, <4>1, CallFacts DEF Counting, Lookup, Tag
        <4>. QED BY <1>0, <3>1, <3>3, <4>2, EntryFacts DEF Mine, IsCall
      <3>. QED BY <3>2, <3>3
    <2>4. IsRow(t, Answer(CallOf(q), "re")) <=> q = p
      BY <1>0, <2>1, <2>3, MineUnique DEF IsRow, t
    <2>5. sent'[p] = IF q = p THEN sent[p] + 1 ELSE sent[p]
      BY <1>0, <1>8 DEF DevRow, WireTypes
    <2>6. Grows(Append(Unread, Answer(CallOf(q), "re")), t, re[p],
                IF IsRow(t, Answer(CallOf(q), "re")) THEN sent[p] + 1 ELSE sent[p])
      BY <1>0, <2>1, GrowsAppend DEF t
    <2>. QED BY <2>2, <2>4, <2>5, <2>6
  <1>9. ASSUME NEW q \in Call, DevEnd(q) PROVE Goal
    <2>1. CallOf(q) \in Entry /\ sent' = sent
      BY <1>0, <1>9 DEF DevEnd
    <2>2. CASE fromDev' = Append(fromDev, Answer(CallOf(q), "done"))
      <3>1. Answer(CallOf(q), "done") \in Sentence
        BY <1>1, <1>5, <2>1
      <3>2. fromDev' = fromDev \o <<Answer(CallOf(q), "done")>>
        BY <1>3, <2>2, <3>1
      <3>3. Unread' = Append(Unread, Answer(CallOf(q), "done"))
        BY <1>0, <1>4, <3>1, <3>2, UnreadSent
      <3>. QED BY <1>0, <1>2, <1>5, <2>1, <3>3 DEF t
    <2>. QED BY <1>6, <1>9, <2>1, <2>2 DEF DevEnd
  <1>10. CASE DevTake
    <2>1. PICK e \in Entry : e = Head(toDev)
      BY <1>0, <1>10, TakeFacts DEF DevTake
    <2>2. sent' = sent
      BY <1>10 DEF DevTake
    <2>3. CASE fromDev' = fromDev
      <3>1. Unread' = Unread
        BY <1>0, <2>3, UnreadSame DEF vars, loopVars, InHand
      <3>. QED BY <2>2, <3>1 DEF t
    <2>4. CASE /\ IsCancel(e)
               /\ fromDev' = fromDev \o <<Answer(Target(e), "trap2"), Answer(e, "done"),
                                         Answer(Target(e), "done")>>
      <3>1. PICK f \in Entry : f = Target(e)
        BY <2>4, TargetType
      <3>. QED BY <1>7, <2>2, <2>4, <3>1 DEF t
    <2>5. CASE fromDev' = fromDev \o <<Answer(e, "trap"), Answer(e, "done")>>
      BY <1>6, <2>2, <2>5 DEF t
    <2>. QED BY <1>10, <2>1, <2>3, <2>4, <2>5 DEF DevTake
  <1>. QED BY <1>8, <1>9, <1>10 DEF DeviceNext, t

\* A run that starts to count has no row yet, here or on the way.
LEMMA RowsStart ==
    ASSUME CallsInv, FreshInv, [SessionNext]_sessionVars, NEW p \in Runners,
           \/ SRunLocal(p) /\ RunRegister(p)
           \/ SRunSend(p) /\ SyncEnd(p, TRUE)
    PROVE  /\ ~fin'[p] /\ re'[p] = 0 /\ sent'[p] = 0
           /\ Grows(Unread', tag[CallOf(p)], 0, 0)
  <1>0. /\ IInv /\ WireTypes /\ ReqInv /\ ModeInv /\ OwnInv /\ TypeOK /\ TagInv
        /\ p \in Call /\ CallOf(p) \in Entry /\ IsCall(CallOf(p)) /\ CallOf(p)[1] = p
        /\ Unread \in Seq(Sentence)
    BY CallFacts, EntryFacts, UnreadType DEF CallsInv, BaseInv, IInv, IsCall
  <1>1. pc[p] \in {"tagged", "syncEnd"} /\ UNCHANGED <<re, fin, sent, lpc, lsen, fromDev>>
    BY DEF SRunLocal, SRunSend, RunRegister, SyncEnd, replyVars, loopVars, wireVars, Put2Wire
  <1>2. ~fin[p] /\ re[p] = 0
    BY <1>1 DEF FreshInv, Fresh
  <1>3. dev[CallOf(p)] = "unknown" /\ sent[p] = 0
    BY <1>0, <1>1 DEF ReqInv, Flushed
  <1>4. Unread' = Unread
    BY <1>1, UnreadSame DEF InHand
  <1>5. NoRows(Unread, tag[CallOf(p)])
    <2>1. CASE pc[p] = "tagged"
      <3>1. tag[CallOf(p)] # 0 /\ async
        BY <1>0, <2>1 DEF TagInv, HasTag, ModeInv, SyncPC
      <3>2. \A e \in Entry : tag[e] = tag[CallOf(p)] => e = CallOf(p)
        BY <1>0, <3>1 DEF TagInv
      <3>3. \A i \in DOMAIN Unread : Unread[i].tag # tag[CallOf(p)]
        BY <1>0, <1>3, <3>2 DEF OwnInv, Owner
      <3>. QED BY <1>0, <3>3 DEF NoRows, IsRow
    <2>2. CASE pc[p] = "syncEnd"
      <3>1. ~async /\ \A q \in Runners : pc[q] # "sync"
        BY <1>0, <2>2 DEF ModeInv, Busy
      <3>2. Unread = <<>>
        BY <1>0, <3>1, OwnQuiet
      <3>. QED BY <3>2 DEF NoRows
    <2>. QED BY <1>1, <2>1, <2>2
  <1>6. Grows(Unread, tag[CallOf(p)], 0, 0)
    BY <1>0, <1>5, GrowsNothing
  <1>. QED BY <1>1, <1>2, <1>3, <1>4, <1>6

\* The reply of a run has its !done when all its rows have been read.
LEMMA RowsDone ==
    ASSUME CallsInv, RowInv, [SessionNext]_sessionVars, NEW p \in Runners, fin'[p], ~fin[p]
    PROVE  ~Counting(p)' /\ re'[p] = sent[p] /\ Ended(CallOf(p)) /\ sent' = sent
  <1>0. /\ IInv /\ WireTypes /\ ModeInv /\ OwnInv /\ TypeOK /\ LoopInv /\ PhaseInv
        /\ p \in Call /\ CallOf(p) \in Entry /\ IsCall(CallOf(p)) /\ CallOf(p)[1] = p
        /\ CallOf(p) # None /\ Unread \in Seq(Sentence) /\ re[p] \in Nat
    BY CallFacts, EntryFacts, UnreadType DEF CallsInv, BaseInv, IInv, TypeOK, IsCall
  <1>1. ASSUME Counting(p), Unread # <<>>, Head(Unread).word = "done",
               Owner(CallOf(p), Head(Unread)), re'[p] = re[p],
               async \/ Len(Unread) = 1
        PROVE  re'[p] = sent[p] /\ Ended(CallOf(p))
    <2>1. Grows(Unread, tag[CallOf(p)], re[p], sent[p])
      BY <1>1 DEF RowInv
    <2>2. /\ Unread[1] = Head(Unread) /\ 1 \in DOMAIN Unread
          /\ Head(Unread).tag = tag[CallOf(p)] /\ ~IsRow(tag[CallOf(p)], Head(Unread))
      BY <1>0, <1>1 DEF Owner, IsRow
    <2>3. Grows(Tail(Unread), tag[CallOf(p)], re[p], sent[p])
      <3>1. Grows(Tail(Unread), tag[CallOf(p)],
                  IF IsRow(tag[CallOf(p)], Head(Unread)) THEN re[p] + 1 ELSE re[p], sent[p])
        BY <1>0, <1>1, <2>1, GrowsTail
      <3>. QED BY <2>2, <3>1
    <2>4. NoRows(Tail(Unread), tag[CallOf(p)])
      <3>. SUFFICES ASSUME NEW i \in 1 .. Len(Tail(Unread))
                    PROVE  ~IsRow(tag[CallOf(p)], Tail(Unread)[i])
        BY DEF NoRows
      <3>1. /\ i + 1 \in DOMAIN Unread /\ Tail(Unread)[i] = Unread[i + 1] /\ 1 < i + 1
            /\ Len(Unread) # 1
        BY <1>0, <1>1
      <3>2. Unread[1].tag = tag[CallOf(p)] /\ Unread[1].word # "re"
        BY <1>1, <2>2
      <3>. QED BY <2>2, <3>1, <3>2 DEF OwnInv, IsRow, CallsInv
    <2>5. Tail(Unread) \in Seq(Sentence)
      BY <1>0, <1>1
    <2>6. re[p] = sent[p]
      BY <2>3, <2>4, <2>5, GrewNothing
    <2>. QED BY <1>1, <2>6 DEF Owner
  <1>2. CASE Steps(p)
    <2>1. PICK sen \in Sentence : SyncRead(p, sen) /\ Receive(sen)
      <3>1. SSyncRead(p) /\ ~SyncReadErr(p)
        BY <1>2 DEF Steps, SRunCall, SRunLocal, SRunCtx, SRunSend, SSyncRead, RunCall, RunBegin,
           RunTag, RunRegister, RunFlush, SyncEnd, RunWake, RunDrained, RunCtx,
           SyncReadErr, replyVars
      <3>. QED BY <3>1 DEF SSyncRead
    <2>2. /\ sen.word = "done" /\ pc'[p] = "returned" /\ re'[p] = re[p] /\ sent' = sent
          /\ pc[p] = "sync" /\ UNCHANGED <<tag, tags, async>>
      BY <1>0, <2>1 DEF SyncRead, Receive, TypeOK, Return, ReplyDone, tagVars
    <2>3. /\ Owner(CallOf(p), sen) /\ Unread # <<>> /\ Head(Unread) = sen
      BY <1>0, <2>1, SyncOwner
    <2>4. ~async /\ 1 \in DOMAIN Unread /\ Unread[1] = sen
      BY <1>0, <2>2, <2>3 DEF ModeInv
    <2>5. Len(Unread) = 1
      BY <1>0, <2>2, <2>4 DEF OwnInv
    <2>6. ~Counting(p)'
      BY <1>0, <2>2, <2>4 DEF Counting, Lookup, ModeInv, Tag
    <2>. QED BY <1>1, <2>2, <2>3, <2>5, <2>6 DEF Counting
  <1>3. CASE SLoop /\ LoopProcessReply /\ lent = CallOf(p)
    <2>1. /\ lsen.word = "done" /\ re' = re /\ sent' = sent /\ lpc = "process"
          /\ lpc' = "delete" /\ lent' = lent /\ pc' = pc
      BY <1>0, <1>3 DEF LoopProcessReply, TypeOK, SLoop, wireVars, ReplyDone, ReplyErr
    <2>2. Owner(CallOf(p), lsen) /\ lsen = Head(Unread) /\ Unread # <<>>
      BY <1>0, <1>3, <2>1, InHandOwner
    <2>3. Counting(p) /\ async /\ pc[p] # "sync"
      BY <1>0, <1>3, <2>1 DEF Counting, LoopInv, Lookup, PhaseInv, ModeInv
    <2>4. ~Counting(p)'
      BY <1>3, <2>1, <2>3 DEF Counting
    <2>. QED BY <1>1, <2>1, <2>2, <2>3, <2>4
  <1>4. ~Same(p)
    BY DEF Same
  <1>. QED BY <1>0, <1>2, <1>3, <1>4, RunnerMoves DEF LoopClose, LoopCloseTags

\* Only the device sends.
LEMMA SentMoves == ASSUME [SessionNext]_sessionVars, ~DeviceNext PROVE sent' = sent
  <1>1. ASSUME NEW q \in Runners, Steps(q) PROVE sent' = sent
    BY <1>1 DEF Steps, SRunCall, SRunLocal, SRunCtx, SRunSend, SSyncRead, wireVars,
       Put2Wire, Receive, ReceiveErr
  <1>2. ASSUME NEW l \in Listeners, SListenCall(l) \/ SListenLocal(l) \/ SListenSend(l)
        PROVE  sent' = sent
    BY <1>2 DEF SListenCall, SListenLocal, SListenSend, wireVars, Put2Wire
  <1>3. ASSUME NEW q \in Call, SCancel(q) PROVE sent' = sent
    BY <1>3 DEF SCancel, wireVars, Put2Wire
  <1>4. ASSUME SLoop \/ SRead \/ SEnv \/ UNCHANGED sessionVars PROVE sent' = sent
    BY <1>4 DEF SLoop, SRead, SEnv, sessionVars, wireVars, Receive, ReceiveErr
  <1>. QED BY <1>1, <1>2, <1>3, <1>4 DEF SessionNext, DeviceNext, Steps

LEMMA StepRow ==
    ASSUME CallsInv, FreshInv, RowInv, [SessionNext]_sessionVars PROVE RowInv'
  <1>. SUFFICES ASSUME NEW p \in Runners
                PROVE  /\ Counting(p)' => ~fin'[p] /\ Grows(Unread', tag'[CallOf(p)],
                                                            re'[p], sent'[p])
                       /\ fin'[p] => re'[p] = sent'[p] /\ Ended(CallOf(p))'
    BY DEF RowInv
  <1>0. /\ IInv /\ WireTypes /\ ReqInv /\ DevMoves /\ TypeOK
        /\ p \in Call /\ CallOf(p) \in Entry /\ re[p] \in Nat
        /\ Unread \in Seq(Sentence)
    BY CallFacts, EntryFacts, DeviceMoves, UnreadType DEF CallsInv, BaseInv, IInv, TypeOK
  <1>1. Ended(CallOf(p)) => Ended(CallOf(p))'
    BY <1>0 DEF DevMoves, Ended
  <1>2. ASSUME Counting(p)' PROVE ~fin'[p]
    <2>1. ~fin[p]
      BY <1>0, <1>2, CountingMoves, RowsStart DEF RowInv, FreshInv, Fresh, RunRegister, SyncEnd
    <2>. QED BY <1>2, <2>1, RowsDone
  <1>3. ASSUME Counting(p)'
        PROVE  Grows(Unread', tag'[CallOf(p)], re'[p], sent'[p])
    <2>1. tag'[CallOf(p)] = tag[CallOf(p)]
      BY <1>0, <1>3, CountingMoves
    <2>2. CASE ~Counting(p)
      BY <1>0, <1>3, <2>1, <2>2, CountingMoves, RowsStart
    <2>3. CASE Counting(p) /\ DeviceNext
      <3>1. re' = re
        BY <2>3 DEF DeviceNext, DevTake, DevRow, DevEnd, vars, replyVars
      <3>. QED BY <2>1, <2>3, <3>1, RowsSent DEF RowInv
    <2>4. CASE Counting(p) /\ ~DeviceNext
      <3>1. sent' = sent
        BY <2>4, SentMoves
      <3>2. Grows(Unread, tag[CallOf(p)], re[p], sent[p])
        BY <2>4 DEF RowInv
      <3>3. CASE Unread' = Unread /\ re'[p] = re[p]
        BY <2>1, <3>1, <3>2, <3>3
      <3>4. CASE /\ Unread # <<>> /\ Unread' = Tail(Unread)
                 /\ re'[p] = IF IsRow(tag[CallOf(p)], Head(Unread)) THEN re[p] + 1 ELSE re[p]
        BY <1>0, <2>1, <3>1, <3>2, <3>4, GrowsTail
      <3>. QED BY <1>3, <2>4, <3>3, <3>4, RowsRead
    <2>. QED BY <2>2, <2>3, <2>4
  <1>4. ASSUME fin'[p] PROVE re'[p] = sent'[p] /\ Ended(CallOf(p))'
    <2>1. CASE ~fin[p]
      BY <1>1, <1>4, <2>1, RowsDone
    <2>2. CASE fin[p]
      <3>1. re[p] = sent[p] /\ Ended(CallOf(p)) /\ ~Counting(p)
        BY <2>2 DEF RowInv
      <3>2. sent'[p] = sent[p]
        <4>1. dev[CallOf(p)] # "running"
          BY <3>1 DEF Ended
        <4>2. CASE DeviceNext
          BY <1>0, <4>1, <4>2 DEF DeviceNext, DevTake, DevRow, DevEnd, WireTypes
        <4>3. CASE ~DeviceNext
          BY <4>3, SentMoves
        <4>. QED BY <4>2, <4>3
      <3>3. re'[p] = re[p]
        <4>1. CASE Steps(p)
          <5>1. pc[p] # "sync"
            BY <3>1 DEF Counting
          <5>. QED BY <4>1, <5>1 DEF Steps, SRunCall, SRunLocal, SRunCtx, SRunSend, SSyncRead,
               RunCall, RunBegin, RunTag, RunRegister, RunFlush, SyncEnd, RunWake,
               RunDrained, RunCtx, SyncRead, SyncReadErr, replyVars
        <4>2. ~(LoopProcessReply /\ lent = CallOf(p))
          BY <1>0, <3>1 DEF LoopProcessReply, Counting, Lookup, IInv, LoopInv
        <4>. QED BY <1>0, <4>1, <4>2, RunnerMoves DEF Same, LoopClose, LoopCloseTags
      <3>. QED BY <1>1, <3>1, <3>2, <3>3
    <2>. QED BY <2>1, <2>2
  <1>. QED BY <1>2, <1>3, <1>4

-----------------------------------------------------------------------------
(* The promises of Run.                                                    *)

AllInv == CallsInv /\ FreshInv /\ EndInv /\ RowInv

LEMMA InitAll == SessionInit => AllInv
  <1>. SUFFICES ASSUME SessionInit PROVE AllInv
    OBVIOUS
  <1>1. Init /\ BaseInv /\ TypeOK /\ WireTypes
    BY InitBase DEF SessionInit, BaseInv, IInv
  <1>2. ModeInv /\ CancelTagInv /\ FreshInv /\ EndInv
    <2>1. ModeInv
      BY <1>1, CallFacts DEF ModeInv, SyncPC, Busy, Init
    <2>2. CancelTagInv /\ FreshInv
      BY <1>1, CallFacts DEF CancelTagInv, FreshInv, Init
    <2>3. EndInv
      BY <1>1, CallFacts, EntryFacts DEF EndInv, Init
    <2>. QED BY <2>1, <2>2, <2>3
  <1>3. Unread = <<>> /\ DOMAIN Unread = {}
    <2>1. ~InHand /\ fromDev = <<>>
      BY <1>1 DEF Init, SessionInit, InHand
    <2>2. Unread = <<>>
      BY <2>1 DEF Unread
    <2>. QED BY <2>2
  <1>4. OwnInv
    BY <1>3 DEF OwnInv, SessionInit, OnWire
  <1>5. RowInv
    <2>1. \A p \in Runners : pc[p] # "sync" /\ ~fin[p]
      BY <1>1, CallFacts DEF Init
    <2>2. lpc = "off"
      BY <1>1 DEF Init
    <2>. QED BY <2>1, <2>2 DEF RowInv, Counting
  <1>. QED BY <1>1, <1>2, <1>4, <1>5 DEF AllInv, CallsInv

LEMMA StepAll == ASSUME ~Overlap PROVE AllInv /\ [SessionNext]_sessionVars => AllInv'
  <1>. SUFFICES ASSUME AllInv, [SessionNext]_sessionVars PROVE AllInv'
    OBVIOUS
  <1>1. CallsInv /\ BaseInv /\ IInv /\ TypeOK
    BY DEF AllInv, CallsInv, BaseInv, IInv
  <1>2. CallsInv'
    BY <1>1, StepBase, StepMode, StepCancelTag, StepOwn DEF CallsInv
  <1>3. FreshInv' /\ EndInv' /\ RowInv'
    BY <1>1, StepFresh, StepEnd, StepRow DEF AllInv
  <1>. QED BY <1>2, <1>3 DEF AllInv

LEMMA All == ASSUME ~Overlap PROVE SafetySpec => []AllInv
  <1>1. AllInv /\ [SessionNext]_sessionVars => AllInv'
    BY StepAll
  <1>. QED BY <1>1, InitAll, PTL DEF SafetySpec

\* A run that ends well holds exactly the rows that the device sent for it: no
\* row of its reply is lost, none is taken from another command, however the
\* rows of all of them are mixed on the one connection (asyncLoop,
\* runArgsContextSync).
THEOREM RepliesAreWhole == ASSUME ~Overlap PROVE SafetySpec => []AllRows
  <1>1. AllInv => AllRows
    BY DEF AllInv, RowInv, AllRows
  <1>. QED BY <1>1, All, PTL

\* A run that returns with its result, with the device's error, or because its
\* context ended leaves no command behind that the device still executes.
THEOREM ReturnsAreFinal == ASSUME ~Overlap PROVE SafetySpec => []NothingLeftRunning
  <1>1. AllInv => NothingLeftRunning
    BY DEF AllInv, EndInv, NothingLeftRunning, Ended
  <1>. QED BY <1>1, All, PTL
=============================================================================
