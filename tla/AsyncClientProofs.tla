-------------------------- MODULE AsyncClientProofs --------------------------
(***************************************************************************)
(* TLAPS proofs about AsyncClient, for every set of calls, queue capacity  *)
(* and number of tags: the invariant IInv is inductive, and the properties *)
(* of AsyncClient follow from it.                                          *)
(*                                                                         *)
(* Most actions only move a caller along; lemma TableFrame shows that they *)
(* leave the invariants on c.tags intact.  Lemma TableRegister does it for *)
(* the three that put an entry in c.tags.  The actions of asyncLoop and    *)
(* the failed write, which remove entries, are treated one by one.         *)
(***************************************************************************)
EXTENDS AsyncClient, TLAPS

USE DEF lockVars, tagVars, replyVars, listenVars, loopVars, Goto, Return

\* An entry is a call or the cancel of a call.
LEMMA EntryFacts ==
    /\ \A p \in Call : CallOf(p) \in Entry /\ CancelOf(p) \in Entry
    /\ \A e \in Entry : /\ e[1] \in Call /\ e[2] \in {"call", "cancel"}
                        /\ e[2] = "call" => e = CallOf(e[1])
                        /\ e[2] = "cancel" => e = CancelOf(e[1])
    /\ \A p \in Call : /\ CallOf(p)[1] = p /\ CallOf(p)[2] = "call"
                       /\ CancelOf(p)[1] = p /\ CancelOf(p)[2] = "cancel"
BY DEF Entry, CallOf, CancelOf

\* A call is a runner or a listener, never both.
LEMMA CallFacts ==
    /\ \A p \in Runners : p \in Call /\ p \notin Listeners
    /\ \A l \in Listeners : l \in Call /\ l \notin Runners
    /\ \A p \in Call : p \in Runners \/ p \in Listeners
    /\ None \notin Call /\ None \notin Entry
BY CallAssumption DEF Call

\* The blank sentence is a sentence.
LEMMA NoSentenceType == NoSentence \in Sentence
BY BoundAssumption DEF NoSentence, Sentence, Word

-----------------------------------------------------------------------------
(* The invariants on c.tags and what asyncLoop takes from it.              *)

TableInv == RegInv /\ LoopInv /\ ClosedInv /\ NoOrphan

\* No waiter appears or is lost, and no registered request is forgotten.
CallersAdvance ==
    /\ \A e \in Entry : Live(e) => Live(e)' \/ (IsCall(e) /\ closed[e])
    /\ \A p \in Call : Waiting(p) \/ pc[p] = "returned" =>
                       Waiting(p)' \/ pc'[p] = "returned"

\* The table invariants survive a step that leaves c.tags, the channels and the
\* loop alone and only moves callers along.
LEMMA TableFrame ==
    ASSUME TypeOK, TableInv, CallersAdvance,
           UNCHANGED <<tagsNil, tags, closed, lpc, lsen, lent>>,
           \A e \in Entry : Live(e) => tag'[e] = tag[e],
           \A p \in Call : Waiting(p)' => Waiting(p),
           \A p \in Runners : pc'[p] = "flush" => pc[p] = "flush"
    PROVE  TableInv'
<1>1. RegInv'
  <2>1. ASSUME NEW t \in Tag, tags[t] # None
        PROVE  tag'[tags[t]] = t /\ ~closed[tags[t]] /\ Live(tags[t])'
    BY <2>1 DEF TableInv, RegInv, TypeOK, CallersAdvance
  <2>2. \A p \in Runners : Live(CallOf(p)) <=> pc[p] \in {"flush", "wait", "drain"}
    BY EntryFacts, CallFacts DEF Live, IsCall, IsListen
  <2>3. ASSUME NEW p \in Runners, pc'[p] = "flush"
        PROVE  Lookup(tag[CallOf(p)])' = CallOf(p)
    BY <2>2, <2>3, EntryFacts, CallFacts DEF TableInv, RegInv, Lookup
  <2>. QED BY <2>1, <2>3 DEF RegInv, TableInv
<1>2. LoopInv'
  BY EntryFacts, CallFacts DEF TableInv, LoopInv, CallersAdvance, Live, IsCall, IsListen
<1>3. ClosedInv'
  BY EntryFacts, CallFacts DEF TableInv, ClosedInv, CallersAdvance, IsCall
<1>4. NoOrphan'
  <2>1. \A p \in Call : Waiting(p) => Live(CallOf(p))
    BY EntryFacts, CallFacts DEF Live, IsCall, IsListen, Waiting, TypeOK, RunPC, ListenPC
  <2>. QED BY <2>1, EntryFacts DEF TableInv, NoOrphan, Lookup
<1>. QED BY <1>1, <1>2, <1>3, <1>4 DEF TableInv

\* The table invariants survive the registration of a fresh, live entry.
LEMMA TableRegister ==
    ASSUME TypeOK, TableInv, CallersAdvance,
           NEW e0 \in Entry, NEW t0 \in Tag, 
           ~Live(e0), ~closed[e0], Live(e0)', ~tagsNil,
           UNCHANGED <<tagsNil, closed, lpc, lsen, lent>>,
           tags' = [tags EXCEPT ![t0] = e0],
           tag'[e0] = t0,
           \A e \in Entry \ {e0} : tag'[e] = tag[e] /\ tag[e] # t0,
           \A p \in Call : Waiting(p)' => Waiting(p) \/ CallOf(p) = e0,
           \A p \in Runners : pc'[p] = "flush" => pc[p] = "flush" \/ CallOf(p) = e0
    PROVE  TableInv'
<1>0. None \notin Entry BY CallFacts
<1>1. RegInv'
  <2>1. ASSUME NEW t \in Tag, tags'[t] # None
        PROVE  (tag[tags[t]] = t /\ ~closed[tags[t]] /\ Live(tags[t]))'
    <3>1. CASE t = t0
      <4>1. tags'[t] = e0 BY <3>1 DEF TypeOK
      <4>. QED BY <3>1, <4>1 DEF Live, IsCall, IsListen
    <3>2. CASE t # t0
      <4>1. tags'[t] = tags[t] BY <3>2 DEF TypeOK
      <4>2. tags[t] \in Entry \ {e0} BY <2>1, <4>1 DEF TypeOK, TableInv, RegInv
      <4>. QED BY <2>1, <4>1, <4>2 DEF TableInv, RegInv, CallersAdvance, Live, IsCall, IsListen
    <3>. QED BY <3>1, <3>2
  <2>3. ASSUME NEW p \in Runners, pc'[p] = "flush"
        PROVE  Lookup(tag[CallOf(p)])' = CallOf(p)
    <3>1. CASE CallOf(p) = e0 BY <3>1 DEF Lookup, TypeOK
    <3>2. CASE CallOf(p) # e0 
        <4>1. Lookup(tag[CallOf(p)]) = CallOf(p) /\ CallOf(p) \in Entry BY <2>3, <3>2, EntryFacts, CallFacts DEF RegInv, TableInv
        <4>2. tag'[CallOf(p)] = tag[CallOf(p)] /\ tag[CallOf(p)] # t0 BY <3>2, <4>1
        <4>. QED  BY <4>1, <4>2, <3>2, CallFacts DEF  TypeOK, Lookup
    <3>. QED BY <3>1, <3>2
  <2>4. ~tagsNil' OBVIOUS
  <2>. QED BY <2>1, <2>3, <2>4 DEF RegInv
<1>2. LoopInv'
  <2> SUFFICES ASSUME lpc \in {"process", "delete", "close"} PROVE LoopInv' BY DEF LoopInv
  <2>1. lent \in Entry \ {e0} BY DEF TableInv, LoopInv
  <2>2. tag[lent] = lsen.tag /\ lsen.tag # t0 /\ lsen.tag \in Tag BY <2>1 DEF TableInv, LoopInv
  <2>3. tags'[lsen.tag] = tags[lsen.tag] BY <2>2 DEF TypeOK
  <2>4. IsCall(lent) => pc'[lent[1]] # "flush"
     BY <2>1, EntryFacts, CallFacts DEF TableInv, LoopInv, CallersAdvance, Live, IsCall, IsListen
  <2>. QED BY <2>1, <2>2, <2>3, <2>4 DEF TableInv, LoopInv, CallersAdvance
<1>3. ClosedInv'
  BY EntryFacts, CallFacts DEF TableInv, ClosedInv, CallersAdvance, IsCall
<1>4. NoOrphan'
  <2> SUFFICES ASSUME NEW p \in Call, Waiting(p)', ~closed[CallOf(p)]
               PROVE \/ Lookup(tag[CallOf(p)])' = CallOf(p)
                     \/ lpc = "close" /\ lent = CallOf(p)
     BY DEF NoOrphan
  <2>1. CASE CallOf(p) = e0 BY <2>1 DEF Lookup, TypeOK
  <2>2. CASE CallOf(p) # e0
    <3>1. CallOf(p) \in Entry BY EntryFacts
    <3>2. tag'[CallOf(p)] = tag[CallOf(p)] /\ tag[CallOf(p)] # t0 BY <2>2, <3>1
    <3>3. Waiting(p) BY <2>2
    <3>. QED BY <2>2, <3>1, <3>2, <3>3 DEF TableInv, NoOrphan, Lookup, TypeOK
  <2>. QED BY <2>1, <2>2
<1>. QED BY <1>1, <1>2, <1>3, <1>4 DEF TableInv
-----------------------------------------------------------------------------
(* The other parts of IInv, and steps that leave most of it alone.         *)

OutcomeInv == PhaseInv /\ StopInv /\ DoneInv /\ CleanEnd /\ NoPanic

\* The invariants on outcomes survive a step that changes no reply.
LEMMA OutcomeFrame ==
    ASSUME OutcomeInv,
           UNCHANGED <<async, closing, tagsNil, closed, err, fin, stop, lpc,
                       lent, lerr, panicked>>,
           \A p \in Runners : res'[p] = "ok" => res[p] = "ok"
    PROVE  OutcomeInv'
BY DEF OutcomeInv, PhaseInv, StopInv, DoneInv, CleanEnd, NoPanic, IsCall

\* IInv in the groups the step lemmas work with.
LEMMA IInvSplit ==
    IInv <=> TypeOK /\ LockInv /\ TagInv /\ CancelInv /\ TableInv /\ OutcomeInv
BY DEF IInv, TableInv, OutcomeInv

-----------------------------------------------------------------------------
(* RunArgsContext.                                                         *)

\* A call of Run starts.
LEMMA RunCallStep ==
    ASSUME IInv, NEW p \in Runners, RunCall(p) PROVE IInv'
<1> USE IInvSplit, EntryFacts, CallFacts DEF RunCall
<1>1. TypeOK' BY DEF TypeOK, RunPC
<1>2. LockInv' BY DEF TypeOK, LockInv, Writing, IsCall
<1>3. TagInv' /\ CancelInv' BY DEF TypeOK, TagInv, CancelInv, HasTag
<1>4. CallersAdvance
  BY DEF TypeOK, CallersAdvance, Live, IsCall, IsListen, Waiting
<1>5. TableInv' BY <1>4, TableFrame DEF TypeOK, Waiting
<1>6. OutcomeInv' BY OutcomeFrame
<1>. QED BY <1>1, <1>2, <1>3, <1>5, <1>6 DEF IInv, TableInv, OutcomeInv

\* BeginSentence of a run takes the free writer lock.
LEMMA RunBeginStep ==
    ASSUME IInv, NEW p \in Runners, RunBegin(p) PROVE IInv'
<1> USE IInvSplit, EntryFacts, CallFacts DEF RunBegin, BeginSentence
<1>1. TypeOK' BY DEF TypeOK, RunPC
<1>2. LockInv' BY DEF TypeOK, LockInv, Writing, IsCall
<1>3. TagInv' /\ CancelInv' BY DEF TypeOK, TagInv, CancelInv, HasTag
<1>4. CallersAdvance
  BY DEF TypeOK, CallersAdvance, Live, IsCall, IsListen, Waiting
<1>5. TableInv' BY <1>4, TableFrame DEF TypeOK, Waiting
<1>6. OutcomeInv' BY OutcomeFrame
<1>. QED BY <1>1, <1>2, <1>3, <1>5, <1>6 DEF IInv, TableInv, OutcomeInv

\* A run draws a fresh tag, or turns synchronous.
LEMMA RunTagStep ==
    ASSUME IInv, NEW p \in Runners, RunTag(p) PROVE IInv'
<1> USE IInvSplit, EntryFacts, CallFacts
<1>1. CASE ~async
  <2>1. /\ UNCHANGED <<async, closing, conn, lockVars, tagVars, replyVars,
                       listenVars, ctxDone, cpc, res, loopVars, panicked>>
        /\ pc[p] = "begun" /\ pc' = [pc EXCEPT ![p] = "syncEnd"]
    BY <1>1 DEF RunTag
  <2> USE <1>1, <2>1
  <2>2. TypeOK' BY DEF TypeOK, RunPC
  <2>3. LockInv' BY DEF TypeOK, LockInv, Writing, IsCall
  <2>4. TagInv' /\ CancelInv' BY DEF TypeOK, TagInv, CancelInv, HasTag
  <2>5. CallersAdvance
    BY DEF TypeOK, CallersAdvance, Live, IsCall, IsListen, Waiting
  <2>6. TableInv' BY <2>5, TableFrame DEF TypeOK, Waiting
  <2>7. OutcomeInv' BY OutcomeFrame
  <2>. QED BY <2>2, <2>3, <2>4, <2>6, <2>7 DEF IInv, TableInv, OutcomeInv
<1>2. CASE async
  <2>1. /\ UNCHANGED <<async, closing, conn, lockVars, tagsNil, tags,
                       replyVars, listenVars, ctxDone, cpc, res, loopVars,
                       panicked>>
        /\ pc[p] = "begun" /\ pc' = [pc EXCEPT ![p] = "tagged"]
        /\ IncrementTag(CallOf(p))
    BY <1>2 DEF RunTag
  <2> USE <1>2, <2>1
  <2>2. TypeOK' BY BoundAssumption DEF TypeOK, RunPC, IncrementTag, NextTag
  <2>3. LockInv' BY DEF TypeOK, LockInv, Writing, IsCall
  <2>4. TagInv' /\ CancelInv'
    BY BoundAssumption DEF TypeOK, TagInv, CancelInv, HasTag, IncrementTag,
       NextTag
  <2>5. CallersAdvance
    BY DEF TypeOK, CallersAdvance, Live, IsCall, IsListen, Waiting
  <2>6. \A e \in Entry : Live(e) => tag'[e] = tag[e]
    BY DEF TypeOK, Live, IsCall, IsListen, IncrementTag
  <2>7. TableInv' BY <2>5, <2>6, TableFrame DEF TypeOK, Waiting
  <2>8. OutcomeInv' BY OutcomeFrame
  <2>. QED BY <2>2, <2>3, <2>4, <2>7, <2>8 DEF IInv, TableInv, OutcomeInv
<1>. QED BY <1>1, <1>2

\* A run registers its entry, or finds the loop ended.
LEMMA RunRegisterStep ==
    ASSUME IInv, NEW p \in Runners, RunRegister(p) PROVE IInv'
<1> USE IInvSplit, EntryFacts, CallFacts
<1>1. CASE tagsNil
  <2>1. /\ UNCHANGED <<async, closing, conn, lockVars, tagVars, replyVars,
                       listenVars, ctxDone, cpc, loopVars, panicked>>
        /\ pc[p] = "tagged" /\ pc' = [pc EXCEPT ![p] = "returned"]
        /\ res' = [res EXCEPT ![p] = "ended"]
    BY <1>1 DEF RunRegister, Put
  <2> USE <1>1, <2>1
  <2>2. TypeOK' BY DEF TypeOK, RunPC, Result
  <2>3. LockInv' BY DEF TypeOK, LockInv, Writing, IsCall
  <2>4. TagInv' /\ CancelInv' BY DEF TypeOK, TagInv, CancelInv, HasTag
  <2>5. CallersAdvance
    BY DEF TypeOK, CallersAdvance, Live, IsCall, IsListen, Waiting
  <2>6. TableInv' BY <2>5, TableFrame DEF TypeOK, Waiting
  <2>7. OutcomeInv' BY OutcomeFrame DEF TypeOK
  <2>. QED BY <2>2, <2>3, <2>4, <2>6, <2>7 DEF IInv, TableInv, OutcomeInv
<1>2. CASE ~tagsNil
  <2>1. /\ UNCHANGED <<async, closing, conn, wlock, werr, nextTag, tag,
                       tagsNil, replyVars, listenVars, ctxDone, cpc, res,
                       loopVars, panicked>>
        /\ pc[p] = "tagged" /\ pc' = [pc EXCEPT ![p] = "flush"]
        /\ mu = None /\ mu' = p
        /\ tags' = [tags EXCEPT ![tag[CallOf(p)]] = CallOf(p)]
    BY <1>2 DEF RunRegister, Put
  <2> USE <1>2, <2>1
  <2>2. tags' \in [Tag -> Entry \cup {None}] BY DEF TypeOK
  <2>3. TypeOK' BY <2>2 DEF TypeOK, RunPC
  <2>4. LockInv' BY DEF TypeOK, LockInv, Writing, IsCall
  <2>5. TagInv' /\ CancelInv' BY DEF TypeOK, TagInv, CancelInv, HasTag
  <2>6. CallersAdvance
    BY DEF TypeOK, CancelInv, CallersAdvance, Live, IsCall, IsListen, Waiting
  <2>7. ~Live(CallOf(p)) /\ Live(CallOf(p))' /\ ~closed[CallOf(p)]
    BY DEF TypeOK, CancelInv, TableInv, ClosedInv, Live, IsCall, IsListen,
       Waiting
  <2>8. tag[CallOf(p)] \in Tag /\ tag'[CallOf(p)] = tag[CallOf(p)]
    BY BoundAssumption DEF TypeOK, TagInv, HasTag, Tag
  <2>9. \A e \in Entry \ {CallOf(p)} : tag'[e] = tag[e] /\ tag[e] # tag[CallOf(p)]
    BY <2>8, BoundAssumption DEF TypeOK, TagInv, HasTag, Tag
  <2>10. \A q \in Call : Waiting(q)' => Waiting(q) \/ CallOf(q) = CallOf(p)
    BY DEF TypeOK, Waiting
  <2>11. \A q \in Runners : pc'[q] = "flush" => pc[q] = "flush" \/ CallOf(q) = CallOf(p)
    BY DEF TypeOK
  <2>12. TableInv' BY <2>6, <2>7, <2>8, <2>9, <2>10, <2>11, TableRegister
  <2>13. OutcomeInv' BY OutcomeFrame
  <2>. QED BY <2>3, <2>4, <2>5, <2>12, <2>13 DEF IInv, TableInv, OutcomeInv
<1>. QED BY <1>1, <1>2

\* A run ends its sentence, or withdraws its entry after a failed write.
LEMMA RunFlushStep ==
    ASSUME IInv, NEW p \in Runners, NEW ok \in BOOLEAN, RunFlush(p, ok) PROVE
           IInv'
<1> USE IInvSplit, EntryFacts, CallFacts
<1>1. CASE ok
  <2>1. /\ UNCHANGED <<async, closing, conn, tagVars, replyVars, listenVars,
                       ctxDone, cpc, res, loopVars, panicked>>
        /\ pc[p] = "flush" /\ pc' = [pc EXCEPT ![p] = "wait"]
        /\ wlock' = None /\ werr' \in BOOLEAN /\ mu' = None
    BY <1>1 DEF RunFlush, EndSentence, Delete, TypeOK
  <2> USE <1>1, <2>1
  <2>2. \A e \in Entry : Live(e) <=> Live(e)'
    BY DEF TypeOK, Live, IsCall, IsListen
  <2>3. TypeOK' BY <2>2 DEF TypeOK, RunPC
  <2>4. LockInv' BY DEF TypeOK, LockInv, Writing, IsCall
  <2>5. TagInv' /\ CancelInv' BY DEF TypeOK, TagInv, CancelInv, HasTag
  <2>6. RegInv' BY <2>2 DEF TypeOK, TableInv, RegInv, Lookup
  <2>7. LoopInv' BY <2>2 DEF TypeOK, TableInv, LoopInv, IsCall
  <2>8. ClosedInv' BY <2>2 DEF TypeOK, TableInv, ClosedInv, IsCall, Waiting
  <2>9. NoOrphan' BY DEF TypeOK, TableInv, RegInv, NoOrphan, Waiting, Lookup
  <2>10. OutcomeInv' BY OutcomeFrame
  <2>. QED BY <2>3, <2>4, <2>5, <2>6, <2>7, <2>8, <2>9, <2>10 DEF IInv,
       TableInv, OutcomeInv
<1>2. CASE ~ok
  <2>1. /\ UNCHANGED <<async, closing, conn, nextTag, tag, tagsNil, replyVars,
                       listenVars, ctxDone, cpc, loopVars, panicked>>
        /\ pc[p] = "flush" /\ pc' = [pc EXCEPT ![p] = "returned"]
        /\ wlock' = None /\ werr' \in BOOLEAN /\ mu' = None
        /\ tags' = [tags EXCEPT ![tag[CallOf(p)]] = None]
        /\ res' = [res EXCEPT ![p] = "write"]
    BY <1>2 DEF RunFlush, EndSentence, Delete, TypeOK
  <2> USE <1>2, <2>1
  <2>2. tag[CallOf(p)] \in Tag
    BY BoundAssumption DEF TypeOK, TagInv, HasTag, Tag
  <2>3. \A e \in Entry \ {CallOf(p)} : (Live(e) <=> Live(e)') /\ tag[e] # tag[CallOf(p)]
    BY <2>2 DEF TypeOK, TagInv, Tag, Live, IsCall, IsListen
  <2>4. TypeOK' BY <2>2, <2>3 DEF TypeOK, RunPC, Result
  <2>5. LockInv' BY DEF TypeOK, LockInv, Writing, IsCall
  <2>6. TagInv' /\ CancelInv' BY DEF TypeOK, TagInv, CancelInv, HasTag
  <2>7. RegInv' BY <2>2, <2>3 DEF TypeOK, TableInv, RegInv, LockInv, Lookup
  <2>8. LoopInv' BY <2>2, <2>3 DEF TypeOK, TableInv, LoopInv, IsCall
  <2>9. ClosedInv'
    BY <2>2, <2>3 DEF TypeOK, TableInv, ClosedInv, IsCall, Waiting
  <2>10. NoOrphan'
    BY <2>2, <2>3 DEF TypeOK, TableInv, NoOrphan, Waiting, Lookup
  <2>11. OutcomeInv' BY OutcomeFrame DEF TypeOK
  <2>. QED BY <2>4, <2>5, <2>6, <2>7, <2>8, <2>9, <2>10, <2>11 DEF IInv,
       TableInv, OutcomeInv
<1>. QED BY <1>1, <1>2

\* A run returns once its channel is closed.
LEMMA RunWakeStep ==
    ASSUME IInv, NEW p \in Runners, RunWake(p) PROVE IInv'
<1> USE IInvSplit, EntryFacts, CallFacts
<1>1. CASE err[p] = "none"
  <2>1. /\ UNCHANGED <<async, closing, conn, lockVars, tagVars, replyVars,
                       listenVars, ctxDone, cpc, loopVars, panicked>>
        /\ pc[p] = "wait" /\ pc' = [pc EXCEPT ![p] = "returned"] /\
           closed[CallOf(p)]
        /\ res' = [res EXCEPT ![p] = "ok"]
    BY <1>1 DEF RunWake
  <2> USE <1>1, <2>1
  <2>2. TypeOK' BY DEF TypeOK, RunPC, Result
  <2>3. LockInv' BY DEF TypeOK, LockInv, Writing, IsCall
  <2>4. TagInv' /\ CancelInv' BY DEF TypeOK, TagInv, CancelInv, HasTag
  <2>5. CallersAdvance
    BY DEF TypeOK, CallersAdvance, Live, IsCall, IsListen, Waiting
  <2>6. TableInv' BY <2>5, TableFrame DEF TypeOK, Waiting
  <2>7. PhaseInv' /\ StopInv' /\ DoneInv' /\ NoPanic'
    BY DEF OutcomeInv, PhaseInv, StopInv, DoneInv, NoPanic, IsCall
  <2>8. CleanEnd' BY DEF TypeOK, OutcomeInv, CleanEnd
  <2>. QED BY <2>2, <2>3, <2>4, <2>6, <2>7, <2>8 DEF IInv, TableInv,
       OutcomeInv
<1>2. CASE err[p] # "none"
  <2>1. /\ UNCHANGED <<async, closing, conn, lockVars, tagVars, replyVars,
                       listenVars, ctxDone, cpc, loopVars, panicked>>
        /\ pc[p] = "wait" /\ pc' = [pc EXCEPT ![p] = "returned"] /\
           closed[CallOf(p)]
        /\ res' = [res EXCEPT ![p] = err[p]]
    BY <1>2 DEF RunWake
  <2> USE <1>2, <2>1
  <2>2. TypeOK' BY DEF TypeOK, RunPC, Result, Err
  <2>3. LockInv' BY DEF TypeOK, LockInv, Writing, IsCall
  <2>4. TagInv' /\ CancelInv' BY DEF TypeOK, TagInv, CancelInv, HasTag
  <2>5. CallersAdvance
    BY DEF TypeOK, CallersAdvance, Live, IsCall, IsListen, Waiting
  <2>6. TableInv' BY <2>5, TableFrame DEF TypeOK, Waiting
  <2>7. PhaseInv' /\ StopInv' /\ DoneInv' /\ NoPanic'
    BY DEF OutcomeInv, PhaseInv, StopInv, DoneInv, NoPanic, IsCall
  <2>8. CleanEnd' BY DEF TypeOK, OutcomeInv, CleanEnd, Err
  <2>. QED BY <2>2, <2>3, <2>4, <2>6, <2>7, <2>8 DEF IInv, TableInv,
       OutcomeInv
<1>. QED BY <1>1, <1>2

\* A cancelled run returns once its channel is closed.
LEMMA RunDrainedStep ==
    ASSUME IInv, NEW p \in Runners, RunDrained(p) PROVE IInv'
<1> USE IInvSplit, EntryFacts, CallFacts
<1>1. CASE err[p] = "none"
  <2>1. /\ UNCHANGED <<async, closing, conn, lockVars, tagVars, replyVars,
                       listenVars, ctxDone, cpc, loopVars, panicked>>
        /\ pc[p] = "drain" /\ pc' = [pc EXCEPT ![p] = "returned"] /\
           closed[CallOf(p)]
        /\ res' = [res EXCEPT ![p] = "ctx"]
    BY <1>1 DEF RunDrained
  <2> USE <1>1, <2>1
  <2>2. TypeOK' BY DEF TypeOK, RunPC, Result
  <2>3. LockInv' BY DEF TypeOK, LockInv, Writing, IsCall
  <2>4. TagInv' /\ CancelInv' BY DEF TypeOK, TagInv, CancelInv, HasTag
  <2>5. CallersAdvance
    BY DEF TypeOK, CallersAdvance, Live, IsCall, IsListen, Waiting
  <2>6. TableInv' BY <2>5, TableFrame DEF TypeOK, Waiting
  <2>7. PhaseInv' /\ StopInv' /\ DoneInv' /\ NoPanic'
    BY DEF OutcomeInv, PhaseInv, StopInv, DoneInv, NoPanic, IsCall
  <2>8. CleanEnd' BY DEF TypeOK, OutcomeInv, CleanEnd
  <2>. QED BY <2>2, <2>3, <2>4, <2>6, <2>7, <2>8 DEF IInv, TableInv,
       OutcomeInv
<1>2. CASE err[p] # "none"
  <2>1. /\ UNCHANGED <<async, closing, conn, lockVars, tagVars, replyVars,
                       listenVars, ctxDone, cpc, loopVars, panicked>>
        /\ pc[p] = "drain" /\ pc' = [pc EXCEPT ![p] = "returned"] /\
           closed[CallOf(p)]
        /\ res' = [res EXCEPT ![p] = err[p]]
    BY <1>2 DEF RunDrained
  <2> USE <1>2, <2>1
  <2>2. TypeOK' BY DEF TypeOK, RunPC, Result, Err
  <2>3. LockInv' BY DEF TypeOK, LockInv, Writing, IsCall
  <2>4. TagInv' /\ CancelInv' BY DEF TypeOK, TagInv, CancelInv, HasTag
  <2>5. CallersAdvance
    BY DEF TypeOK, CallersAdvance, Live, IsCall, IsListen, Waiting
  <2>6. TableInv' BY <2>5, TableFrame DEF TypeOK, Waiting
  <2>7. PhaseInv' /\ StopInv' /\ DoneInv' /\ NoPanic'
    BY DEF OutcomeInv, PhaseInv, StopInv, DoneInv, NoPanic, IsCall
  <2>8. CleanEnd' BY DEF TypeOK, OutcomeInv, CleanEnd, Err
  <2>. QED BY <2>2, <2>3, <2>4, <2>6, <2>7, <2>8 DEF IInv, TableInv,
       OutcomeInv
<1>. QED BY <1>1, <1>2

\* A waiting run turns to cancelTag.
LEMMA RunCtxStep ==
    ASSUME IInv, NEW p \in Runners, RunCtx(p) PROVE IInv'
<1> USE IInvSplit, EntryFacts, CallFacts DEF RunCtx
<1>1. TypeOK' BY DEF TypeOK, RunPC, CancelPC
<1>2. LockInv' BY DEF TypeOK, LockInv, Writing, IsCall
<1>3. TagInv' /\ CancelInv' BY DEF TypeOK, TagInv, CancelInv, HasTag
<1>4. CallersAdvance
  BY DEF TypeOK, CallersAdvance, Live, IsCall, IsListen, Waiting, CancelInv
<1>5. TableInv' BY <1>4, TableFrame DEF TypeOK, Waiting
<1>6. OutcomeInv' BY OutcomeFrame
<1>. QED BY <1>1, <1>2, <1>3, <1>5, <1>6 DEF IInv, TableInv, OutcomeInv

\* A synchronous run ends its sentence.
LEMMA SyncEndStep ==
    ASSUME IInv, NEW p \in Runners, NEW ok \in BOOLEAN, SyncEnd(p, ok) PROVE
           IInv'
<1> USE IInvSplit, EntryFacts, CallFacts
<1>1. CASE ok
  <2>1. /\ UNCHANGED <<async, closing, conn, mu, tagVars, replyVars,
                       listenVars, ctxDone, cpc, res, loopVars, panicked>>
        /\ pc[p] = "syncEnd" /\ pc' = [pc EXCEPT ![p] = "sync"]
        /\ wlock' = None /\ werr' \in BOOLEAN
    BY <1>1 DEF SyncEnd, EndSentence, TypeOK
  <2> USE <1>1, <2>1
  <2>2. TypeOK' BY DEF TypeOK, RunPC
  <2>3. LockInv' BY DEF TypeOK, LockInv, Writing, IsCall
  <2>4. TagInv' /\ CancelInv' BY DEF TypeOK, TagInv, CancelInv, HasTag
  <2>5. CallersAdvance
    BY DEF TypeOK, CallersAdvance, Live, IsCall, IsListen, Waiting
  <2>6. TableInv' BY <2>5, TableFrame DEF TypeOK, Waiting
  <2>7. OutcomeInv' BY OutcomeFrame
  <2>. QED BY <2>2, <2>3, <2>4, <2>6, <2>7 DEF IInv, TableInv, OutcomeInv
<1>2. CASE ~ok
  <2>1. /\ UNCHANGED <<async, closing, conn, mu, tagVars, replyVars,
                       listenVars, ctxDone, cpc, loopVars, panicked>>
        /\ pc[p] = "syncEnd" /\ pc' = [pc EXCEPT ![p] = "returned"]
        /\ wlock' = None /\ werr' \in BOOLEAN
        /\ res' = [res EXCEPT ![p] = "write"]
    BY <1>2 DEF SyncEnd, EndSentence, TypeOK
  <2> USE <1>2, <2>1
  <2>2. TypeOK' BY DEF TypeOK, RunPC, Result
  <2>3. LockInv' BY DEF TypeOK, LockInv, Writing, IsCall
  <2>4. TagInv' /\ CancelInv' BY DEF TypeOK, TagInv, CancelInv, HasTag
  <2>5. CallersAdvance
    BY DEF TypeOK, CallersAdvance, Live, IsCall, IsListen, Waiting
  <2>6. TableInv' BY <2>5, TableFrame DEF TypeOK, Waiting
  <2>7. OutcomeInv' BY OutcomeFrame DEF TypeOK
  <2>. QED BY <2>2, <2>3, <2>4, <2>6, <2>7 DEF IInv, TableInv, OutcomeInv
<1>. QED BY <1>1, <1>2

\* A synchronous run processes a sentence; it has no entry in c.tags.
LEMMA SyncReadStep ==
    ASSUME IInv, NEW p \in Runners, NEW sen \in Sentence, SyncRead(p, sen)
           PROVE IInv'
<1> USE IInvSplit, EntryFacts, CallFacts
<1>1. CASE ReplyDone(sen.word)
  <2>1. /\ UNCHANGED <<async, closing, conn, lockVars, tagVars, closed,
                       listenVars, ctxDone, cpc, loopVars, panicked>>
        /\ pc[p] = "sync" /\ pc' = [pc EXCEPT ![p] = "returned"]
        /\ re' = [re EXCEPT ![p] = IF sen.word = "re" THEN @ + 1 ELSE @]
        /\ fin' = [fin EXCEPT ![p] = @ \/ sen.word = "done"]
        /\ err' = [err EXCEPT ![p] = IF ReplyErr(sen.word) = "none" THEN @
           ELSE ReplyErr(sen.word)]
        /\ res' = [res EXCEPT ![p] = IF err'[p] = "none" THEN "ok" ELSE
           err'[p]]
    BY <1>1 DEF SyncRead
  <2> USE <1>1, <2>1
  <2>2. ReplyErr(sen.word) \in Err BY DEF ReplyErr, Err
  <2>3. re' \in [Call -> Nat] /\ fin' \in [Call -> BOOLEAN] /\ err' \in [Call -> Err]
    BY <2>2 DEF TypeOK
  <2>4. closed[CallOf(p)] = FALSE
    BY DEF TypeOK, TableInv, ClosedInv, Waiting, IsCall
  <2>5. res' \in [Call -> Result] BY <2>3 DEF TypeOK, Err, Result
  <2>6. TypeOK' BY <2>2, <2>3, <2>4, <2>5 DEF TypeOK, RunPC
  <2>7. LockInv' BY DEF TypeOK, LockInv, Writing, IsCall
  <2>8. TagInv' /\ CancelInv' BY DEF TypeOK, TagInv, CancelInv, HasTag
  <2>9. CallersAdvance
    BY DEF TypeOK, CallersAdvance, Live, IsCall, IsListen, Waiting
  <2>10. TableInv' BY <2>9, TableFrame DEF TypeOK, Waiting
  <2>11. PhaseInv' /\ StopInv' /\ NoPanic'
    BY DEF OutcomeInv, PhaseInv, StopInv, NoPanic
  <2>12. DoneInv' BY DEF TypeOK, OutcomeInv, DoneInv, IsCall
  <2>13. res'[p] = "ok" => fin'[p]
    BY <2>3 DEF TypeOK, ReplyDone, ReplyErr, Err
  <2>14. CleanEnd' BY <2>4, <2>13 DEF TypeOK, OutcomeInv, CleanEnd
  <2>. QED BY <2>6, <2>7, <2>8, <2>10, <2>11, <2>12, <2>13, <2>14 DEF IInv,
       TableInv, OutcomeInv
<1>2. CASE ~ReplyDone(sen.word)
  <2>1. /\ UNCHANGED <<async, closing, conn, lockVars, tagVars, closed,
                       listenVars, ctxDone, pc, cpc, res, loopVars, panicked>>
        /\ pc[p] = "sync"
        /\ re' = [re EXCEPT ![p] = IF sen.word = "re" THEN @ + 1 ELSE @]
        /\ fin' = [fin EXCEPT ![p] = @ \/ sen.word = "done"]
        /\ err' = [err EXCEPT ![p] = IF ReplyErr(sen.word) = "none" THEN @
           ELSE ReplyErr(sen.word)]
    BY <1>2 DEF SyncRead
  <2> USE <1>2, <2>1
  <2>2. ReplyErr(sen.word) \in Err BY DEF ReplyErr, Err
  <2>3. re' \in [Call -> Nat] /\ fin' \in [Call -> BOOLEAN] /\ err' \in [Call -> Err]
    BY <2>2 DEF TypeOK
  <2>4. closed[CallOf(p)] = FALSE
    BY DEF TypeOK, TableInv, ClosedInv, Waiting, IsCall
  <2>5. TypeOK' BY <2>2, <2>3, <2>4 DEF TypeOK
  <2>6. LockInv' BY DEF TypeOK, LockInv, Writing, IsCall
  <2>7. TagInv' /\ CancelInv' BY DEF TypeOK, TagInv, CancelInv, HasTag
  <2>8. CallersAdvance
    BY DEF TypeOK, CallersAdvance, Live, IsCall, IsListen, Waiting
  <2>9. TableInv' BY <2>8, TableFrame DEF TypeOK, Waiting
  <2>10. PhaseInv' /\ StopInv' /\ NoPanic'
    BY DEF OutcomeInv, PhaseInv, StopInv, NoPanic
  <2>11. DoneInv' BY DEF TypeOK, OutcomeInv, DoneInv, IsCall
  <2>12. CleanEnd' BY <2>3, <2>4 DEF TypeOK, OutcomeInv, CleanEnd
  <2>. QED BY <2>5, <2>6, <2>7, <2>9, <2>10, <2>11, <2>12 DEF IInv, TableInv,
       OutcomeInv
<1>. QED BY <1>1, <1>2

\* A synchronous run fails on a read error.
LEMMA SyncReadErrStep ==
    ASSUME IInv, NEW p \in Runners, SyncReadErr(p) PROVE IInv'
<1> USE IInvSplit, EntryFacts, CallFacts DEF SyncReadErr
<1>1. TypeOK' BY DEF TypeOK, RunPC, Result
<1>2. LockInv' BY DEF TypeOK, LockInv, Writing, IsCall
<1>3. TagInv' /\ CancelInv' BY DEF TypeOK, TagInv, CancelInv, HasTag
<1>4. CallersAdvance
  BY DEF TypeOK, CallersAdvance, Live, IsCall, IsListen, Waiting
<1>5. TableInv' BY <1>4, TableFrame DEF TypeOK, Waiting
<1>6. OutcomeInv' BY OutcomeFrame DEF TypeOK
<1>. QED BY <1>1, <1>2, <1>3, <1>5, <1>6 DEF IInv, TableInv, OutcomeInv

-----------------------------------------------------------------------------
(* ListenArgsQueueContext.                                                 *)

\* Listen starts the loop if need be and draws a tag.
LEMMA ListenCallStep ==
    ASSUME IInv, NEW l \in Listeners, ListenCall(l) PROVE IInv'
<1> USE IInvSplit, EntryFacts, CallFacts
<1>1. CASE async
  <2>1. /\ UNCHANGED <<async, closing, conn, lockVars, tagsNil, tags,
                       replyVars, listenVars, ctxDone, cpc, res, loopVars,
                       panicked>>
        /\ pc[l] = "idle" /\ pc' = [pc EXCEPT ![l] = "called"]
        /\ IncrementTag(CallOf(l))
    BY <1>1 DEF ListenCall, TypeOK
  <2> USE <1>1, <2>1
  <2>2. TypeOK' BY BoundAssumption DEF TypeOK, ListenPC, IncrementTag, NextTag
  <2>3. LockInv' BY DEF TypeOK, LockInv, Writing, IsCall
  <2>4. TagInv' /\ CancelInv'
    BY BoundAssumption DEF TypeOK, TagInv, CancelInv, HasTag, IncrementTag,
       NextTag
  <2>5. CallersAdvance
    BY DEF TypeOK, CallersAdvance, Live, IsCall, IsListen, Waiting
  <2>6. \A e \in Entry : Live(e) => tag'[e] = tag[e]
    BY DEF TypeOK, Live, IsCall, IsListen, IncrementTag
  <2>7. TableInv' BY <2>5, <2>6, TableFrame DEF TypeOK, Waiting
  <2>8. OutcomeInv' BY OutcomeFrame
  <2>. QED BY <2>2, <2>3, <2>4, <2>7, <2>8 DEF IInv, TableInv, OutcomeInv
<1>2. CASE ~async
  <2>1. /\ UNCHANGED <<closing, conn, lockVars, tags, replyVars, listenVars,
                       ctxDone, cpc, res, lsen, lent, lerr, errC, panicked>>
        /\ pc[l] = "idle" /\ pc' = [pc EXCEPT ![l] = "called"]
        /\ IncrementTag(CallOf(l))
        /\ async' = TRUE /\ tagsNil' = FALSE /\ lpc' = "read"
    BY <1>2 DEF ListenCall, TypeOK
  <2> USE <1>2, <2>1
  <2>2. lpc = "off" /\ tagsNil BY DEF TypeOK, OutcomeInv, PhaseInv
  <2>3. \A e \in Entry : Live(e) => Live(e)' /\ tag'[e] = tag[e]
    BY DEF TypeOK, Live, IsCall, IsListen, IncrementTag
  <2>4. nextTag' \in 0 .. MaxTag /\ tag' \in [Entry -> 0 .. MaxTag]
    BY BoundAssumption DEF TypeOK, IncrementTag, NextTag
  <2>5. pc' \in [Call -> RunPC \cup ListenPC] /\ (\A q \in Runners : pc'[q] \in RunPC) /\ (\A q \in Listeners : pc'[q] \in ListenPC)
    BY DEF TypeOK, ListenPC
  <2>6. TypeOK' BY <2>4, <2>5 DEF TypeOK, LoopPC
  <2>7. LockInv' BY DEF TypeOK, LockInv, Writing, IsCall
  <2>8. TagInv' /\ CancelInv'
    BY BoundAssumption DEF TypeOK, TagInv, CancelInv, HasTag, IncrementTag,
       NextTag
  <2>9. RegInv' BY <2>2 DEF TypeOK, TableInv, RegInv, Lookup
  <2>10. LoopInv' BY DEF LoopInv
  <2>11. ClosedInv' BY <2>3 DEF TypeOK, TableInv, ClosedInv, IsCall, Waiting
  <2>12. NoOrphan'
    BY <2>2 DEF TypeOK, TableInv, RegInv, NoOrphan, Waiting, Lookup
  <2>13. OutcomeInv'
    BY <2>2 DEF TypeOK, OutcomeInv, PhaseInv, StopInv, DoneInv, CleanEnd,
       NoPanic
  <2>. QED BY <2>6, <2>7, <2>8, <2>9, <2>10, <2>11, <2>12, <2>13 DEF IInv,
       TableInv, OutcomeInv
<1>. QED BY <1>1, <1>2

\* BeginSentence of Listen takes the free writer lock.
LEMMA ListenBeginStep ==
    ASSUME IInv, NEW l \in Listeners, ListenBegin(l) PROVE IInv'
<1> USE IInvSplit, EntryFacts, CallFacts DEF ListenBegin, BeginSentence
<1>1. TypeOK' BY DEF TypeOK, ListenPC
<1>2. LockInv' BY DEF TypeOK, LockInv, Writing, IsCall
<1>3. TagInv' /\ CancelInv' BY DEF TypeOK, TagInv, CancelInv, HasTag
<1>4. CallersAdvance
  BY DEF TypeOK, CallersAdvance, Live, IsCall, IsListen, Waiting
<1>5. TableInv' BY <1>4, TableFrame DEF TypeOK, Waiting
<1>6. OutcomeInv' BY OutcomeFrame
<1>. QED BY <1>1, <1>2, <1>3, <1>5, <1>6 DEF IInv, TableInv, OutcomeInv

\* Listen takes c.mu.
LEMMA ListenLockStep ==
    ASSUME IInv, NEW l \in Listeners, ListenLock(l) PROVE IInv'
<1> USE IInvSplit, EntryFacts, CallFacts DEF ListenLock
<1>1. TypeOK' BY DEF TypeOK, ListenPC
<1>2. LockInv' BY DEF TypeOK, LockInv, Writing, IsCall
<1>3. TagInv' /\ CancelInv' BY DEF TypeOK, TagInv, CancelInv, HasTag
<1>4. CallersAdvance
  BY DEF TypeOK, CallersAdvance, Live, IsCall, IsListen, Waiting
<1>5. TableInv' BY <1>4, TableFrame DEF TypeOK, Waiting
<1>6. OutcomeInv' BY OutcomeFrame
<1>. QED BY <1>1, <1>2, <1>3, <1>5, <1>6 DEF IInv, TableInv, OutcomeInv

\* Listen ends its sentence and registers, or returns an error.
LEMMA ListenFlushStep ==
    ASSUME IInv, NEW l \in Listeners, NEW ok \in BOOLEAN, NEW withCtx \in
           BOOLEAN, ListenFlush(l, ok, withCtx) PROVE IInv'
<1> USE IInvSplit, EntryFacts, CallFacts
<1>1. CASE ~ok
  <2>1. /\ UNCHANGED <<async, closing, conn, tagVars, replyVars, listenVars,
                       ctxDone, cpc, loopVars, panicked>>
        /\ pc[l] = "flush" /\ pc' = [pc EXCEPT ![l] = "returned"]
        /\ wlock' = None /\ werr' \in BOOLEAN /\ mu' = None
        /\ res' = [res EXCEPT ![l] = "write"]
    BY <1>1 DEF ListenFlush, EndSentence, TypeOK
  <2> USE <1>1, <2>1
  <2>2. TypeOK' BY DEF TypeOK, ListenPC, Result
  <2>3. LockInv' BY DEF TypeOK, LockInv, Writing, IsCall
  <2>4. TagInv' /\ CancelInv' BY DEF TypeOK, TagInv, CancelInv, HasTag
  <2>5. CallersAdvance
    BY DEF TypeOK, CallersAdvance, Live, IsCall, IsListen, Waiting
  <2>6. TableInv' BY <2>5, TableFrame DEF TypeOK, Waiting
  <2>7. OutcomeInv' BY OutcomeFrame DEF TypeOK
  <2>. QED BY <2>2, <2>3, <2>4, <2>6, <2>7 DEF IInv, TableInv, OutcomeInv
<1>2. CASE ok /\ tagsNil
  <2>1. /\ UNCHANGED <<async, closing, conn, tagVars, replyVars, listenVars,
                       ctxDone, cpc, loopVars, panicked>>
        /\ pc[l] = "flush" /\ pc' = [pc EXCEPT ![l] = "returned"]
        /\ wlock' = None /\ werr' \in BOOLEAN /\ mu' = None
        /\ res' = [res EXCEPT ![l] = "ended"]
    BY <1>2 DEF ListenFlush, EndSentence, TypeOK
  <2> USE <1>2, <2>1
  <2>2. TypeOK' BY DEF TypeOK, ListenPC, Result
  <2>3. LockInv' BY DEF TypeOK, LockInv, Writing, IsCall
  <2>4. TagInv' /\ CancelInv' BY DEF TypeOK, TagInv, CancelInv, HasTag
  <2>5. CallersAdvance
    BY DEF TypeOK, CallersAdvance, Live, IsCall, IsListen, Waiting
  <2>6. TableInv' BY <2>5, TableFrame DEF TypeOK, Waiting
  <2>7. OutcomeInv' BY OutcomeFrame DEF TypeOK
  <2>. QED BY <2>2, <2>3, <2>4, <2>6, <2>7 DEF IInv, TableInv, OutcomeInv
<1>3. CASE ok /\ ~tagsNil
  <2>1. /\ UNCHANGED <<async, closing, conn, nextTag, tag, tagsNil, replyVars,
                       buf, reading, ctxDone, loopVars, panicked>>
        /\ pc[l] = "flush" /\ pc' = [pc EXCEPT ![l] = "listening"]
        /\ wlock' = None /\ werr' \in BOOLEAN /\ mu' = None
        /\ tags' = [tags EXCEPT ![tag[CallOf(l)]] = CallOf(l)]
        /\ res' = [res EXCEPT ![l] = "ok"]
        /\ \E s \in {"open", "nil"} : stop' = [stop EXCEPT ![l] = s]
        /\ \E c \in {"select", "off"} : cpc' = [cpc EXCEPT ![l] = c]
    BY <1>3 DEF ListenFlush, EndSentence, TypeOK, Put
  <2> USE <1>3, <2>1
  <2>2. tags' \in [Tag -> Entry \cup {None}] /\ res' \in [Call -> Result]
    BY DEF TypeOK, Result
  <2>3. stop' \in [Listeners -> {"nil", "open", "closed"}] /\ cpc' \in [Call -> CancelPC]
    BY DEF TypeOK, CancelPC
  <2>4. HasTag(l) BY DEF HasTag
  <2>5. TypeOK' BY <2>2, <2>3 DEF TypeOK, ListenPC
  <2>6. LockInv' BY DEF TypeOK, LockInv, Writing, IsCall
  <2>7. TagInv' /\ CancelInv' BY DEF TypeOK, TagInv, CancelInv, HasTag
  <2>8. CallersAdvance
    BY DEF TypeOK, CancelInv, CallersAdvance, Live, IsCall, IsListen, Waiting
  <2>9. ~Live(CallOf(l)) /\ Live(CallOf(l))' /\ ~closed[CallOf(l)]
    BY DEF TypeOK, CancelInv, TableInv, ClosedInv, Live, IsCall, IsListen,
       Waiting
  <2>10. tag[CallOf(l)] \in Tag /\ tag'[CallOf(l)] = tag[CallOf(l)]
    BY <2>4, BoundAssumption DEF TypeOK, TagInv, Tag
  <2>11. \A e \in Entry \ {CallOf(l)} : tag'[e] = tag[e] /\ tag[e] # tag[CallOf(l)]
    BY <2>10, BoundAssumption DEF TypeOK, TagInv, HasTag, Tag
  <2>12. \A q \in Call : Waiting(q)' => Waiting(q) \/ CallOf(q) = CallOf(l)
    BY DEF TypeOK, Waiting
  <2>13. \A q \in Runners : pc'[q] = "flush" => pc[q] = "flush" \/ CallOf(q) = CallOf(l)
    BY DEF TypeOK
  <2>14. TableInv' BY <2>8, <2>9, <2>10, <2>11, <2>12, <2>13, TableRegister
  <2>15. PhaseInv' /\ DoneInv' /\ CleanEnd' /\ NoPanic'
    BY DEF TypeOK, OutcomeInv, PhaseInv, DoneInv, CleanEnd, NoPanic, IsCall
  <2>16. StopInv' BY DEF TypeOK, OutcomeInv, StopInv
  <2>. QED BY <2>5, <2>6, <2>7, <2>14, <2>15, <2>16 DEF IInv, TableInv,
       OutcomeInv
<1>. QED BY <1>1, <1>2, <1>3 DEF ListenFlush

\* The watcher of a listener leaves its select.
LEMMA WatchSelectStep ==
    ASSUME IInv, NEW l \in Listeners, WatchSelect(l) PROVE IInv'
<1> USE IInvSplit, EntryFacts, CallFacts
<1>1. CASE cpc' = [cpc EXCEPT ![l] = "start"]
  <2>1. /\ UNCHANGED <<async, closing, conn, lockVars, tagVars, replyVars,
                       listenVars, ctxDone, pc, res, loopVars, panicked>>
        /\ cpc[l] = "select"
    BY <1>1 DEF WatchSelect
  <2> USE <1>1, <2>1
  <2>2. TypeOK' BY DEF TypeOK, CancelPC
  <2>3. LockInv' BY DEF TypeOK, LockInv, Writing, IsCall
  <2>4. TagInv' /\ CancelInv' BY DEF TypeOK, TagInv, CancelInv, HasTag
  <2>5. CallersAdvance
    BY DEF TypeOK, CallersAdvance, Live, IsCall, IsListen, Waiting
  <2>6. TableInv' BY <2>5, TableFrame DEF TypeOK, Waiting
  <2>7. OutcomeInv' BY OutcomeFrame
  <2>. QED BY <2>2, <2>3, <2>4, <2>6, <2>7 DEF IInv, TableInv, OutcomeInv
<1>2. CASE cpc' = [cpc EXCEPT ![l] = "finished"]
  <2>1. /\ UNCHANGED <<async, closing, conn, lockVars, tagVars, replyVars,
                       listenVars, ctxDone, pc, res, loopVars, panicked>>
        /\ cpc[l] = "select"
    BY <1>2 DEF WatchSelect
  <2> USE <1>2, <2>1
  <2>2. TypeOK' BY DEF TypeOK, CancelPC
  <2>3. LockInv' BY DEF TypeOK, LockInv, Writing, IsCall
  <2>4. TagInv' /\ CancelInv' BY DEF TypeOK, TagInv, CancelInv, HasTag
  <2>5. CallersAdvance
    BY DEF TypeOK, CallersAdvance, Live, IsCall, IsListen, Waiting
  <2>6. TableInv' BY <2>5, TableFrame DEF TypeOK, Waiting
  <2>7. OutcomeInv' BY OutcomeFrame
  <2>. QED BY <2>2, <2>3, <2>4, <2>6, <2>7 DEF IInv, TableInv, OutcomeInv
<1>. QED BY <1>1, <1>2 DEF WatchSelect

\* The application receives from Chan().
LEMMA ConsumeStep ==
    ASSUME IInv, NEW l \in Listeners, Consume(l) PROVE IInv'
<1> USE IInvSplit, EntryFacts, CallFacts DEF Consume
<1>1. TypeOK' BY BoundAssumption DEF TypeOK
<1>2. LockInv' BY DEF TypeOK, LockInv, Writing, IsCall
<1>3. TagInv' /\ CancelInv' BY DEF TypeOK, TagInv, CancelInv, HasTag
<1>4. CallersAdvance
  BY DEF TypeOK, CallersAdvance, Live, IsCall, IsListen, Waiting
<1>5. TableInv' BY <1>4, TableFrame DEF TypeOK, Waiting
<1>6. OutcomeInv' BY OutcomeFrame
<1>. QED BY <1>1, <1>2, <1>3, <1>5, <1>6 DEF IInv, TableInv, OutcomeInv

-----------------------------------------------------------------------------
(* cancelTag.                                                              *)

\* cancelTag registers its throw-away entry, or finds the loop ended.
LEMMA CancelRegisterStep ==
    ASSUME IInv, NEW p \in Call, CancelRegister(p) PROVE IInv'
<1> USE IInvSplit, EntryFacts, CallFacts
<1>1. CASE tagsNil
  <2>1. /\ UNCHANGED <<async, closing, conn, lockVars, tagsNil, tags,
                       replyVars, listenVars, ctxDone, pc, res, loopVars,
                       panicked>>
        /\ cpc[p] = "start" /\ cpc' = [cpc EXCEPT ![p] = "finished"]
        /\ IncrementTag(CancelOf(p))
    BY <1>1 DEF CancelRegister, Put
  <2> USE <1>1, <2>1
  <2>2. TypeOK' BY BoundAssumption DEF TypeOK, CancelPC, IncrementTag, NextTag
  <2>3. LockInv' BY DEF TypeOK, LockInv, Writing, IsCall
  <2>4. TagInv' /\ CancelInv'
    BY BoundAssumption DEF TypeOK, TagInv, CancelInv, HasTag, IncrementTag,
       NextTag
  <2>5. CallersAdvance
    BY DEF TypeOK, CallersAdvance, Live, IsCall, IsListen, Waiting
  <2>6. \A e \in Entry : Live(e) => tag'[e] = tag[e]
    BY DEF TypeOK, Live, IsCall, IsListen, IncrementTag
  <2>7. TableInv' BY <2>5, <2>6, TableFrame DEF TypeOK, Waiting
  <2>8. OutcomeInv' BY OutcomeFrame
  <2>. QED BY <2>2, <2>3, <2>4, <2>7, <2>8 DEF IInv, TableInv, OutcomeInv
<1>2. CASE ~tagsNil
  <2>1. /\ UNCHANGED <<async, closing, conn, lockVars, tagsNil, replyVars,
                       listenVars, ctxDone, pc, res, loopVars, panicked>>
        /\ cpc[p] = "start" /\ cpc' = [cpc EXCEPT ![p] = "begin"]
        /\ IncrementTag(CancelOf(p))
        /\ tags' = [tags EXCEPT ![NextTag] = CancelOf(p)]
    BY <1>2 DEF CancelRegister, Put
  <2> USE <1>2, <2>1
  <2>2. tags' \in [Tag -> Entry \cup {None}] BY DEF TypeOK
  <2>3. TypeOK'
    BY BoundAssumption, <2>2 DEF TypeOK, CancelPC, IncrementTag, NextTag
  <2>4. LockInv' BY DEF TypeOK, LockInv, Writing, IsCall
  <2>5. TagInv' /\ CancelInv'
    BY BoundAssumption DEF TypeOK, TagInv, CancelInv, HasTag, IncrementTag,
       NextTag
  <2>6. CallersAdvance
    BY DEF TypeOK, CancelInv, CallersAdvance, Live, IsCall, IsListen, Waiting
  <2>7. ~Live(CancelOf(p)) /\ Live(CancelOf(p))' /\ ~closed[CancelOf(p)]
    BY DEF TypeOK, CancelInv, TableInv, ClosedInv, Live, IsCall, IsListen,
       Waiting
  <2>8. NextTag \in Tag /\ tag'[CancelOf(p)] = NextTag
    BY BoundAssumption DEF TypeOK, TagInv, HasTag, Tag, IncrementTag, NextTag
  <2>9. \A e \in Entry \ {CancelOf(p)} : tag'[e] = tag[e] /\ tag[e] # NextTag
    BY <2>8, BoundAssumption DEF TypeOK, TagInv, HasTag, Tag, IncrementTag,
       NextTag
  <2>10. \A q \in Call : Waiting(q)' => Waiting(q) \/ CallOf(q) = CancelOf(p)
    BY DEF TypeOK, Waiting
  <2>11. \A q \in Runners : pc'[q] = "flush" => pc[q] = "flush" \/ CallOf(q) = CancelOf(p)
    BY DEF TypeOK
  <2>12. TableInv' BY <2>6, <2>7, <2>8, <2>9, <2>10, <2>11, TableRegister
  <2>13. OutcomeInv' BY OutcomeFrame
  <2>. QED BY <2>3, <2>4, <2>5, <2>12, <2>13 DEF IInv, TableInv, OutcomeInv
<1>. QED BY <1>1, <1>2

\* BeginSentence of cancelTag takes the free writer lock.
LEMMA CancelBeginStep ==
    ASSUME IInv, NEW p \in Call, CancelBegin(p) PROVE IInv'
<1> USE IInvSplit, EntryFacts, CallFacts DEF CancelBegin, BeginSentence
<1>1. TypeOK' BY DEF TypeOK, CancelPC
<1>2. LockInv' BY DEF TypeOK, LockInv, Writing, IsCall
<1>3. TagInv' /\ CancelInv' BY DEF TypeOK, TagInv, CancelInv, HasTag
<1>4. CallersAdvance
  BY DEF TypeOK, CallersAdvance, Live, IsCall, IsListen, Waiting
<1>5. TableInv' BY <1>4, TableFrame DEF TypeOK, Waiting
<1>6. OutcomeInv' BY OutcomeFrame
<1>. QED BY <1>1, <1>2, <1>3, <1>5, <1>6 DEF IInv, TableInv, OutcomeInv

\* cancelTag ends its sentence.
LEMMA CancelEndStep ==
    ASSUME IInv, NEW p \in Call, NEW ok \in BOOLEAN, CancelEnd(p, ok) PROVE
           IInv'
<1> USE IInvSplit, EntryFacts, CallFacts DEF CancelEnd, EndSentence
<1>1. TypeOK' BY DEF TypeOK, CancelPC
<1>2. LockInv' BY DEF TypeOK, LockInv, Writing, IsCall
<1>3. TagInv' /\ CancelInv' BY DEF TypeOK, TagInv, CancelInv, HasTag
<1>4. CallersAdvance
  BY DEF TypeOK, CallersAdvance, Live, IsCall, IsListen, Waiting
<1>5. TableInv' BY <1>4, TableFrame DEF TypeOK, Waiting
<1>6. OutcomeInv' BY OutcomeFrame
<1>. QED BY <1>1, <1>2, <1>3, <1>5, <1>6 DEF IInv, TableInv, OutcomeInv

-----------------------------------------------------------------------------
(* asyncLoop.                                                              *)

\* asyncLoop reads a sentence.
LEMMA LoopReadStep ==
    ASSUME IInv, NEW sen \in Sentence, LoopRead(sen) PROVE IInv'
<1> USE IInvSplit, EntryFacts, CallFacts DEF LoopRead
<1>1. TypeOK' BY DEF TypeOK, LoopPC
<1>2. LockInv' BY DEF TypeOK, LockInv, Writing, IsCall
<1>3. TagInv' /\ CancelInv' BY DEF TypeOK, TagInv, CancelInv, HasTag
<1>4. RegInv' BY DEF TypeOK, TableInv, RegInv, Lookup, Live, IsCall, IsListen
<1>5. LoopInv' BY DEF LoopInv
<1>6. ClosedInv'
  BY DEF TypeOK, TableInv, ClosedInv, IsCall, Waiting, Live, IsListen
<1>7. NoOrphan' BY DEF TypeOK, TableInv, NoOrphan, Waiting, Lookup
<1>8. OutcomeInv'
  BY DEF OutcomeInv, PhaseInv, StopInv, DoneInv, CleanEnd, NoPanic
<1>. QED BY <1>1, <1>2, <1>3, <1>4, <1>5, <1>6, <1>7, <1>8 DEF IInv, TableInv,
     OutcomeInv

\* asyncLoop finds the entry of the sentence, or ignores it.
LEMMA LoopLookupStep ==
    ASSUME IInv, LoopLookup PROVE IInv'
<1> USE IInvSplit, EntryFacts, CallFacts
<1>1. CASE Lookup(lsen.tag) # None
  <2>1. /\ UNCHANGED <<async, closing, conn, lockVars, tagVars, replyVars,
                       listenVars, ctxDone, pc, cpc, res, lsen, lerr, errC,
                       panicked>>
        /\ lpc = "lookup" /\ lpc' = "process" /\ mu = None
        /\ lent' = Lookup(lsen.tag)
    BY <1>1 DEF LoopLookup, LoopContinue, Lookup
  <2> USE <1>1, <2>1
  <2>2. TypeOK' BY DEF TypeOK, LoopPC, Lookup, Tag
  <2>3. LockInv' BY DEF TypeOK, LockInv, Writing, IsCall
  <2>4. TagInv' /\ CancelInv' BY DEF TypeOK, TagInv, CancelInv, HasTag
  <2>5. RegInv'
    BY DEF TypeOK, TableInv, RegInv, Lookup, Live, IsCall, IsListen
  <2>6. LoopInv'
    BY DEF TypeOK, TableInv, LoopInv, RegInv, LockInv, Lookup, Live, IsCall,
       IsListen
  <2>7. ClosedInv'
    BY DEF TypeOK, TableInv, ClosedInv, IsCall, Waiting, Live, IsListen
  <2>8. NoOrphan' BY DEF TypeOK, TableInv, NoOrphan, Waiting, Lookup
  <2>9. OutcomeInv'
    BY DEF TypeOK, OutcomeInv, PhaseInv, StopInv, DoneInv, CleanEnd, NoPanic
  <2>. QED BY <2>2, <2>3, <2>4, <2>5, <2>6, <2>7, <2>8, <2>9 DEF IInv,
       TableInv, OutcomeInv
<1>2. CASE Lookup(lsen.tag) = None
  <2>1. /\ UNCHANGED <<async, closing, conn, lockVars, tagVars, replyVars,
                       listenVars, ctxDone, pc, cpc, res, errC, panicked>>
        /\ lpc = "lookup"
        /\ lpc' = "read" /\ lsen' = NoSentence /\ lent' = None /\ lerr' =
           "none"
    BY <1>2 DEF LoopLookup, LoopContinue, Lookup
  <2> USE <1>2, <2>1
  <2>2. TypeOK' BY NoSentenceType DEF TypeOK, LoopPC, Err
  <2>3. LockInv' BY DEF TypeOK, LockInv, Writing, IsCall
  <2>4. TagInv' /\ CancelInv' BY DEF TypeOK, TagInv, CancelInv, HasTag
  <2>5. RegInv'
    BY DEF TypeOK, TableInv, RegInv, Lookup, Live, IsCall, IsListen
  <2>6. LoopInv' BY DEF LoopInv
  <2>7. ClosedInv'
    BY DEF TypeOK, TableInv, ClosedInv, IsCall, Waiting, Live, IsListen
  <2>8. NoOrphan' BY DEF TypeOK, TableInv, NoOrphan, Waiting, Lookup
  <2>9. OutcomeInv'
    BY DEF TypeOK, OutcomeInv, PhaseInv, StopInv, DoneInv, CleanEnd, NoPanic
  <2>. QED BY <2>2, <2>3, <2>4, <2>5, <2>6, <2>7, <2>8, <2>9 DEF IInv,
       TableInv, OutcomeInv
<1>. QED BY <1>1, <1>2

\* Reply.processSentence.
LEMMA LoopProcessReplyStep ==
    ASSUME IInv, LoopProcessReply PROVE IInv'
<1> USE IInvSplit, EntryFacts, CallFacts
<1>1. CASE lpc' = "delete"
  <2>1. /\ UNCHANGED <<async, closing, conn, lockVars, tagVars, closed, err,
                       listenVars, ctxDone, pc, cpc, res, lsen, lent, errC,
                       panicked>>
        /\ lpc = "process" /\ ~IsListen(lent)
        /\ re' = IF IsCall(lent) /\ lsen.word = "re" THEN [re EXCEPT
           ![lent[1]] = @ + 1] ELSE re
        /\ fin' = IF IsCall(lent) /\ lsen.word = "done" THEN [fin EXCEPT
           ![lent[1]] = TRUE] ELSE fin
        /\ lerr' = ReplyErr(lsen.word) /\ (ReplyErr(lsen.word) = "none" =>
           lsen.word = "done")
    BY <1>1 DEF LoopProcessReply, LoopContinue, ReplyDone, ReplyErr
  <2> USE <1>1, <2>1
  <2>2. lent \in Entry /\ lent[1] \in Call /\ ~closed[lent]
    BY DEF TableInv, LoopInv
  <2>3. re' \in [Call -> Nat] /\ fin' \in [Call -> BOOLEAN] BY <2>2 DEF TypeOK
  <2>4. \A p \in Call : fin[p] => fin'[p] BY <2>2 DEF TypeOK
  <2>5. ReplyErr(lsen.word) \in Err BY DEF ReplyErr, Err
  <2>6. TypeOK' BY <2>2, <2>3, <2>4, <2>5 DEF TypeOK, LoopPC
  <2>7. LockInv' BY DEF TypeOK, LockInv, Writing, IsCall
  <2>8. TagInv' /\ CancelInv' BY DEF TypeOK, TagInv, CancelInv, HasTag
  <2>9. RegInv'
    BY DEF TypeOK, TableInv, RegInv, Lookup, Live, IsCall, IsListen
  <2>10. LoopInv' BY DEF TypeOK, TableInv, LoopInv, Live, IsCall, IsListen
  <2>11. ClosedInv'
    BY DEF TypeOK, TableInv, ClosedInv, IsCall, Waiting, Live, IsListen
  <2>12. NoOrphan' BY DEF TypeOK, TableInv, NoOrphan, Waiting, Lookup
  <2>13. PhaseInv' /\ StopInv' /\ NoPanic'
    BY DEF TypeOK, OutcomeInv, PhaseInv, StopInv, NoPanic
  <2>14. DoneInv' BY <2>2 DEF TypeOK, OutcomeInv, DoneInv
  <2>15. CleanEnd' BY <2>4 DEF TypeOK, OutcomeInv, CleanEnd
  <2>. QED BY <2>6, <2>7, <2>8, <2>9, <2>10, <2>11, <2>12, <2>13, <2>14, <2>15
       DEF IInv, TableInv, OutcomeInv
<1>2. CASE lpc' # "delete"
  <2>1. /\ UNCHANGED <<async, closing, conn, lockVars, tagVars, closed, err,
                       listenVars, ctxDone, pc, cpc, res, errC, panicked>>
        /\ lpc = "process"
        /\ re' = IF IsCall(lent) /\ lsen.word = "re" THEN [re EXCEPT
           ![lent[1]] = @ + 1] ELSE re
        /\ fin' = IF IsCall(lent) /\ lsen.word = "done" THEN [fin EXCEPT
           ![lent[1]] = TRUE] ELSE fin
        /\ lpc' = "read" /\ lsen' = NoSentence /\ lent' = None /\ lerr' =
           "none"
    BY <1>2 DEF LoopProcessReply, LoopContinue
  <2> USE <1>2, <2>1
  <2>2. lent \in Entry /\ lent[1] \in Call /\ ~closed[lent]
    BY DEF TableInv, LoopInv
  <2>3. re' \in [Call -> Nat] /\ fin' \in [Call -> BOOLEAN] BY <2>2 DEF TypeOK
  <2>4. \A p \in Call : fin[p] => fin'[p] BY <2>2 DEF TypeOK
  <2>5. TypeOK' BY NoSentenceType, <2>2, <2>3, <2>4 DEF TypeOK, LoopPC, Err
  <2>6. LockInv' BY DEF TypeOK, LockInv, Writing, IsCall
  <2>7. TagInv' /\ CancelInv' BY DEF TypeOK, TagInv, CancelInv, HasTag
  <2>8. RegInv'
    BY DEF TypeOK, TableInv, RegInv, Lookup, Live, IsCall, IsListen
  <2>9. LoopInv' BY DEF LoopInv
  <2>10. ClosedInv'
    BY DEF TypeOK, TableInv, ClosedInv, IsCall, Waiting, Live, IsListen
  <2>11. NoOrphan' BY DEF TypeOK, TableInv, NoOrphan, Waiting, Lookup
  <2>12. PhaseInv' /\ StopInv' /\ DoneInv' /\ NoPanic'
    BY DEF TypeOK, OutcomeInv, PhaseInv, StopInv, DoneInv, NoPanic
  <2>13. CleanEnd' BY <2>4 DEF TypeOK, OutcomeInv, CleanEnd
  <2>. QED BY <2>5, <2>6, <2>7, <2>8, <2>9, <2>10, <2>11, <2>12, <2>13 DEF
       IInv, TableInv, OutcomeInv
<1>. QED BY <1>1, <1>2

\* A row goes to a listener whose channel is open.
LEMMA LoopSendStep ==
    ASSUME IInv, LoopSend PROVE IInv'
<1> USE IInvSplit, EntryFacts, CallFacts DEF LoopSend, LoopContinue
<1>1. lent \in Entry /\ lent[1] \in Call /\ ~closed[lent]
  BY DEF TableInv, LoopInv
<1>2. buf' \in [Listeners -> 0 .. Queue] /\ re' \in [Call -> Nat]
  BY <1>1, BoundAssumption DEF TypeOK, CanSend, IsListen
<1>3. TypeOK' BY NoSentenceType, <1>1, <1>2 DEF TypeOK, LoopPC, Err
<1>4. LockInv' BY DEF TypeOK, LockInv, Writing, IsCall
<1>5. TagInv' /\ CancelInv' BY DEF TypeOK, TagInv, CancelInv, HasTag
<1>6. RegInv' BY DEF TypeOK, TableInv, RegInv, Lookup, Live, IsCall, IsListen
<1>7. LoopInv' BY DEF LoopInv
<1>8. ClosedInv'
  BY DEF TypeOK, TableInv, ClosedInv, IsCall, Waiting, Live, IsListen
<1>9. NoOrphan' BY DEF TypeOK, TableInv, NoOrphan, Waiting, Lookup
<1>10. OutcomeInv'
  BY <1>1 DEF TypeOK, OutcomeInv, PhaseInv, StopInv, DoneInv, CleanEnd,
     NoPanic
<1>. QED BY <1>3, <1>4, <1>5, <1>6, <1>7, <1>8, <1>9, <1>10 DEF IInv,
     TableInv, OutcomeInv

\* ListenReply.processSentence of a word other than !re.
LEMMA LoopProcessListenStep ==
    ASSUME IInv, LoopProcessListen PROVE IInv'
<1> USE IInvSplit, EntryFacts, CallFacts
<1>1. CASE ~ListenDone(lsen.word)
  <2>1. /\ UNCHANGED <<async, closing, conn, lockVars, tagVars, replyVars,
                       listenVars, ctxDone, pc, cpc, res, errC, panicked>>
        /\ lpc = "process"
        /\ lpc' = "read" /\ lsen' = NoSentence /\ lent' = None /\ lerr' =
           "none"
    BY <1>1 DEF LoopProcessListen, LoopContinue
  <2> USE <1>1, <2>1
  <2>2. TypeOK' BY NoSentenceType DEF TypeOK, LoopPC, Err
  <2>3. LockInv' BY DEF TypeOK, LockInv, Writing, IsCall
  <2>4. TagInv' /\ CancelInv' BY DEF TypeOK, TagInv, CancelInv, HasTag
  <2>5. RegInv'
    BY DEF TypeOK, TableInv, RegInv, Lookup, Live, IsCall, IsListen
  <2>6. LoopInv' BY DEF LoopInv
  <2>7. ClosedInv'
    BY DEF TypeOK, TableInv, ClosedInv, IsCall, Waiting, Live, IsListen
  <2>8. NoOrphan' BY DEF TypeOK, TableInv, NoOrphan, Waiting, Lookup
  <2>9. OutcomeInv'
    BY DEF TypeOK, OutcomeInv, PhaseInv, StopInv, DoneInv, CleanEnd, NoPanic
  <2>. QED BY <2>2, <2>3, <2>4, <2>5, <2>6, <2>7, <2>8, <2>9 DEF IInv,
       TableInv, OutcomeInv
<1>2. CASE ListenDone(lsen.word)
  <2>1. /\ UNCHANGED <<async, closing, conn, lockVars, tagVars, closed, err,
                       re, buf, reading, ctxDone, pc, cpc, res, lsen, lent,
                       errC>>
        /\ lpc = "process" /\ lpc' = "delete" /\ IsListen(lent)
        /\ fin' = [fin EXCEPT ![lent[1]] = @ \/ lsen.word \in {"done",
           "trap2"}]
        /\ stop' = [stop EXCEPT ![lent[1]] = IF @ = "nil" THEN "nil" ELSE
           "closed"]
        /\ panicked' = (panicked \/ stop[lent[1]] = "closed")
        /\ lerr' = ListenErr(lsen.word)
    BY <1>2 DEF LoopProcessListen, LoopContinue
  <2> USE <1>2, <2>1
  <2>2. lent = CallOf(lent[1]) /\ lent[1] \in Listeners /\ ~closed[lent]
    BY DEF TableInv, LoopInv, IsListen, IsCall
  <2>3. fin' \in [Call -> BOOLEAN] /\ stop' \in [Listeners -> {"nil", "open", "closed"}]
    BY <2>2 DEF TypeOK
  <2>4. \A p \in Call : fin[p] => fin'[p] BY <2>2 DEF TypeOK
  <2>5. ListenErr(lsen.word) \in Err BY DEF ListenErr, Err
  <2>6. panicked' = FALSE BY <2>2 DEF TypeOK, OutcomeInv, StopInv, NoPanic
  <2>7. TypeOK' BY <2>2, <2>3, <2>4, <2>5, <2>6 DEF TypeOK, LoopPC
  <2>8. LockInv' BY DEF TypeOK, LockInv, Writing, IsCall
  <2>9. TagInv' /\ CancelInv' BY DEF TypeOK, TagInv, CancelInv, HasTag
  <2>10. RegInv'
    BY DEF TypeOK, TableInv, RegInv, Lookup, Live, IsCall, IsListen
  <2>11. LoopInv' BY DEF TypeOK, TableInv, LoopInv, Live, IsCall, IsListen
  <2>12. ClosedInv'
    BY DEF TypeOK, TableInv, ClosedInv, IsCall, Waiting, Live, IsListen
  <2>13. NoOrphan' BY DEF TypeOK, TableInv, NoOrphan, Waiting, Lookup
  <2>14. PhaseInv' /\ NoPanic'
    BY <2>6 DEF TypeOK, OutcomeInv, PhaseInv, NoPanic
  <2>15. StopInv' BY <2>2 DEF TypeOK, OutcomeInv, StopInv
  <2>16. DoneInv' BY <2>2 DEF TypeOK, DoneInv, ListenDone, ListenErr
  <2>17. CleanEnd' BY <2>4 DEF TypeOK, OutcomeInv, CleanEnd
  <2>. QED BY <2>7, <2>8, <2>9, <2>10, <2>11, <2>12, <2>13, <2>14, <2>15,
       <2>16, <2>17 DEF IInv, TableInv, OutcomeInv
<1>. QED BY <1>1, <1>2

\* asyncLoop deletes the entry it has finished with.
LEMMA LoopDeleteStep ==
    ASSUME IInv, LoopDelete PROVE IInv'
<1> USE IInvSplit, EntryFacts, CallFacts DEF LoopDelete, Delete
<1>1. TypeOK' BY DEF TypeOK, LoopPC
<1>2. LockInv' BY DEF TypeOK, LockInv, Writing, IsCall
<1>3. TagInv' /\ CancelInv' BY DEF TypeOK, TagInv, CancelInv, HasTag
<1>4. RegInv'
  BY DEF TypeOK, TableInv, RegInv, LoopInv, LockInv, Lookup, Live, IsCall,
     IsListen
<1>5. LoopInv' BY DEF TypeOK, TableInv, LoopInv, Live, IsCall, IsListen
<1>6. ClosedInv'
  BY DEF TypeOK, TableInv, ClosedInv, IsCall, Waiting, Live, IsListen
<1>7. NoOrphan' BY DEF TypeOK, TableInv, LoopInv, NoOrphan, Waiting, Lookup
<1>8. OutcomeInv'
  BY DEF TypeOK, OutcomeInv, PhaseInv, StopInv, DoneInv, CleanEnd, NoPanic,
     IsCall
<1>. QED BY <1>1, <1>2, <1>3, <1>4, <1>5, <1>6, <1>7, <1>8 DEF IInv, TableInv,
     OutcomeInv

\* asyncLoop closes the channel it has removed from c.tags: never twice.
LEMMA LoopCloseStep ==
    ASSUME IInv, LoopClose PROVE IInv'
<1> USE IInvSplit, EntryFacts, CallFacts DEF LoopClose, LoopContinue
<1>1. lent \in Entry /\ lent[1] \in Call /\ ~closed[lent]
  BY DEF TableInv, LoopInv
<1>2. err' \in [Call -> Err] /\ closed' \in [Entry -> BOOLEAN]
  BY <1>1 DEF TypeOK, IsCall
<1>3. panicked' = FALSE BY <1>1 DEF TypeOK, OutcomeInv, NoPanic
<1>4. TypeOK' BY NoSentenceType, <1>1, <1>2, <1>3 DEF TypeOK, LoopPC, Err
<1>5. LockInv' BY DEF TypeOK, LockInv, Writing, IsCall
<1>6. TagInv' /\ CancelInv' BY DEF TypeOK, TagInv, CancelInv, HasTag
<1>7. RegInv'
  BY DEF TypeOK, TableInv, RegInv, LoopInv, Lookup, Live, IsCall, IsListen
<1>8. LoopInv' BY DEF LoopInv
<1>9. ClosedInv'
  BY DEF TypeOK, TableInv, LoopInv, ClosedInv, Waiting, Live, IsCall, IsListen
<1>10. NoOrphan' BY DEF TypeOK, TableInv, LoopInv, NoOrphan, Waiting, Lookup
<1>11. PhaseInv' /\ DoneInv' /\ NoPanic'
  BY <1>3 DEF TypeOK, OutcomeInv, PhaseInv, DoneInv, NoPanic
<1>12. StopInv' BY <1>1 DEF TypeOK, OutcomeInv, StopInv
<1>13. CleanEnd' BY <1>1 DEF TypeOK, OutcomeInv, DoneInv, CleanEnd, IsCall
<1>. QED BY <1>4, <1>5, <1>6, <1>7, <1>8, <1>9, <1>10, <1>11, <1>12, <1>13 DEF
     IInv, TableInv, OutcomeInv

\* The read fails.
LEMMA LoopReadErrStep ==
    ASSUME IInv, LoopReadErr PROVE IInv'
<1> USE IInvSplit, EntryFacts, CallFacts DEF LoopReadErr
<1>1. TypeOK' BY DEF TypeOK, LoopPC
<1>2. LockInv' BY DEF TypeOK, LockInv, Writing, IsCall
<1>3. TagInv' /\ CancelInv' BY DEF TypeOK, TagInv, CancelInv, HasTag
<1>4. RegInv' BY DEF TypeOK, TableInv, RegInv, Lookup, Live, IsCall, IsListen
<1>5. LoopInv' BY DEF LoopInv
<1>6. ClosedInv'
  BY DEF TypeOK, TableInv, ClosedInv, IsCall, Waiting, Live, IsListen
<1>7. NoOrphan' BY DEF TypeOK, TableInv, NoOrphan, Waiting, Lookup
<1>8. OutcomeInv'
  BY DEF TypeOK, OutcomeInv, PhaseInv, StopInv, DoneInv, CleanEnd, NoPanic
<1>. QED BY <1>1, <1>2, <1>3, <1>4, <1>5, <1>6, <1>7, <1>8 DEF IInv, TableInv,
     OutcomeInv

\* closeTags closes what is registered, and nothing that is closed.
LEMMA LoopCloseTagsStep ==
    ASSUME IInv, LoopCloseTags PROVE IInv'
<1> USE IInvSplit, EntryFacts, CallFacts DEF LoopCloseTags
<1>1. \A e \in Entry : Registered(e) => ~closed[e] /\ Live(e) /\ (IsCall(e) => pc[e[1]] # "flush")
  BY DEF TypeOK, TableInv, RegInv, LockInv, Registered
<1>2. panicked' = FALSE BY <1>1 DEF TypeOK, OutcomeInv, NoPanic
<1>3. TypeOK' BY <1>1, <1>2 DEF TypeOK, LoopPC, CloseTagsErr, Err
<1>4. LockInv' BY DEF TypeOK, LockInv, Writing, IsCall
<1>5. TagInv' /\ CancelInv' BY DEF TypeOK, TagInv, CancelInv, HasTag
<1>6. RegInv' BY DEF TypeOK, RegInv, LockInv
<1>7. LoopInv' BY DEF LoopInv
<1>8. ClosedInv'
  BY <1>1 DEF TypeOK, TableInv, ClosedInv, Waiting, Live, IsCall, IsListen
<1>9. NoOrphan'
  BY CallFacts DEF TypeOK, TableInv, NoOrphan, Waiting, Lookup, Registered
<1>10. PhaseInv' /\ DoneInv' /\ NoPanic'
  BY <1>2 DEF TypeOK, OutcomeInv, PhaseInv, DoneInv, NoPanic
<1>11. StopInv' BY DEF TypeOK, OutcomeInv, StopInv
<1>12. CleanEnd' BY <1>1 DEF TypeOK, OutcomeInv, CleanEnd, CloseTagsErr
<1>. QED BY <1>3, <1>4, <1>5, <1>6, <1>7, <1>8, <1>9, <1>10, <1>11, <1>12 DEF
     IInv, TableInv, OutcomeInv

\* asyncLoopChan closes errC.
LEMMA LoopReportStep ==
    ASSUME IInv, LoopReport PROVE IInv'
<1> USE IInvSplit, EntryFacts, CallFacts DEF LoopReport
<1>1. TypeOK' BY DEF TypeOK, LoopPC
<1>2. LockInv' BY DEF TypeOK, LockInv, Writing, IsCall
<1>3. TagInv' /\ CancelInv' BY DEF TypeOK, TagInv, CancelInv, HasTag
<1>4. RegInv' BY DEF TypeOK, TableInv, RegInv, Lookup, Live, IsCall, IsListen
<1>5. LoopInv' BY DEF LoopInv
<1>6. ClosedInv'
  BY DEF TypeOK, TableInv, ClosedInv, IsCall, Waiting, Live, IsListen
<1>7. NoOrphan' BY DEF TypeOK, TableInv, NoOrphan, Waiting, Lookup
<1>8. OutcomeInv'
  BY DEF TypeOK, OutcomeInv, PhaseInv, StopInv, DoneInv, CleanEnd, NoPanic
<1>. QED BY <1>1, <1>2, <1>3, <1>4, <1>5, <1>6, <1>7, <1>8 DEF IInv, TableInv,
     OutcomeInv

-----------------------------------------------------------------------------
(* Async, Close and the environment.                                       *)

\* The loop starts on an empty table.
LEMMA AsyncStep ==
    ASSUME IInv, Async PROVE IInv'
<1> USE IInvSplit, EntryFacts, CallFacts DEF Async
<1>1. lpc = "off" /\ tagsNil BY DEF TypeOK, OutcomeInv, PhaseInv
<1>2. TypeOK' BY <1>1 DEF TypeOK, LoopPC
<1>3. LockInv' BY DEF TypeOK, LockInv, Writing, IsCall
<1>4. TagInv' /\ CancelInv' BY DEF TypeOK, TagInv, CancelInv, HasTag
<1>5. RegInv' BY DEF TypeOK, TableInv, RegInv, Lookup, Live, IsCall, IsListen
<1>6. LoopInv' BY DEF LoopInv
<1>7. ClosedInv'
  BY DEF TypeOK, TableInv, ClosedInv, IsCall, Waiting, Live, IsListen
<1>8. NoOrphan' BY <1>1 DEF TypeOK, TableInv, NoOrphan, Waiting, Lookup
<1>9. OutcomeInv'
  BY <1>1 DEF TypeOK, OutcomeInv, PhaseInv, StopInv, DoneInv, CleanEnd,
     NoPanic
<1>. QED BY <1>2, <1>3, <1>4, <1>5, <1>6, <1>7, <1>8, <1>9 DEF IInv, TableInv,
     OutcomeInv

\* Close.
LEMMA CloseStep ==
    ASSUME IInv, Close PROVE IInv'
<1> USE IInvSplit, EntryFacts, CallFacts DEF Close
<1>1. TypeOK' BY DEF TypeOK
<1>2. LockInv' BY DEF TypeOK, LockInv, Writing, IsCall
<1>3. TagInv' /\ CancelInv' BY DEF TypeOK, TagInv, CancelInv, HasTag
<1>4. CallersAdvance
  BY DEF TypeOK, CallersAdvance, Live, IsCall, IsListen, Waiting
<1>5. TableInv' BY <1>4, TableFrame DEF TypeOK, Waiting
<1>6. OutcomeInv'
  BY DEF TypeOK, OutcomeInv, PhaseInv, StopInv, DoneInv, CleanEnd, NoPanic,
     IsCall
<1>. QED BY <1>1, <1>2, <1>3, <1>5, <1>6 DEF IInv, TableInv, OutcomeInv

\* The connection breaks.
LEMMA ConnBreakStep ==
    ASSUME IInv, ConnBreak PROVE IInv'
<1> USE IInvSplit, EntryFacts, CallFacts DEF ConnBreak
<1>1. TypeOK' BY DEF TypeOK
<1>2. LockInv' BY DEF TypeOK, LockInv, Writing, IsCall
<1>3. TagInv' /\ CancelInv' BY DEF TypeOK, TagInv, CancelInv, HasTag
<1>4. CallersAdvance
  BY DEF TypeOK, CallersAdvance, Live, IsCall, IsListen, Waiting
<1>5. TableInv' BY <1>4, TableFrame DEF TypeOK, Waiting
<1>6. OutcomeInv' BY OutcomeFrame
<1>. QED BY <1>1, <1>2, <1>3, <1>5, <1>6 DEF IInv, TableInv, OutcomeInv

\* A context ends.
LEMMA CtxExpireStep ==
    ASSUME IInv, NEW p \in Call, CtxExpire(p) PROVE IInv'
<1> USE IInvSplit, EntryFacts, CallFacts DEF CtxExpire
<1>1. TypeOK' BY DEF TypeOK
<1>2. LockInv' BY DEF TypeOK, LockInv, Writing, IsCall
<1>3. TagInv' /\ CancelInv' BY DEF TypeOK, TagInv, CancelInv, HasTag
<1>4. CallersAdvance
  BY DEF TypeOK, CallersAdvance, Live, IsCall, IsListen, Waiting
<1>5. TableInv' BY <1>4, TableFrame DEF TypeOK, Waiting
<1>6. OutcomeInv' BY OutcomeFrame
<1>. QED BY <1>1, <1>2, <1>3, <1>5, <1>6 DEF IInv, TableInv, OutcomeInv

\* An application stops receiving.
LEMMA StopReadingStep ==
    ASSUME IInv, NEW l \in Listeners, StopReading(l) PROVE IInv'
<1> USE IInvSplit, EntryFacts, CallFacts DEF StopReading
<1>1. TypeOK' BY DEF TypeOK
<1>2. LockInv' BY DEF TypeOK, LockInv, Writing, IsCall
<1>3. TagInv' /\ CancelInv' BY DEF TypeOK, TagInv, CancelInv, HasTag
<1>4. CallersAdvance
  BY DEF TypeOK, CallersAdvance, Live, IsCall, IsListen, Waiting
<1>5. TableInv' BY <1>4, TableFrame DEF TypeOK, Waiting
<1>6. OutcomeInv' BY OutcomeFrame
<1>. QED BY <1>1, <1>2, <1>3, <1>5, <1>6 DEF IInv, TableInv, OutcomeInv

-----------------------------------------------------------------------------
(* The theorems.                                                           *)

\* The invariant holds initially.
LEMMA InitEstablishes == Init => IInv
<1> SUFFICES ASSUME Init PROVE IInv OBVIOUS
<1> USE EntryFacts, CallFacts DEF Init
<1>1. TypeOK
  <2>1. /\ tag \in [Entry -> 0 .. MaxTag] /\ tags \in [Tag -> Entry \cup {None}]
        /\ re \in [Call -> Nat] /\ buf \in [Listeners -> 0 .. Queue]
    BY BoundAssumption
  <2>2. /\ closed \in [Entry -> BOOLEAN] /\ err \in [Call -> Err]
        /\ fin \in [Call -> BOOLEAN] /\ reading \in [Listeners -> BOOLEAN]
        /\ stop \in [Listeners -> {"nil", "open", "closed"}]
        /\ ctxDone \in [Call -> BOOLEAN] /\ res \in [Call -> Result]
        /\ cpc \in [Call -> CancelPC]
    BY DEF Err, Result, CancelPC
  <2>3. /\ pc \in [Call -> RunPC \cup ListenPC]
        /\ \A p \in Runners : pc[p] \in RunPC
        /\ \A l \in Listeners : pc[l] \in ListenPC
    BY DEF RunPC, ListenPC
  <2>4. nextTag \in 0 .. MaxTag /\ lpc \in LoopPC /\ lsen \in Sentence
    BY BoundAssumption, NoSentenceType DEF LoopPC
  <2>. QED BY <2>1, <2>2, <2>3, <2>4 DEF TypeOK, Err
<1>2. LockInv /\ TagInv /\ CancelInv
  BY DEF LockInv, TagInv, CancelInv, Writing, HasTag, IsCall
<1>3. TableInv
  BY DEF TableInv, RegInv, LoopInv, ClosedInv, NoOrphan, Waiting
<1>4. OutcomeInv
  BY DEF OutcomeInv, PhaseInv, StopInv, DoneInv, CleanEnd, NoPanic
<1>. QED BY <1>1, <1>2, <1>3, <1>4 DEF IInv, TableInv, OutcomeInv

\* Every step preserves the invariant.
LEMMA NextPreserves == IInv /\ [Next]_vars => IInv'
<1> SUFFICES ASSUME IInv, [Next]_vars PROVE IInv' OBVIOUS
<1>1. CASE \E p \in Runners : RunStep(p)
  BY <1>1, RunCallStep, RunBeginStep, RunTagStep, RunRegisterStep,
     RunFlushStep, SyncEndStep, RunWakeStep, RunCtxStep, RunDrainedStep
     DEF RunStep
<1>2. CASE \E l \in Listeners : ListenStep(l)
  BY <1>2, ListenCallStep, ListenBeginStep, ListenLockStep, ListenFlushStep,
     WatchSelectStep, ConsumeStep DEF ListenStep
<1>3. CASE \E p \in Call : CancelStep(p)
  BY <1>3, CancelRegisterStep, CancelBeginStep, CancelEndStep DEF CancelStep
<1>4. CASE LoopStep
  BY <1>4, LoopLookupStep, LoopProcessReplyStep, LoopSendStep,
     LoopProcessListenStep, LoopDeleteStep, LoopCloseStep, LoopCloseTagsStep,
     LoopReportStep DEF LoopStep
<1>5. CASE ReadStep
  BY <1>5, LoopReadStep, SyncReadStep, LoopReadErrStep, SyncReadErrStep
     DEF ReadStep
<1>6. CASE EnvStep
  BY <1>6, AsyncStep, CloseStep, ConnBreakStep, CtxExpireStep,
     StopReadingStep DEF EnvStep
<1>7. CASE UNCHANGED vars
  BY <1>7
     DEF vars, IInv, TypeOK, LockInv, TagInv, RegInv, PhaseInv, LoopInv,
         ClosedInv, CancelInv, StopInv, DoneInv, NoOrphan, CleanEnd, NoPanic,
         Writing, HasTag, Live, Waiting, Lookup, IsCall, IsListen
<1>. QED BY <1>1, <1>2, <1>3, <1>4, <1>5, <1>6, <1>7 DEF Next

\* IInv is an invariant: type correctness, no double close or send on a closed
\* channel, no orphaned waiter, and no lost connection taken for a clean end
\* are among its conjuncts.
THEOREM Invariance == Spec => []IInv
<1>1. Init => IInv BY InitEstablishes
<1>2. IInv /\ [Next]_vars => IInv' BY NextPreserves
<1>. QED BY <1>1, <1>2, PTL DEF Spec

\* Every variable of the client keeps its type.
THEOREM TypeCorrect == Spec => []TypeOK
<1>1. IInv => TypeOK BY DEF IInv
<1>. QED BY <1>1, Invariance, PTL

\* No reply channel is closed twice and none is sent to after its close.
THEOREM NeverPanics == Spec => []NoPanic
<1>1. IInv => NoPanic BY DEF IInv
<1>. QED BY <1>1, Invariance, PTL

\* Every waiter with an open channel can be found by asyncLoop.
THEOREM WaitersReachable == Spec => []NoOrphan
<1>1. IInv => NoOrphan BY DEF IInv
<1>. QED BY <1>1, Invariance, PTL

\* Without Close, a call that ends without an error has seen its !done.
THEOREM CleanEndIsDone == Spec => []CleanEnd
<1>1. IInv => CleanEnd BY DEF IInv
<1>. QED BY <1>1, Invariance, PTL

\* At most one sentence is being written at any time.
THEOREM SentencesDoNotMix == Spec => []SentenceExclusive
<1>1. IInv => SentenceExclusive BY DEF IInv, LockInv, SentenceExclusive
<1>. QED BY <1>1, Invariance, PTL

\* A sentence reaches the request that owns its tag, and no other.
THEOREM RepliesDoNotCross == Spec => []NoCrossTalk
<1>1. IInv => NoCrossTalk
  BY DEF IInv, LoopInv, TagInv, NoCrossTalk, Tag
<1>. QED BY <1>1, Invariance, PTL

\* No step changes the reply of a call that has returned or is closed.
LEMMA StepKeepsReplies ==
    ASSUME IInv, [Next]_vars, NEW p \in Call,
           pc[p] = "returned" \/ closed[CallOf(p)]
    PROVE  re'[p] = re[p] /\ fin'[p] = fin[p] /\ err'[p] = err[p]
<1> USE IInvSplit, EntryFacts, CallFacts
<1>0. pc[p] # "sync" /\ (CallOf(p) \in Entry)
  BY DEF TableInv, ClosedInv, IsCall, Waiting
<1>1. ~Live(CallOf(p)) \/ closed[CallOf(p)]
  BY DEF Live, IsCall, IsListen
<1>2. lpc \in {"process", "delete", "close"} => lent # CallOf(p)
  BY <1>1 DEF TableInv, LoopInv
<1>3. ~Registered(CallOf(p))
  BY <1>0, <1>1 DEF TableInv, RegInv, Registered
<1>4. CASE \E q \in Runners : RunStep(q)
  BY <1>4 DEF RunStep, RunCall, RunBegin, RunTag, RunRegister, RunFlush,
     SyncEnd, RunWake, RunCtx, RunDrained
<1>5. CASE \E l \in Listeners : ListenStep(l)
  BY <1>5 DEF ListenStep, ListenCall, ListenBegin, ListenLock, ListenFlush,
     WatchSelect, Consume
<1>6. CASE \E q \in Call : CancelStep(q)
  BY <1>6 DEF CancelStep, CancelRegister, CancelBegin, CancelEnd
<1>7. CASE LoopStep
  <2>1. CASE LoopProcessReply
    <3>1. /\ lent \in Entry /\ (IsCall(lent) => lent[1] # p)
          /\ err' = err
          /\ re' = re \/ (IsCall(lent) /\ re' = [re EXCEPT ![lent[1]] = @ + 1])
          /\ fin' = fin \/ (IsCall(lent) /\ fin' = [fin EXCEPT ![lent[1]] = TRUE])
      BY <1>2, <2>1 DEF LoopProcessReply, TableInv, LoopInv, IsCall
    <3>. QED BY <3>1 DEF TypeOK
  <2>2. CASE LoopSend
    BY <1>2, <2>2 DEF LoopSend, TypeOK, TableInv, LoopInv, IsListen, IsCall
  <2>3. CASE LoopProcessListen
    BY <1>2, <2>3
       DEF LoopProcessListen, TypeOK, TableInv, LoopInv, IsListen, IsCall
  <2>4. CASE LoopClose
    BY <1>2, <2>4 DEF LoopClose, TypeOK, TableInv, LoopInv, IsCall
  <2>5. CASE LoopCloseTags
    BY <1>3, <2>5 DEF LoopCloseTags, TypeOK
  <2>6. CASE LoopLookup \/ LoopDelete \/ LoopReport
    BY <2>6 DEF LoopLookup, LoopDelete, LoopReport
  <2>. QED BY <1>7, <2>1, <2>2, <2>3, <2>4, <2>5, <2>6 DEF LoopStep
<1>8. CASE ReadStep
  <2>1. ASSUME NEW q \in Runners, NEW sen \in Sentence, SyncRead(q, sen)
        PROVE  re'[p] = re[p] /\ fin'[p] = fin[p] /\ err'[p] = err[p]
    BY <1>0, <2>1 DEF SyncRead, TypeOK
  <2>2. CASE \/ \E sen \in Sentence : LoopRead(sen)
             \/ LoopReadErr
             \/ \E q \in Runners : SyncReadErr(q)
    BY <2>2 DEF LoopRead, LoopReadErr, SyncReadErr
  <2>. QED BY <1>8, <2>1, <2>2 DEF ReadStep
<1>9. CASE EnvStep
  BY <1>9 DEF EnvStep, Async, Close, ConnBreak, CtxExpire, StopReading
<1>10. CASE UNCHANGED vars BY <1>10 DEF vars
<1>. QED BY <1>4, <1>5, <1>6, <1>7, <1>8, <1>9, <1>10 DEF Next

\* After Run has returned, or a channel is closed, asyncLoop leaves the reply
\* alone.
THEOREM RepliesFrozen == Spec => ReplyFrozen
<1>1. IInv /\ [Next]_vars =>
        [\A p \in Call :
            pc[p] = "returned" \/ closed[CallOf(p)] =>
              re'[p] = re[p] /\ fin'[p] = fin[p] /\ err'[p] = err[p]]_vars
  BY StepKeepsReplies
<1>. QED BY <1>1, Invariance, PTL DEF Spec, ReplyFrozen

-----------------------------------------------------------------------------
(* AsyncClient implements Runs: with its invariant, every step is a step   *)
(* of the abstract specification, or changes nothing that it shows.        *)

\* The reply of the call cannot change any more.
Sealed(p) == closed[CallOf(p)] \/ pc[p] = "returned"

\* A call has a result when it has returned, and not before.
ResInv == \A p \in Runners : res[p] = "pending" <=> pc[p] # "returned"

RInv == IInv /\ ResInv

\* Before the first call nobody has a result.
LEMMA InitResults == Init => RInv
  <1>1. Init => ResInv
    BY CallFacts DEF Init, ResInv
  <1>. QED BY <1>1, InitEstablishes DEF RInv

\* The end of a call gives its result.
LEMMA ReturnResults ==
    ASSUME IInv, ResInv, NEW p \in Call, NEW r, Return(p, r), r # "pending"
    PROVE  ResInv'
  BY CallFacts DEF ResInv, IInv, TypeOK, Return

\* A step that moves a call which is not over, or none.
LEMMA GotoResults ==
    ASSUME IInv, ResInv, NEW p \in Call, pc[p] # "returned", NEW w, w # "returned",
           Goto(p, w)
    PROVE  ResInv'
  BY CallFacts DEF ResInv, IInv, TypeOK, Goto

\* Results are given as calls return.
LEMMA StepResults == IInv /\ ResInv /\ [Next]_vars => ResInv'
  <1>. SUFFICES ASSUME IInv, ResInv, [Next]_vars PROVE ResInv'
    OBVIOUS
  <1>1. ASSUME NEW p \in Runners, RunStep(p) PROVE ResInv'
    <2>1. CASE RunCall(p) \/ RunBegin(p) \/ RunTag(p) \/ RunCtx(p)
      BY <2>1, GotoResults, CallFacts DEF RunCall, RunBegin, RunTag, RunCtx
    <2>2. CASE RunRegister(p)
      BY <2>2, GotoResults, ReturnResults, CallFacts DEF RunRegister
    <2>3. ASSUME NEW ok \in BOOLEAN, RunFlush(p, ok) PROVE ResInv'
      BY <2>3, GotoResults, ReturnResults, CallFacts DEF RunFlush
    <2>4. ASSUME NEW ok \in BOOLEAN, SyncEnd(p, ok) PROVE ResInv'
      BY <2>4, GotoResults, ReturnResults, CallFacts DEF SyncEnd
    <2>5. CASE RunWake(p) \/ RunDrained(p)
      <3>1. err[p] # "pending"
        BY CallFacts DEF IInv, TypeOK, Err
      <3>. QED BY <2>5, <3>1, ReturnResults, CallFacts DEF RunWake, RunDrained
    <2>. QED BY <1>1, <2>1, <2>2, <2>3, <2>4, <2>5 DEF RunStep
  <1>2. ASSUME NEW l \in Listeners, ListenStep(l) PROVE ResInv'
    <2>1. CASE ListenCall(l) \/ ListenBegin(l) \/ ListenLock(l)
      <3>1. UNCHANGED res /\ \A q \in Call \ {l} : pc'[q] = pc[q]
        BY <2>1 DEF ListenCall, ListenBegin, ListenLock, Goto, IInv, TypeOK
      <3>. QED BY <3>1, CallFacts DEF ResInv
    <2>2. ASSUME NEW ok \in BOOLEAN, NEW withCtx \in BOOLEAN, ListenFlush(l, ok, withCtx)
          PROVE  ResInv'
      <3>1. \A q \in Call \ {l} : pc'[q] = pc[q] /\ res'[q] = res[q]
        BY <2>2 DEF ListenFlush, Return, IInv, TypeOK
      <3>. QED BY <3>1, CallFacts DEF ResInv
    <2>3. CASE WatchSelect(l) \/ Consume(l)
      BY <2>3 DEF WatchSelect, Consume, ResInv
    <2>. QED BY <1>2, <2>1, <2>2, <2>3 DEF ListenStep
  <1>3. ASSUME NEW p \in Call, CancelStep(p) PROVE ResInv'
    BY <1>3 DEF CancelStep, CancelRegister, CancelBegin, CancelEnd, ResInv
  <1>4. CASE LoopStep
    BY <1>4 DEF LoopStep, LoopLookup, LoopProcessReply, LoopSend, LoopProcessListen,
                LoopDelete, LoopClose, LoopCloseTags, LoopReport, ResInv
  <1>5. CASE ReadStep
    <2>1. ASSUME NEW sen \in Sentence, LoopRead(sen) PROVE ResInv'
      BY <2>1 DEF LoopRead, ResInv
    <2>2. ASSUME NEW sen \in Sentence, NEW p \in Runners, SyncRead(p, sen) PROVE ResInv'
      <3>1. err'[p] # "pending"
        BY <2>2, CallFacts DEF SyncRead, ReplyErr, IInv, TypeOK, Err
      <3>2. CASE UNCHANGED <<pc, res>>
        BY <3>2 DEF ResInv
      <3>3. CASE Return(p, IF err'[p] = "none" THEN "ok" ELSE err'[p])
        BY <3>1, <3>3, ReturnResults, CallFacts
      <3>. QED BY <2>2, <3>2, <3>3 DEF SyncRead
    <2>3. CASE LoopReadErr
      BY <2>3 DEF LoopReadErr, ResInv
    <2>4. ASSUME NEW p \in Runners, SyncReadErr(p) PROVE ResInv'
      BY <2>4, ReturnResults, CallFacts DEF SyncReadErr
    <2>. QED BY <1>5, <2>1, <2>2, <2>3, <2>4 DEF ReadStep
  <1>6. CASE EnvStep \/ UNCHANGED vars
    BY <1>6 DEF EnvStep, Async, Close, ConnBreak, CtxExpire, StopReading, vars, ResInv
  <1>. QED BY <1>1, <1>2, <1>3, <1>4, <1>5, <1>6 DEF Next

LEMMA StepRInv == RInv /\ [Next]_vars => RInv'
  BY StepResults, NextPreserves DEF RInv

-----------------------------------------------------------------------------
(* The refinement, one lemma for each abstract step.                       *)

\* What a step leaves of a call, seen from outside.
SameReply(p) == re'[p] = re[p] /\ fin'[p] = fin[p] /\ err'[p] = err[p]
SameOutcome(p) == (Sealed(p)' <=> Sealed(p)) /\ res'[p] = res[p]

\* A step that leaves every run as it is.
LEMMA StutterRefines ==
    ASSUME \A p \in Runners : SameReply(p) /\ SameOutcome(p), UNCHANGED closing
    PROVE  UNCHANGED R!vars
  <1>1. [p \in Runners |-> Sealed(p)]' = [p \in Runners |-> Sealed(p)]
    BY DEF SameOutcome, Sealed
  <1>. QED BY <1>1 DEF SameReply, SameOutcome, Sealed, R!vars

\* A step that moves one caller.
LEMMA GotoRefines ==
    ASSUME IInv, NEW p \in Call, NEW w, pc[p] # "returned" \/ p \notin Runners,
           w # "returned" \/ p \notin Runners, NEW r, r = res[p] \/ p \notin Runners,
           pc' = [pc EXCEPT ![p] = w], res' = [res EXCEPT ![p] = r],
           UNCHANGED <<closed, re, fin, err, closing>>
    PROVE  UNCHANGED R!vars
  <1>1. \A q \in Runners : SameReply(q) /\ SameOutcome(q)
    BY CallFacts DEF SameReply, SameOutcome, Sealed, IInv, TypeOK
  <1>. QED BY <1>1, StutterRefines

\* Nothing of a call changes.
LEMMA IdleRefines ==
    ASSUME UNCHANGED <<pc, res, closed, re, fin, err, closing>>
    PROVE  UNCHANGED R!vars
  BY StutterRefines DEF SameReply, SameOutcome, Sealed

\* A call that is told what its closed reply says.
LEMMA TellRefines ==
    ASSUME IInv, ResInv, NEW p \in Runners, NEW r, Return(p, r), pc[p] # "returned",
           closed[CallOf(p)], r \in R!Verdict(err[p]),
           UNCHANGED <<closed, re, fin, err, closing>>
    PROVE  R!Next
  <1>1. res[p] = "pending" /\ res' = [res EXCEPT ![p] = r]
    BY DEF ResInv, Return
  <1>2. [q \in Runners |-> res'[q]] = [[q \in Runners |-> res[q]] EXCEPT ![p] = r]
    BY <1>1, CallFacts DEF IInv, TypeOK
  <1>3. \A q \in Runners : Sealed(q)' <=> Sealed(q)
    BY CallFacts DEF Return, Sealed, IInv, TypeOK
  <1>4. [q \in Runners |-> Sealed(q)]' = [q \in Runners |-> Sealed(q)]
    BY <1>3 DEF Sealed
  <1>5. R!Tell(p)
    BY <1>1, <1>2, <1>4 DEF R!Tell, Sealed
  <1>. QED BY <1>5 DEF R!Next

\* A call that fails before its reply is closed.
LEMMA FailRefines ==
    ASSUME IInv, ResInv, NEW p \in Runners, NEW r \in {"write", "ended", "read"},
           Return(p, r), pc[p] # "returned", ~closed[CallOf(p)],
           UNCHANGED <<closed, re, fin, err, closing>>
    PROVE  R!Next
  <1>1. res[p] = "pending" /\ ~Sealed(p)
    BY DEF ResInv, Sealed
  <1>2. [q \in Runners |-> res'[q]] = [[q \in Runners |-> res[q]] EXCEPT ![p] = r]
    BY CallFacts DEF IInv, TypeOK, Return
  <1>3. \A q \in Runners : Sealed(q)' <=> (IF q = p THEN TRUE ELSE Sealed(q))
    BY CallFacts DEF Return, Sealed, IInv, TypeOK
  <1>4. [q \in Runners |-> Sealed(q)]' =
        [[q \in Runners |-> Sealed(q)] EXCEPT ![p] = TRUE]
    BY <1>3 DEF Sealed
  <1>5. R!Fail(p)
    BY <1>1, <1>2, <1>4 DEF R!Fail, R!Open, Sealed
  <1>. QED BY <1>5 DEF R!Next

\* A sentence of an open reply: a row, the !done, a trap.
LEMMA RowRefines ==
    ASSUME IInv, NEW p \in Runners, ~Sealed(p), res[p] = "pending",
           re' = [re EXCEPT ![p] = @ + 1], UNCHANGED <<fin, err>>
    PROVE  R!Row(p)
  <1>1. [q \in Runners |-> re'[q]] =
        [[q \in Runners |-> re[q]] EXCEPT ![p] = re[p] + 1]
    BY CallFacts DEF IInv, TypeOK
  <1>. QED BY <1>1 DEF R!Row, R!Open, Sealed

LEMMA DoneRefines ==
    ASSUME IInv, NEW p \in Runners, ~Sealed(p), res[p] = "pending",
           fin' = [fin EXCEPT ![p] = TRUE], UNCHANGED <<re, err>>
    PROVE  R!Done(p)
  <1>1. [q \in Runners |-> fin'[q]] = [[q \in Runners |-> fin[q]] EXCEPT ![p] = TRUE]
    BY CallFacts DEF IInv, TypeOK
  <1>. QED BY <1>1 DEF R!Done, R!Open, Sealed

LEMMA TrapRefines ==
    ASSUME IInv, NEW p \in Runners, ~Sealed(p), res[p] = "pending",
           err' = [err EXCEPT ![p] = "device"], UNCHANGED <<re, fin>>
    PROVE  R!Trap(p)
  <1>1. [q \in Runners |-> err'[q]] = [[q \in Runners |-> err[q]] EXCEPT ![p] = "device"]
    BY CallFacts DEF IInv, TypeOK
  <1>. QED BY <1>1 DEF R!Trap, R!Open, Sealed

\* Such a sentence, when its caller goes on waiting.
LEMMA GrowRefines ==
    ASSUME NEW p \in Runners, R!Row(p) \/ R!Done(p) \/ R!Trap(p),
           UNCHANGED <<pc, res, closed, closing>>
    PROVE  R!Next
  <1>1. R!Grow(p)
    BY DEF R!Grow
  <1>. QED BY <1>1 DEF R!Next

\* And when it is the last of a synchronous call.
LEMMA GrowAndTellRefines ==
    ASSUME IInv, NEW p \in Runners, R!Done(p) \/ R!Trap(p),
           Return(p, IF err'[p] = "none" THEN "ok" ELSE err'[p]),
           UNCHANGED <<closed, closing>>
    PROVE  R!Next
  <1>. DEFINE r == IF err'[p] = "none" THEN "ok" ELSE err'[p]
  <1>1. [q \in Runners |-> res'[q]] = [[q \in Runners |-> res[q]] EXCEPT ![p] = r]
    BY CallFacts DEF IInv, TypeOK, Return
  <1>2. \A q \in Runners : Sealed(q)' <=> (IF q = p THEN TRUE ELSE Sealed(q))
    BY CallFacts DEF Return, Sealed, IInv, TypeOK
  <1>3. [q \in Runners |-> Sealed(q)]' =
        [[q \in Runners |-> Sealed(q)] EXCEPT ![p] = TRUE]
    BY <1>2 DEF Sealed
  <1>4. [q \in Runners |-> err[q]]'[p] = err'[p]
    OBVIOUS
  <1>5. R!GrowAndTell(p)
    BY <1>1, <1>3, <1>4 DEF R!GrowAndTell, Sealed
  <1>. QED BY <1>5 DEF R!Next

\* Replies are closed, with an error or complete or by Close.
LEMMA CloseRefines ==
    ASSUME IInv, ResInv, UNCHANGED <<pc, res, re, fin, closing>>,
           \A p \in Runners :
               \/ SameReply(p) /\ SameOutcome(p)
               \/ /\ ~Sealed(p) /\ Sealed(p)'
                  /\ err'[p] = err[p] \/ err[p] = "none"
                  /\ err'[p] = "none" => fin[p] \/ closing
    PROVE  R!Next
  <1>. DEFINE S == {p \in Runners : Sealed(p)' /\ ~Sealed(p)}
              B == [p \in Runners |-> Sealed(p)]
              E == [p \in Runners |-> err[p]]
  <1>1. S = {p \in Runners : B'[p] /\ ~B[p]}
    BY DEF Sealed
  <1>2. \A p \in S : /\ ~B[p] /\ res[p] = "pending"
                     /\ E'[p] = "none" => fin[p] \/ closing
    BY DEF SameReply, SameOutcome, ResInv, Sealed
  <1>3. B' = [p \in Runners |-> B[p] \/ p \in S]
    <2>1. \A p \in Runners : Sealed(p)' <=> Sealed(p) \/ p \in S
      BY DEF SameOutcome
    <2>. QED BY <2>1 DEF Sealed
  <1>4. \A p \in Runners : E'[p] # E[p] => p \in S /\ E[p] = "none"
    BY DEF SameReply, SameOutcome
  <1>5. R!CloseReplies
    BY <1>1, <1>2, <1>3, <1>4 DEF R!CloseReplies, R!Open, Sealed
  <1>. QED BY <1>5 DEF R!Next

-----------------------------------------------------------------------------
(* Every step refines one of these.                                        *)

LEMMA InitRefinesRuns == Init => R!Init
  <1>. SUFFICES ASSUME Init PROVE R!Init
    OBVIOUS
  <1>1. \A p \in Runners : ~Sealed(p) /\ ~fin[p]
    BY EntryFacts, CallFacts DEF Init, Sealed
  <1>2. [p \in Runners |-> Sealed(p)] = [p \in Runners |-> FALSE]
    BY <1>1 DEF Sealed
  <1>3. [p \in Runners |-> fin[p]] = [p \in Runners |-> FALSE]
    BY CallFacts DEF Init
  <1>. QED BY <1>2, <1>3, CallFacts DEF Init, Sealed, R!Init

\* The channel of a call that does not wait yet is open.
LEMMA UnregisteredOpen ==
    ASSUME IInv, NEW p \in Runners, pc[p] \notin {"wait", "drain", "returned"}
    PROVE  ~closed[CallOf(p)]
  <1>1. pc[p] # "listening"
    BY CallFacts DEF IInv, TypeOK, RunPC
  <1>. QED BY <1>1, EntryFacts, CallFacts DEF IInv, ClosedInv, Waiting, IsCall

\* A step of RunArgsContext.
LEMMA RunRefines ==
    ASSUME IInv, ResInv, NEW p \in Runners, RunStep(p) PROVE [R!Next]_(R!vars)
  <1>. USE CallFacts
  <1>0. res' = [res EXCEPT ![p] = res[p]] <=> res' = res
    BY DEF IInv, TypeOK
  <1>1. ASSUME NEW w, w # "returned", Goto(p, w), pc[p] # "returned",
               UNCHANGED <<closed, re, fin, err, closing>>
        PROVE  [R!Next]_(R!vars)
    BY <1>0, <1>1, GotoRefines DEF Goto
  <1>2. CASE RunCall(p) \/ RunBegin(p) \/ RunTag(p) \/ RunCtx(p)
    BY <1>1, <1>2 DEF RunCall, RunBegin, RunTag, RunCtx, replyVars
  <1>3. CASE RunRegister(p)
    <2>1. CASE Return(p, "ended")
      BY <1>3, <2>1, FailRefines, UnregisteredOpen DEF RunRegister, replyVars
    <2>2. CASE Goto(p, "flush")
      BY <1>1, <1>3, <2>2 DEF RunRegister, replyVars
    <2>. QED BY <1>3, <2>1, <2>2 DEF RunRegister
  <1>4. ASSUME NEW ok \in BOOLEAN, RunFlush(p, ok) PROVE [R!Next]_(R!vars)
    <2>1. CASE Return(p, "write")
      BY <1>4, <2>1, FailRefines, UnregisteredOpen DEF RunFlush, replyVars
    <2>2. CASE Goto(p, "wait")
      BY <1>1, <1>4, <2>2 DEF RunFlush, replyVars
    <2>. QED BY <1>4, <2>1, <2>2 DEF RunFlush
  <1>5. ASSUME NEW ok \in BOOLEAN, SyncEnd(p, ok) PROVE [R!Next]_(R!vars)
    <2>1. CASE Return(p, "write")
      BY <1>5, <2>1, FailRefines, UnregisteredOpen DEF SyncEnd, replyVars
    <2>2. CASE Goto(p, "sync")
      BY <1>1, <1>5, <2>2 DEF SyncEnd, replyVars
    <2>. QED BY <1>5, <2>1, <2>2 DEF SyncEnd
  <1>6. CASE RunWake(p)
    BY <1>6, TellRefines DEF RunWake, replyVars, R!Verdict
  <1>7. CASE RunDrained(p)
    BY <1>7, TellRefines DEF RunDrained, replyVars, R!Verdict
  <1>. QED BY <1>2, <1>3, <1>4, <1>5, <1>6, <1>7 DEF RunStep

\* Listeners and cancels leave the runs as they are.
LEMMA ListenRefines ==
    ASSUME IInv, NEW l \in Listeners, ListenStep(l) PROVE UNCHANGED R!vars
  <1>. USE CallFacts
  <1>1. \A p \in Runners : pc'[p] = pc[p] /\ res'[p] = res[p]
    <2>1. CASE ListenCall(l) \/ ListenBegin(l) \/ ListenLock(l)
      BY <2>1 DEF ListenCall, ListenBegin, ListenLock, Goto, IInv, TypeOK
    <2>2. ASSUME NEW ok \in BOOLEAN, NEW withCtx \in BOOLEAN, ListenFlush(l, ok, withCtx)
          PROVE  \A p \in Runners : pc'[p] = pc[p] /\ res'[p] = res[p]
      BY <2>2 DEF ListenFlush, Return, IInv, TypeOK
    <2>3. CASE WatchSelect(l) \/ Consume(l)
      BY <2>3 DEF WatchSelect, Consume
    <2>. QED BY <2>1, <2>2, <2>3 DEF ListenStep
  <1>2. UNCHANGED <<closed, re, fin, err, closing>>
    BY DEF ListenStep, ListenCall, ListenBegin, ListenLock, ListenFlush, WatchSelect,
           Consume, replyVars
  <1>. QED BY <1>1, <1>2, StutterRefines DEF SameReply, SameOutcome, Sealed

\* A step of asyncLoop.
LEMMA LoopRefines ==
    ASSUME IInv, ResInv, LoopStep PROVE [R!Next]_(R!vars)
  <1>. USE CallFacts
  <1>0. ASSUME lpc \in {"process", "close"}
        PROVE  /\ lent \in Entry /\ ~closed[lent] /\ Live(lent)
    BY <1>0 DEF IInv, LoopInv
  <1>1. ASSUME lpc \in {"process", "close"}, NEW p \in Runners, lent = CallOf(p)
        PROVE  ~Sealed(p) /\ res[p] = "pending"
    <2>1. pc[p] \in {"flush", "wait", "drain"}
      BY <1>0, <1>1, EntryFacts DEF Live, IsCall, IsListen
    <2>. QED BY <1>0, <1>1, <2>1 DEF Sealed, ResInv
  <1>2. CASE LoopLookup \/ LoopDelete \/ LoopReport
    BY <1>2, IdleRefines DEF LoopLookup, LoopDelete, LoopReport, replyVars
  <1>3. CASE LoopProcessReply
    <2>1. UNCHANGED <<pc, res, closed, err, closing>>
      BY <1>3 DEF LoopProcessReply
    <2>2. CASE UNCHANGED <<re, fin>>
      BY <2>1, <2>2, IdleRefines
    <2>3. ASSUME ~UNCHANGED <<re, fin>>
          PROVE  R!Next
      <3>1. PICK p \in Runners : lent = CallOf(p)
        BY <1>0, <1>3, <2>3, EntryFacts DEF LoopProcessReply, IsListen, IsCall
      <3>2. ~Sealed(p) /\ res[p] = "pending" /\ IsCall(lent) /\ lent[1] = p
        BY <1>1, <1>3, <3>1, EntryFacts DEF LoopProcessReply, IsCall
      <3>3. CASE lsen.word = "re"
        <4>1. re' = [re EXCEPT ![p] = @ + 1] /\ fin' = fin
          BY <1>3, <3>2, <3>3 DEF LoopProcessReply
        <4>. QED BY <2>1, <3>2, <4>1, RowRefines, GrowRefines
      <3>4. CASE lsen.word # "re"
        <4>1. re' = re /\ fin' = [fin EXCEPT ![p] = TRUE]
          BY <1>3, <2>3, <3>2, <3>4 DEF LoopProcessReply
        <4>. QED BY <2>1, <3>2, <4>1, DoneRefines, GrowRefines
      <3>. QED BY <3>3, <3>4
    <2>. QED BY <2>2, <2>3
  <1>4. CASE LoopSend \/ LoopProcessListen
    <2>1. lent[1] \in Listeners /\ UNCHANGED <<pc, res, closed, err, closing>>
      BY <1>4 DEF LoopSend, LoopProcessListen, IsListen
    <2>2. \A p \in Runners : re'[p] = re[p] /\ fin'[p] = fin[p]
      BY <1>4, <2>1 DEF LoopSend, LoopProcessListen, IInv, TypeOK
    <2>. QED BY <2>1, <2>2, StutterRefines DEF SameReply, SameOutcome, Sealed
  <1>5. CASE LoopClose
    <2>1. /\ lpc = "close" /\ UNCHANGED <<pc, res, re, fin, closing>>
          /\ closed' = [closed EXCEPT ![lent] = TRUE]
          /\ \A p \in Call : err'[p] = IF lent = CallOf(p) /\ err[p] = "none"
                                       THEN lerr ELSE err[p]
      BY <1>0, <1>5, EntryFacts DEF LoopClose, IsCall, IInv, TypeOK
    <2>2. ASSUME NEW p \in Runners, lent # CallOf(p) PROVE SameReply(p) /\ SameOutcome(p)
      BY <1>0, <2>1, <2>2, EntryFacts DEF SameReply, SameOutcome, Sealed, IInv, TypeOK
    <2>3. ASSUME NEW p \in Runners, lent = CallOf(p)
          PROVE  /\ ~Sealed(p) /\ Sealed(p)'
                 /\ err'[p] = err[p] \/ err[p] = "none"
                 /\ err'[p] = "none" => fin[p] \/ closing
      <3>1. ~Sealed(p) /\ Sealed(p)'
        BY <1>0, <1>1, <2>1, <2>3, EntryFacts DEF Sealed, IInv, TypeOK
      <3>2. lerr = "none" => fin[p]
        BY <2>1, <2>3, EntryFacts DEF IInv, DoneInv, IsCall
      <3>. QED BY <2>1, <2>3, <3>1, <3>2
    <2>. QED BY <2>1, <2>2, <2>3, CloseRefines
  <1>6. CASE LoopCloseTags
    <2>1. /\ UNCHANGED <<pc, res, re, fin, closing>>
          /\ \A e \in Entry : closed'[e] <=> closed[e] \/ Registered(e)
          /\ \A p \in Call : err'[p] = IF Registered(CallOf(p)) THEN CloseTagsErr(p)
                                                               ELSE err[p]
      BY <1>6 DEF LoopCloseTags
    <2>2. ASSUME NEW p \in Runners, ~Registered(CallOf(p))
          PROVE  SameReply(p) /\ SameOutcome(p)
      BY <2>1, <2>2, EntryFacts DEF SameReply, SameOutcome, Sealed
    <2>3. ASSUME NEW p \in Runners, Registered(CallOf(p))
          PROVE  /\ ~Sealed(p) /\ Sealed(p)'
                 /\ err'[p] = err[p] \/ err[p] = "none"
                 /\ err'[p] = "none" => fin[p] \/ closing
      <3>1. ~closed[CallOf(p)] /\ Live(CallOf(p))
        BY <2>3, EntryFacts DEF Registered, IInv, RegInv
      <3>2. ~Sealed(p) /\ Sealed(p)'
        BY <2>1, <2>3, <3>1, EntryFacts DEF Sealed, Live, IsCall, IsListen
      <3>. QED BY <2>1, <2>3, <3>2 DEF CloseTagsErr
    <2>. QED BY <2>1, <2>2, <2>3, CloseRefines
  <1>. QED BY <1>2, <1>3, <1>4, <1>5, <1>6 DEF LoopStep

\* A read: a sentence that the loop will look up, or that a synchronous call
\* takes for its own, or an error.
LEMMA ReadRefines ==
    ASSUME IInv, ResInv, ReadStep PROVE [R!Next]_(R!vars)
  <1>. USE CallFacts
  <1>1. ASSUME NEW sen \in Sentence, LoopRead(sen) PROVE UNCHANGED R!vars
    BY <1>1, IdleRefines DEF LoopRead, replyVars
  <1>2. CASE LoopReadErr
    BY <1>2, IdleRefines DEF LoopReadErr, replyVars
  <1>3. ASSUME NEW p \in Runners, SyncReadErr(p) PROVE R!Next
    BY <1>3, FailRefines, UnregisteredOpen DEF SyncReadErr, replyVars
  <1>4. ASSUME NEW p \in Runners, NEW sen \in Sentence, SyncRead(p, sen)
        PROVE  [R!Next]_(R!vars)
    <2>. DEFINE w == sen.word
    <2>1. ~Sealed(p) /\ res[p] = "pending" /\ UNCHANGED <<closed, closing>>
      BY <1>4, UnregisteredOpen DEF SyncRead, Sealed, ResInv
    <2>2. w \in Word
      BY DEF Sentence
    <2>3. CASE w = "re"
      <3>1. re' = [re EXCEPT ![p] = @ + 1] /\ UNCHANGED <<fin, err, pc, res>>
        BY <1>4, <2>3 DEF SyncRead, ReplyErr, ReplyDone, IInv, TypeOK
      <3>. QED BY <2>1, <3>1, RowRefines, GrowRefines
    <2>4. CASE w = "done"
      <3>1. fin' = [fin EXCEPT ![p] = TRUE] /\ UNCHANGED <<re, err>>
        BY <1>4, <2>4 DEF SyncRead, ReplyErr, IInv, TypeOK
      <3>2. Return(p, IF err'[p] = "none" THEN "ok" ELSE err'[p])
        BY <1>4, <2>4 DEF SyncRead, ReplyDone
      <3>. QED BY <2>1, <3>1, <3>2, DoneRefines, GrowAndTellRefines
    <2>5. CASE w \in {"trap", "trap2", "fatal"}
      <3>1. err' = [err EXCEPT ![p] = "device"] /\ UNCHANGED <<re, fin>>
        BY <1>4, <2>5 DEF SyncRead, ReplyErr, IInv, TypeOK
      <3>2. R!Trap(p)
        BY <2>1, <3>1, TrapRefines
      <3>3. CASE Return(p, IF err'[p] = "none" THEN "ok" ELSE err'[p])
        BY <2>1, <3>2, <3>3, GrowAndTellRefines
      <3>4. CASE UNCHANGED <<pc, res>>
        BY <2>1, <3>2, <3>4, GrowRefines
      <3>. QED BY <1>4, <3>3, <3>4 DEF SyncRead
    <2>6. CASE w = "empty"
      <3>1. UNCHANGED <<re, fin, err, pc, res>>
        BY <1>4, <2>6 DEF SyncRead, ReplyErr, ReplyDone, IInv, TypeOK
      <3>. QED BY <2>1, <3>1, IdleRefines
    <2>. QED BY <2>2, <2>3, <2>4, <2>5, <2>6 DEF Word
  <1>. QED BY <1>1, <1>2, <1>3, <1>4 DEF ReadStep

\* Every step is one of Runs, or a stutter.
LEMMA StepRefinesRuns == RInv /\ [Next]_vars => [R!Next]_(R!vars)
  <1>. SUFFICES ASSUME IInv, ResInv, [Next]_vars PROVE [R!Next]_(R!vars)
    BY DEF RInv
  <1>1. ASSUME NEW p \in Call, CancelStep(p) PROVE UNCHANGED R!vars
    BY <1>1, IdleRefines DEF CancelStep, CancelRegister, CancelBegin, CancelEnd, replyVars
  <1>2. CASE Close
    <2>1. R!Shut
      <3>1. UNCHANGED <<pc, res, closed, re, fin, err>> /\ closing' = TRUE
        BY <1>2 DEF Close, replyVars
      <3>. QED BY <3>1 DEF R!Shut
    <2>. QED BY <2>1 DEF R!Next
  <1>3. ASSUME Async \/ ConnBreak \/ (\E p \in Call : CtxExpire(p))
               \/ (\E l \in Listeners : StopReading(l))
        PROVE  UNCHANGED R!vars
    BY <1>3, IdleRefines DEF Async, ConnBreak, CtxExpire, StopReading, replyVars
  <1>4. CASE UNCHANGED vars
    BY <1>4, IdleRefines DEF vars, replyVars
  <1>. QED BY RunRefines, ListenRefines, <1>1, LoopRefines, ReadRefines, <1>2, <1>3, <1>4
           DEF Next, EnvStep

\* The client keeps the promise of Runs to every caller, whatever the device
\* sends and whatever the other callers do.
THEOREM ImplementsRuns == Spec => AnswersRuns
  <1>1. Spec => []RInv
    BY InitResults, StepRInv, PTL DEF Spec
  <1>2. Init => R!Init
    BY InitRefinesRuns
  <1>3. []RInv /\ [][Next]_vars => [][R!Next]_(R!vars)
    BY StepRefinesRuns, PTL
  <1>. QED BY <1>1, <1>2, <1>3, PTL DEF Spec, AnswersRuns, R!Spec
=============================================================================
