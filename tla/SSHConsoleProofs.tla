--------------------------- MODULE SSHConsoleProofs ---------------------------
(***************************************************************************)
(* TLAPS proofs about SSHClient and SSHConsole, for every number of        *)
(* callers, validators, lines and host keys: SSHClient keeps its mutual    *)
(* exclusion and implements the promise of Turns; the connection of a Dial *)
(* keeps these guarantees, and its peer stays a trusted one when keys are  *)
(* exchanged again; what Validate returns is what the device said of its   *)
(* own line, or that it said nothing recognisable; the device reads the    *)
(* line back from the script character by character, unless it has a       *)
(* variable or a newline; and the line of a command with safe values is    *)
(* read back as that command.                                              *)
(***************************************************************************)
EXTENDS SSHConsole, Induction, FiniteSetTheorems, SequenceTheorems, TLAPS

-----------------------------------------------------------------------------
(* SSHClient, and that it implements Turns.                                *)

\* The inductive invariant holds at the start.
LEMMA InitInv == Init => IInv
BY SSHAssumption DEF Init, IInv, TypeOK, PC, Answer, Result, OwnOutput

\* Every step of a caller, of its goroutine, of the device and of the
\* environment preserves the invariant.
LEMMA StepInv == IInv /\ [Next]_vars => IInv'
<1> SUFFICES ASSUME IInv, [Next]_vars PROVE IInv'
  OBVIOUS
<1> USE SSHAssumption DEF IInv, TypeOK, PC, Answer, Result, OwnOutput
<1>1. ASSUME NEW p \in Caller, RunCall(p) PROVE IInv'
  BY <1>1 DEF RunCall, Return, Unlock
<1>2. ASSUME NEW p \in Caller, RunLock(p) PROVE IInv'
  BY <1>2 DEF RunLock, Free
<1>3. ASSUME NEW p \in Caller, OpenFails(p) PROVE IInv'
  BY <1>3 DEF OpenFails, Return, Unlock
<1>4. ASSUME NEW p \in Caller, RunCtx(p) PROVE IInv'
  BY <1>4 DEF RunCtx, CloseSession
<1>5. ASSUME NEW p \in Caller, RunReap(p) PROVE IInv'
  BY <1>5 DEF RunReap, Return, Unlock
<1>6. ASSUME NEW p \in Caller, RunAnswer(p) PROVE IInv'
  BY <1>6 DEF RunAnswer, Return, Unlock, ResultOf
<1>7. ASSUME NEW p \in Caller, OutputEnds(p) PROVE IInv'
  BY <1>7 DEF OutputEnds
<1>8. ASSUME NEW p \in Caller, SessionOpens(p) PROVE IInv'
  BY <1>8 DEF SessionOpens
<1>9. ASSUME NEW p \in Caller, DevAnswer(p) \/ DevCloses(p) PROVE IInv'
  BY <1>9 DEF DevAnswer, DevCloses
<1>10. ASSUME NEW p \in Caller, CtxEnd(p) PROVE IInv'
  BY <1>10 DEF CtxEnd
<1>11. ASSUME Close PROVE IInv'
  BY <1>11 DEF Close
<1>12. ASSUME ConnBreak PROVE IInv'
  BY <1>12 DEF ConnBreak
<1>13. CASE UNCHANGED vars
  BY <1>13 DEF vars
<1> QED
  BY <1>1, <1>2, <1>3, <1>4, <1>5, <1>6, <1>7, <1>8, <1>9, <1>10, <1>11,
     <1>12, <1>13 DEF Next, Local, Device

\* The invariant holds in every state of every behaviour.
THEOREM TurnsInvariance == Spec => []IInv
<1>1. Init /\ [][Next]_vars => []IInv
  BY InitInv, StepInv, PTL
<1> QED
  BY <1>1, PTL DEF Spec

\* A connection has one open session and one running line at most, that of the
\* holder of the mutex: a cancelled Run leaves nothing behind (Run).
THEOREM SessionsAlternate == Spec => []OneAtATime
<1>1. IInv => OneAtATime
  BY DEF IInv, OneAtATime
<1> QED
  BY <1>1, TurnsInvariance, PTL

\* What a caller gets is what the device said of its own line (Run).
THEOREM OutputIsOwn == Spec => []OwnOutput
<1>1. IInv => OwnOutput
  BY DEF IInv
<1> QED
  BY <1>1, TurnsInvariance, PTL

-----------------------------------------------------------------------------
(* The refinement.                                                         *)

\* Nothing is started, running or told before the first call.
LEMMA InitRefines == Init => T!Init
BY DEF Init, T!Init

\* The line of a caller has stopped when its Run returns.
LEMMA ReturnRefines ==
    ASSUME IInv, NEW p \in Caller, NEW r \in Result \ {"none"}, Return(p, r),
           pc[p] # "returned", output[p] # "running", UNCHANGED output,
           r \in {"text", "empty", "failed"} => output[p] # "none"
    PROVE  T!Tell(p, r)
<1>1. res[p] = "none" /\ res' = [res EXCEPT ![p] = r]
  BY DEF IInv, Return
<1>2. {q \in Caller : sess'[q] = "open" \/ output'[q] = "running"} =
      {q \in Caller : sess[q] = "open" \/ output[q] = "running"} \ {p}
  BY DEF IInv, TypeOK, Return
<1> QED
  BY <1>1, <1>2 DEF T!Tell

\* Every step is a step of Turns, or changes nothing of what it sees.
LEMMA StepRefines == IInv /\ [Next]_vars => [T!Next]_(T!vars)
<1> SUFFICES ASSUME IInv, [Next]_vars PROVE [T!Next]_(T!vars)
  OBVIOUS
<1> DEFINE Stutter == UNCHANGED <<sess, output, res>>
<1>1. ASSUME Stutter PROVE UNCHANGED T!vars
  BY <1>1 DEF T!vars
<1>2. ASSUME NEW p \in Caller, NEW r \in Result \ {"none"}, T!Tell(p, r) PROVE T!Next
  BY <1>2 DEF T!Next
<1>3. ASSUME NEW p \in Caller, RunCall(p) PROVE [T!Next]_(T!vars)
  <2>1. CASE ctxDone[p] /\ Return(p, "ctx")
    <3>1. T!Tell(p, "ctx")
      BY <1>3, <2>1, ReturnRefines DEF RunCall, IInv, Result
    <3> QED BY <3>1, <1>2 DEF Result
  <2>2. CASE UNCHANGED <<sess, res>>
    BY <1>3, <2>2, <1>1 DEF RunCall
  <2> QED BY <1>3, <2>1, <2>2 DEF RunCall
<1>4. ASSUME NEW p \in Caller, OpenFails(p) PROVE T!Next
  <2>1. T!Tell(p, "error")
    BY <1>4, ReturnRefines DEF OpenFails, IInv, Result
  <2> QED BY <2>1, <1>2 DEF Result
<1>5. ASSUME NEW p \in Caller, SessionOpens(p) PROVE T!Next
  <2>1. pc[p] = "open" /\ mu = p /\ output[p] = "none" /\ res[p] = "none"
    BY <1>5 DEF SessionOpens, IInv
  <2>2. {q \in Caller : sess[q] = "open" \/ output[q] = "running"} = {}
    BY <2>1 DEF IInv, TypeOK
  <2>3. {q \in Caller : sess'[q] = "open" \/ output'[q] = "running"} = {p}
    BY <2>2, <1>5 DEF SessionOpens, IInv, TypeOK
  <2>4. {q \in Caller : output'[q] # "none"} =
        {q \in Caller : output[q] # "none"} \cup {p}
    BY <1>5 DEF SessionOpens, IInv, TypeOK
  <2>5. T!Start(p)
    BY <2>1, <2>2, <2>3, <2>4, <1>5 DEF T!Start, SessionOpens
  <2> QED BY <2>5 DEF T!Next
<1>6. ASSUME NEW p \in Caller, RunCtx(p) PROVE [T!Next]_(T!vars)
  \* Output may still run: only the session is closed.
  <2>1. CASE output[p] = "running"
    <3>1. {q \in Caller : sess'[q] = "open" \/ output'[q] = "running"} =
          {q \in Caller : sess[q] = "open" \/ output[q] = "running"}
      BY <1>6, <2>1 DEF RunCtx, CloseSession, IInv, TypeOK
    <3> QED BY <3>1, <1>6 DEF RunCtx, T!vars
  <2>2. CASE sess[p] = "open" /\ output[p] # "running"
    <3>1. {q \in Caller : sess'[q] = "open" \/ output'[q] = "running"} =
          {q \in Caller : sess[q] = "open" \/ output[q] = "running"} \ {p}
      BY <1>6, <2>2 DEF RunCtx, CloseSession, IInv, TypeOK
    <3>2. T!Stop(p)
      BY <3>1, <1>6, <2>2 DEF RunCtx, T!Stop
    <3> QED BY <3>2 DEF T!Next
  <2>3. CASE sess[p] # "open" /\ output[p] # "running"
    <3>1. {q \in Caller : sess'[q] = "open" \/ output'[q] = "running"} =
          {q \in Caller : sess[q] = "open" \/ output[q] = "running"}
      BY <1>6, <2>3 DEF RunCtx, CloseSession, IInv, TypeOK
    <3> QED BY <3>1, <1>6 DEF RunCtx, T!vars
  <2> QED BY <2>1, <2>2, <2>3
<1>7. ASSUME NEW p \in Caller, RunReap(p) PROVE T!Next
  <2>1. T!Tell(p, "ctx")
    BY <1>7, ReturnRefines DEF RunReap, IInv, Result
  <2> QED BY <2>1, <1>2 DEF Result
<1>8. ASSUME NEW p \in Caller, RunAnswer(p) PROVE T!Next
  <2>1. PICK v \in Result \ {"none"} : v = ResultOf(answer[p])
    BY <1>8 DEF RunAnswer, IInv, TypeOK, Answer, Result, ResultOf
  <2>2. pc[p] = "select" /\ output[p] = "sent" /\ Return(p, v) /\ UNCHANGED output
    BY <1>8, <2>1 DEF RunAnswer
  <2>3. T!Tell(p, v)
    BY <2>2, ReturnRefines
  <2> QED BY <2>3, <1>2
<1>9. ASSUME NEW p \in Caller, OutputEnds(p) \/ DevAnswer(p) \/ DevCloses(p)
      PROVE  [T!Next]_(T!vars)
  <2>1. output[p] = "running" /\ output' = [output EXCEPT ![p] = "sent"]
        /\ UNCHANGED <<sess, res>>
    BY <1>9 DEF OutputEnds, DevAnswer, DevCloses
  <2>2. {q \in Caller : output'[q] # "none"} = {q \in Caller : output[q] # "none"}
    BY <2>1 DEF IInv, TypeOK
  <2>3. CASE sess[p] = "open"
    <3>1. {q \in Caller : sess'[q] = "open" \/ output'[q] = "running"} =
          {q \in Caller : sess[q] = "open" \/ output[q] = "running"}
      BY <2>1, <2>3 DEF IInv, TypeOK
    <3> QED BY <2>1, <2>2, <3>1 DEF T!vars
  <2>4. CASE sess[p] # "open"
    <3>1. {q \in Caller : sess'[q] = "open" \/ output'[q] = "running"} =
          {q \in Caller : sess[q] = "open" \/ output[q] = "running"} \ {p}
      BY <2>1, <2>4 DEF IInv, TypeOK
    <3>2. T!Stop(p)
      BY <2>1, <2>2, <3>1 DEF T!Stop
    <3> QED BY <3>2 DEF T!Next
  <2> QED BY <2>3, <2>4
<1>10. ASSUME NEW p \in Caller, RunLock(p) \/ CtxEnd(p) PROVE [T!Next]_(T!vars)
  BY <1>10, <1>1 DEF RunLock, CtxEnd
<1>11. ASSUME Close \/ ConnBreak \/ UNCHANGED vars PROVE [T!Next]_(T!vars)
  BY <1>11, <1>1 DEF Close, ConnBreak, vars
<1> QED
  BY <1>3, <1>4, <1>5, <1>6, <1>7, <1>8, <1>9, <1>10, <1>11
  DEF Next, Local, Device

\* A connection implements the promise of Turns: a line is executed at most
\* once and alone, and has stopped when its caller is told (Run).
THEOREM ImplementsTurns == Spec => TakesTurns
<1>1. Spec => Init /\ [][Next]_vars
  BY PTL DEF Spec
<1>2. Init => T!Init
  BY InitRefines
<1>3. []IInv /\ [][Next]_vars => [][T!Next]_(T!vars)
  BY StepRefines, PTL
<1> QED
  BY <1>1, <1>2, <1>3, TurnsInvariance, PTL DEF TakesTurns, T!Spec

-----------------------------------------------------------------------------
(* SSHConsole.                                                             *)

\* What a connection remembers of its Dial: the callback, the keys it was meant
\* to accept, and under trust on first use the key that was seen first.
DialInv ==
    /\ dial = "none" => keys = None
    /\ dial = "connected" =>
          /\ callback \in {"insecure", "known", "tofu"}
          /\ callback = "insecure" => trusted = Key
          /\ callback = "known" => trusted = Known
          /\ callback = "tofu" => keys # None /\ trusted = {keys}
    /\ PeerTrusted

-----------------------------------------------------------------------------
(* SSHClient below the console.                                            *)

\* A step of the console is a step of the client, or changes nothing of it.
LEMMA StepsOfClient == [NextSC]_varsSC => [Next]_vars
<1> SUFFICES ASSUME [NextSC]_varsSC PROVE [Next]_vars OBVIOUS
<1>1. ASSUME NEW cfg \in Config, NEW k \in Key, Handshake(cfg, k) PROVE UNCHANGED vars
  BY <1>1 DEF Handshake
<1>2. ASSUME NEW k \in Key, Rekey(k) PROVE ConnBreak \/ UNCHANGED vars
  BY <1>2 DEF Rekey, ConnBreak, vars
<1>3. ASSUME NEW p \in Caller, ValidateCall(p) \/ SRunCall(p) \/ SStep(p) \/ SDevAnswer(p)
      PROVE  [Next]_vars
  BY <1>3 DEF ValidateCall, SRunCall, SStep, SDevAnswer, Next, Local, Device
<1>4. ASSUME SEnv PROVE Next BY <1>4 DEF SEnv, Next
<1>5. ASSUME NEW cfg \in Config, DialRefused(cfg) \/ DialFails(cfg) PROVE UNCHANGED vars
  BY <1>5 DEF DialRefused, DialFails
<1>6. CASE UNCHANGED varsSC BY <1>6 DEF varsSC
<1>. QED BY <1>1, <1>2, <1>3, <1>4, <1>5, <1>6 DEF NextSC, Next

\* Callers that validate and callers that run lines take turns on the
\* connection, and get the output of their own lines (Client, Run,
\* consoleCommandTransport).
THEOREM ConsoleInvariance == SpecSC => []IInv
<1>1. InitSC => IInv BY InitInv DEF InitSC
<1>2. IInv /\ [NextSC]_varsSC => IInv' BY StepsOfClient, StepInv
<1>. QED BY <1>1, <1>2, PTL DEF SpecSC

\* A connection that is dialled, rekeyed and used for validation implements the
\* promise that lines are executed once and one at a time (Client, Run).
THEOREM ConsoleTakesTurns == SpecSC => TakesTurns
<1>1. InitSC => T!Init BY InitRefines DEF InitSC
<1>2. IInv /\ [NextSC]_varsSC => [T!Next]_(T!vars) BY StepsOfClient, StepRefines
<1>. QED BY <1>1, <1>2, ConsoleInvariance, PTL DEF SpecSC, TakesTurns, T!Spec

-----------------------------------------------------------------------------
(* The peer.                                                               *)

\* Nothing is accepted before a Dial.
LEMMA InitDial == InitSC => DialInv
<1>. QED BY DEF InitSC, DialInv, PeerTrusted

\* A Dial that fails trusts nobody.
LEMMA FailedDial ==
    ASSUME DialInv, NEW cfg \in Config, DialRefused(cfg) \/ DialFails(cfg)
    PROVE  DialInv'
<1>1. dial' \notin {"none", "connected"}
  BY DEF DialRefused, DialFails, MapSshError, BuildAuth
<1>. QED BY <1>1 DEF DialInv, PeerTrusted

\* The key of the first handshake is one the options allow.
LEMMA DialHandshake ==
    ASSUME DialInv, NEW cfg \in Config, NEW k \in Key, Handshake(cfg, k)
    PROVE  DialInv'
<1> USE DEF Handshake
<1>1. callback' \in {"insecure", "known", "tofu"}
  BY DEF Usable, HostKeyCallback, Config
<1>2. keys = None /\ peer' = k BY DEF DialInv
<1>3. dial' = "connected" => Accepts(callback', k) /\ k \in Key
  BY DEF MapSshError
<1>4. dial' # "none" BY DEF MapSshError
<1>5. /\ callback' = "insecure" => trusted' = Key
      /\ callback' = "known" => trusted' = Known
      /\ callback' = "tofu" => trusted' = {k}
  BY DEF HostKeyCallback, Usable, Config
<1>6. callback' = "tofu" => keys' = k /\ keys' # None
  BY <1>2, ConsoleAssumption DEF Remember
<1>. QED BY <1>1, <1>2, <1>3, <1>4, <1>5, <1>6 DEF DialInv, PeerTrusted, Accepts

\* A later exchange of keys breaks the connection or keeps a trusted peer.
LEMMA DialRekey ==
    ASSUME DialInv, NEW k \in Key, Rekey(k) PROVE DialInv'
<1> USE DEF Rekey
<1>1. dial = "connected" /\ dial' = dial /\ callback' = callback /\ trusted' = trusted
  OBVIOUS
<1>2. callback = "tofu" => keys' = keys BY <1>1 DEF Remember, DialInv
<1>3. conn' = "open" => Accepts(callback, k) BY DEF DialInv
<1>4. Accepts(callback, k) => k \in trusted BY <1>1 DEF Accepts, DialInv
<1>. QED BY <1>1, <1>2, <1>3, <1>4 DEF DialInv, PeerTrusted

\* No other step opens a connection or exchanges keys.
LEMMA OthersKeepDial ==
    ASSUME DialInv, UNCHANGED dialVars, conn' = "open" => conn = "open" PROVE DialInv'
<1>. QED BY DEF DialInv, PeerTrusted, dialVars

\* The peer of a connection in use is one the options allow, whatever keys it
\* presents later (hostKeyCallback, hostKeyStore).
THEOREM PeerStaysTrusted == SpecSC => []PeerTrusted
<1>1. DialInv /\ [NextSC]_varsSC => DialInv'
  <2> SUFFICES ASSUME DialInv, [NextSC]_varsSC PROVE DialInv' OBVIOUS
  <2>1. ASSUME NEW p \in Caller, ValidateCall(p) \/ SRunCall(p) \/ SStep(p) \/ SDevAnswer(p)
        PROVE  UNCHANGED dialVars /\ conn' = conn
    BY <2>1 DEF ValidateCall, SRunCall, SStep, SDevAnswer, RunCall, RunLock, OpenFails, RunCtx,
                RunReap, RunAnswer, SessionOpens, OutputEnds, CtxEnd, DevAnswer, DevCloses, vars
  <2>2. ASSUME SEnv PROVE UNCHANGED dialVars /\ conn' # "open"
    BY <2>2 DEF SEnv, Close, ConnBreak
  <2>3. CASE UNCHANGED varsSC BY <2>3, OthersKeepDial DEF varsSC, vars
  <2>. QED
    BY <2>1, <2>2, <2>3, FailedDial, DialHandshake, DialRekey, OthersKeepDial DEF NextSC
<1>2. DialInv => PeerTrusted BY DEF DialInv
<1>. QED BY <1>1, <1>2, InitDial, PTL DEF SpecSC

-----------------------------------------------------------------------------
(* Escaping: what FlattenSeq, Escape and Escaped compute.                  *)

\* The text f[i] of the first i texts of ss, one after the other.
Flat(ss, f) == f = [i \in DOMAIN ss |-> IF i = 1 THEN ss[i] ELSE f[i-1] \o ss[i]]

\* There is one such function.
LEMMA FlatUnique ==
    ASSUME NEW S, NEW ss \in Seq(S), NEW f, Flat(ss, f), NEW g, Flat(ss, g)
    PROVE  f = g
  <1>. DEFINE A == {i \in Nat : i + 1 \in DOMAIN ss => f[i + 1] = g[i + 1]}
  <1>0. PICK n \in Nat : n = Len(ss)
    OBVIOUS
  <1>1. /\ \A i \in DOMAIN ss : f[i] = IF i = 1 THEN ss[i] ELSE f[i-1] \o ss[i]
        /\ \A i \in DOMAIN ss : g[i] = IF i = 1 THEN ss[i] ELSE g[i-1] \o ss[i]
        /\ DOMAIN ss = 1 .. n
    <2>1. ASSUME NEW h, Flat(ss, h), NEW i \in DOMAIN ss
          PROVE  h[i] = IF i = 1 THEN ss[i] ELSE h[i-1] \o ss[i]
      <3>. DEFINE k == [j \in DOMAIN ss |-> IF j = 1 THEN ss[j] ELSE h[j-1] \o ss[j]]
      <3>1. k[i] = IF i = 1 THEN ss[i] ELSE h[i-1] \o ss[i]
        OBVIOUS
      <3>2. h = k
        BY <2>1 DEF Flat
      <3>. HIDE DEF k
      <3>. QED BY <3>1, <3>2
    <2>. QED BY <1>0, <2>1
  <1>2. 0 \in A
    BY <1>1
  <1>3. \A i \in Nat : i \in A => i + 1 \in A
    <2>. SUFFICES ASSUME NEW i \in Nat, i \in A, i + 2 \in DOMAIN ss
                  PROVE  f[i + 2] = g[i + 2]
      BY <1>1
    <2>1. i + 1 \in DOMAIN ss /\ (i + 2) - 1 = i + 1 /\ i + 2 # 1
      BY <1>1
    <2>2. f[i + 1] = g[i + 1]
      BY <2>1
    <2>. QED BY <1>1, <2>1, <2>2
  <1>. HIDE DEF A
  <1>4. \A i \in Nat : i \in A
    BY <1>2, <1>3, NatSet
  <1>5. \A i \in DOMAIN ss : i - 1 \in Nat /\ (i - 1) + 1 = i
    BY <1>1
  <1>6. \A i \in DOMAIN ss : f[i] = g[i]
    BY <1>4, <1>5 DEF A
  <1>7. f = [i \in DOMAIN ss |-> f[i]] /\ g = [i \in DOMAIN ss |-> g[i]]
    BY DEF Flat
  <1>. QED BY <1>6, <1>7

\* FlattenSeq ends with its last value.
LEMMA FlatIs ==
    ASSUME NEW S, NEW ss \in Seq(S), ss # <<>>, NEW f, Flat(ss, f)
    PROVE  FlattenSeq(ss) = f[Len(ss)]
  <1>. DEFINE g == CHOOSE h : h = [i \in 1 .. Len(ss) |-> IF i = 1 THEN ss[i] ELSE h[i-1] \o ss[i]]
  <1>1. Flat(ss, g)
    <2>1. DOMAIN ss = 1 .. Len(ss)
      OBVIOUS
    <2>2. \E h : h = [i \in 1 .. Len(ss) |-> IF i = 1 THEN ss[i] ELSE h[i-1] \o ss[i]]
      BY <2>1 DEF Flat
    <2>3. g = [i \in 1 .. Len(ss) |-> IF i = 1 THEN ss[i] ELSE g[i-1] \o ss[i]]
      BY <2>2
    <2>. QED BY <2>1, <2>3 DEF Flat
  <1>2. g = f
    <2>. HIDE DEF g
    <2>. QED BY <1>1, FlatUnique
  <1>3. Len(ss) # 0
    OBVIOUS
  <1>4. FlattenSeq(ss) = g[Len(ss)]
    BY <1>3 DEF FlattenSeq
  <1>. QED BY <1>2, <1>4

\* The same up to k, for the induction.
Built(ss, k, f) == \A i \in 1 .. k : f[i] = IF i = 1 THEN ss[i] ELSE f[i-1] \o ss[i]

Partial(ss, C, k) == \E f \in [1 .. k -> Seq(C)] : Built(ss, k, f)

\* There is such a function.
LEMMA FlatExists ==
    ASSUME NEW C, NEW ss \in Seq(Seq(C))
    PROVE  \E f \in [DOMAIN ss -> Seq(C)] : Flat(ss, f)
  <1>. DEFINE A == {k \in Nat : k <= Len(ss) => Partial(ss, C, k)}
  <1>0. PICK n \in Nat : n = Len(ss) /\ DOMAIN ss = 1 .. n
    OBVIOUS
  <1>1. 0 \in A
    <2>. DEFINE f == [i \in 1 .. 0 |-> <<>>]
    <2>1. f \in [1 .. 0 -> Seq(C)] /\ 1 .. 0 = {}
      OBVIOUS
    <2>. HIDE DEF f
    <2>2. Built(ss, 0, f)
      BY <2>1 DEF Built
    <2>3. Partial(ss, C, 0)
      BY <2>1, <2>2 DEF Partial
    <2>. QED BY <2>3
  <1>2. \A k \in Nat : k \in A => k + 1 \in A
    <2>. SUFFICES ASSUME NEW k \in Nat, k \in A, k + 1 <= n
                  PROVE  Partial(ss, C, k + 1)
      BY <1>0
    <2>0. Partial(ss, C, k)
      BY <1>0
    <2>1. PICK f \in [1 .. k -> Seq(C)] : Built(ss, k, f)
      BY <2>0 DEF Partial
    <2>2. ss[k + 1] \in Seq(C) /\ \A i \in 1 .. k : ss[i] \in Seq(C)
      BY <1>0
    <2>3. \A u, v \in Seq(C) : u \o v \in Seq(C)
      OBVIOUS
    <2>. DEFINE g == [i \in 1 .. k + 1 |-> IF i <= k THEN f[i]
                                           ELSE IF i = 1 THEN ss[i] ELSE f[i-1] \o ss[i]]
    <2>4. \A i \in 1 .. k : g[i] = f[i]
      OBVIOUS
    <2>5. g[k + 1] = IF k + 1 = 1 THEN ss[k + 1] ELSE f[(k + 1) - 1] \o ss[k + 1]
      OBVIOUS
    <2>6. DOMAIN g = 1 .. k + 1 /\ g = [i \in 1 .. k + 1 |-> g[i]]
      OBVIOUS
    <2>. HIDE DEF g
    <2>7. k + 1 # 1 => f[(k + 1) - 1] \in Seq(C) /\ g[(k + 1) - 1] = f[(k + 1) - 1]
      BY <2>4
    <2>8. g[k + 1] \in Seq(C)
      BY <2>2, <2>3, <2>5, <2>7
    <2>9. \A i \in 1 .. k + 1 : g[i] \in Seq(C)
      BY <2>4, <2>8
    <2>10. g \in [1 .. k + 1 -> Seq(C)]
      BY <2>6, <2>9
    <2>11. \A i \in 1 .. k : i # 1 => i - 1 \in 1 .. k
      OBVIOUS
    <2>12. Built(ss, k + 1, g)
      <3>. SUFFICES ASSUME NEW i \in 1 .. k + 1
                    PROVE  g[i] = IF i = 1 THEN ss[i] ELSE g[i-1] \o ss[i]
        BY DEF Built
      <3>1. CASE i = k + 1
        BY <2>5, <2>7, <3>1
      <3>2. CASE i \in 1 .. k
        BY <2>1, <2>4, <2>11, <3>2 DEF Built
      <3>. QED BY <3>1, <3>2
    <2>. QED BY <2>10, <2>12 DEF Partial
  <1>. HIDE DEF A
  <1>3. n \in A
    BY <1>1, <1>2, NatSet
  <1>4. PICK f \in [1 .. n -> Seq(C)] : Built(ss, n, f)
    BY <1>0, <1>3 DEF A, Partial
  <1>5. f = [i \in 1 .. n |-> f[i]]
    OBVIOUS
  <1>6. f = [i \in 1 .. n |-> IF i = 1 THEN ss[i] ELSE f[i-1] \o ss[i]]
    BY <1>4, <1>5 DEF Built
  <1>. QED BY <1>0, <1>6 DEF Flat

\* The stages w of gluing the texts of ss together.
Stages(ss, C, w) ==
    /\ w \in [0 .. Len(ss) -> Seq(C)] /\ w[0] = <<>> /\ FlattenSeq(ss) = w[Len(ss)]
    /\ \A i \in 1 .. Len(ss) : ss[i] \in Seq(C) /\ w[i] = w[i - 1] \o ss[i]

\* FlattenSeq ends with the last stage.
LEMMA FlatSteps ==
    ASSUME NEW C, NEW ss \in Seq(Seq(C))
    PROVE  \E w : Stages(ss, C, w)
  <1>0. PICK n \in Nat : n = Len(ss)
    OBVIOUS
  <1>1. DOMAIN ss = 1 .. n /\ Len(ss) = n
    BY <1>0
  <1>2. PICK f \in [1 .. n -> Seq(C)] : Flat(ss, f)
    BY <1>1, FlatExists
  <1>3. \A i \in 1 .. n : f[i] = IF i = 1 THEN ss[i] ELSE f[i-1] \o ss[i]
    <2>. DEFINE k == [j \in 1 .. n |-> IF j = 1 THEN ss[j] ELSE f[j-1] \o ss[j]]
    <2>1. \A i \in 1 .. n : k[i] = IF i = 1 THEN ss[i] ELSE f[i-1] \o ss[i]
      OBVIOUS
    <2>2. f = k
      BY <1>1, <1>2 DEF Flat
    <2>. HIDE DEF k
    <2>. QED BY <2>1, <2>2
  <1>. DEFINE w == [i \in 0 .. n |-> IF i = 0 THEN <<>> ELSE f[i]]
  <1>4. /\ w[0] = <<>> /\ \A i \in 1 .. n : w[i] = f[i]
        /\ w \in [0 .. n -> Seq(C)]
    OBVIOUS
  <1>. HIDE DEF w
  <1>5. \A i \in 1 .. n : i - 1 \in 0 .. n /\ ss[i] \in Seq(C) /\ w[i] = w[i - 1] \o ss[i]
    <2>1. \A u \in Seq(C) : <<>> \o u = u
      OBVIOUS
    <2>. SUFFICES ASSUME NEW i \in 1 .. n
                  PROVE  i - 1 \in 0 .. n /\ ss[i] \in Seq(C) /\ w[i] = w[i - 1] \o ss[i]
      OBVIOUS
    <2>2. i - 1 \in 0 .. n /\ ss[i] \in Seq(C)
      BY <1>1
    <2>3. CASE i = 1
      <3>1. f[i] = ss[i] /\ w[i] = f[i]
        BY <1>3, <1>4, <2>3
      <3>2. i - 1 = 0
        BY <2>3
      <3>. QED BY <1>4, <2>1, <2>2, <3>1, <3>2
    <2>4. CASE i # 1
      <3>1. i - 1 \in 1 .. n
        BY <2>4
      <3>. QED BY <1>3, <1>4, <2>2, <2>4, <3>1
    <2>. QED BY <2>3, <2>4
  <1>6. FlattenSeq(ss) = w[n]
    <2>1. CASE n = 0
      <3>1. Len(ss) = 0
        BY <1>1, <2>1
      <3>2. FlattenSeq(ss) = ss
        BY <3>1 DEF FlattenSeq
      <3>3. ss = <<>>
        BY <1>1, <3>1
      <3>. QED BY <1>4, <2>1, <3>2, <3>3
    <2>2. CASE n # 0
      <3>1. ss # <<>> /\ n \in 1 .. n
        BY <1>1, <2>2
      <3>2. FlattenSeq(ss) = f[Len(ss)]
        BY <1>1, <1>2, <3>1, FlatIs
      <3>. QED BY <1>1, <1>4, <3>1, <3>2
    <2>. QED BY <2>1, <2>2
  <1>. QED BY <1>0, <1>4, <1>5, <1>6 DEF Stages

\* The places p of the characters of s in a text where those of X take two.
Places(s, X, p) ==
    /\ p \in [0 .. Len(s) -> Nat] /\ p[0] = 0
    /\ \A i \in 1 .. Len(s) : p[i] = p[i - 1] + (IF s[i] \in X THEN 2 ELSE 1)

\* t is s with a backslash before every character of X.
Escapes(t, s, X, p) ==
    /\ Places(s, X, p) /\ t \in Seq(Char) /\ Len(t) = p[Len(s)]
    /\ \A i \in 1 .. Len(s) :
          /\ p[i] \in DOMAIN t /\ t[p[i]] = s[i]
          /\ s[i] \in X => p[i] - 1 \in DOMAIN t /\ t[p[i] - 1] = Backslash

\* What Escape does (quoteCLIValue, StringLiteral).
LEMMA EscapeIs ==
    ASSUME NEW s \in Seq(Char), NEW c \in Char
    PROVE  \E p : Escapes(Escape(s, c), s, {c}, p)
  <1>. DEFINE ss == [i \in DOMAIN s |-> IF s[i] = c THEN <<Backslash, c>> ELSE <<s[i]>>]
  <1>0. PICK n \in Nat : n = Len(s) /\ DOMAIN s = 1 .. n
    OBVIOUS
  <1>1. Backslash \in Char /\ \A i \in 1 .. n : s[i] \in Char
    BY <1>0 DEF Char
  <1>2. \A x \in Char : <<x>> \in Seq(Char) /\ <<Backslash, x>> \in Seq(Char)
    BY <1>1
  <1>3. ss \in Seq(Seq(Char)) /\ DOMAIN ss = 1 .. n /\ Len(ss) = n
    <2>1. \A i \in 1 .. n : ss[i] \in Seq(Char)
      BY <1>0, <1>1, <1>2
    <2>2. DOMAIN ss = 1 .. n /\ ss = [i \in 1 .. n |-> ss[i]]
      BY <1>0
    <2>. HIDE DEF ss
    <2>3. ss \in [1 .. n -> Seq(Char)]
      BY <2>1, <2>2
    <2>. QED BY <2>2, <2>3
  <1>4. Escape(s, c) = FlattenSeq(ss)
    BY DEF Escape
  <1>5. \A i \in 1 .. n : ss[i] = IF s[i] = c THEN <<Backslash, c>> ELSE <<s[i]>>
    BY <1>0
  <1>. HIDE DEF ss
  <1>8. PICK w \in [0 .. n -> Seq(Char)] :
           /\ w[0] = <<>> /\ Escape(s, c) = w[n]
           /\ \A i \in 1 .. n : ss[i] \in Seq(Char) /\ w[i] = w[i - 1] \o ss[i]
    <2>1. PICK w : Stages(ss, Char, w)
      BY <1>3, FlatSteps
    <2>2. /\ w \in [0 .. n -> Seq(Char)] /\ w[0] = <<>> /\ FlattenSeq(ss) = w[n]
          /\ \A i \in 1 .. n : ss[i] \in Seq(Char) /\ w[i] = w[i - 1] \o ss[i]
      BY <1>3, <2>1 DEF Stages
    <2>. QED BY <1>4, <2>2
  <1>. DEFINE p == [i \in 0 .. n |-> Len(w[i])]
  <1>10. p \in [0 .. n -> Nat] /\ p[0] = 0 /\ \A i \in 0 .. n : p[i] = Len(w[i]) /\ p[i] \in Nat
    BY <1>8
  <1>. HIDE DEF p
  <1>11. \A u, v \in Seq(Char) :
            /\ Len(u \o v) = Len(u) + Len(v)
            /\ \A j \in 1 .. Len(u) : (u \o v)[j] = u[j]
            /\ \A j \in 1 .. Len(v) : (u \o v)[Len(u) + j] = v[j]
    OBVIOUS
  <1>12. ASSUME NEW i \in 1 .. n
         PROVE  /\ p[i] = p[i - 1] + (IF s[i] = c THEN 2 ELSE 1)
                /\ \A j \in 1 .. p[i - 1] : w[i][j] = w[i - 1][j]
                /\ w[i][p[i]] = s[i]
                /\ s[i] = c => w[i][p[i] - 1] = Backslash
    <2>1. PICK u \in Seq(Char), v \in Seq(Char), a \in Nat, b \in Nat :
             /\ u = w[i - 1] /\ v = ss[i] /\ w[i] = u \o v
             /\ a = Len(u) /\ b = Len(v) /\ p[i - 1] = a
      <3>1. i - 1 \in 0 .. n
        OBVIOUS
      <3>2. w[i - 1] \in Seq(Char) /\ ss[i] \in Seq(Char) /\ w[i] = w[i - 1] \o ss[i]
        BY <1>8, <3>1
      <3>3. \A u \in Seq(Char) : Len(u) \in Nat
        OBVIOUS
      <3>. QED BY <1>10, <3>1, <3>2, <3>3
    <2>2. p[i] = a + b
      <3>1. Len(u \o v) = Len(u) + Len(v)
        BY <1>11
      <3>2. i \in 0 .. n /\ p[i] = Len(w[i])
        BY <1>10
      <3>. QED BY <2>1, <3>1, <3>2
    <2>3. /\ \A j \in 1 .. a : w[i][j] = u[j]
          /\ \A j \in 1 .. b : w[i][a + j] = v[j]
      <3>1. /\ \A j \in 1 .. Len(u) : (u \o v)[j] = u[j]
            /\ \A j \in 1 .. Len(v) : (u \o v)[Len(u) + j] = v[j]
        BY <1>11
      <3>. QED BY <2>1, <3>1
    <2>4. CASE s[i] = c
      <3>0. Len(<<Backslash, c>>) = 2
        OBVIOUS
      <3>1. v = <<Backslash, c>> /\ b = 2
        BY <1>5, <2>1, <2>4, <3>0
      <3>2. p[i] - 1 = a + 1 /\ p[i] = a + 2
        BY <2>2, <3>1
      <3>. QED BY <2>1, <2>3, <2>4, <3>1, <3>2
    <2>5. CASE s[i] # c
      <3>0. Len(<<s[i]>>) = 1
        OBVIOUS
      <3>1. v = <<s[i]>> /\ b = 1
        BY <1>5, <2>1, <2>5, <3>0
      <3>2. p[i] = a + 1
        BY <2>2, <3>1
      <3>. QED BY <2>1, <2>3, <2>5, <3>1, <3>2
    <2>. QED BY <2>4, <2>5
  <1>13. Places(s, {c}, p)
    BY <1>0, <1>10, <1>12 DEF Places
  <1>. DEFINE Good(u, i) ==
          \A j \in 1 .. i : /\ p[j] \in 1 .. p[i] /\ u[p[j]] = s[j]
                            /\ s[j] = c => p[j] - 1 \in 1 .. p[i] /\ u[p[j] - 1] = Backslash
              A == {i \in Nat : i <= n => Good(w[i], i)}
  <1>14. 0 \in A
    OBVIOUS
  <1>15. ASSUME NEW k \in Nat, k \in A PROVE k + 1 \in A
    <2>. SUFFICES ASSUME k + 1 <= n PROVE Good(w[k + 1], k + 1)
      OBVIOUS
    <2>1. k + 1 \in 1 .. n /\ (k + 1) - 1 = k /\ k \in 0 .. n /\ k + 1 \in 0 .. n
      OBVIOUS
    <2>2. p[k] \in Nat /\ p[k + 1] \in Nat
      BY <1>10, <2>1
    <2>3. /\ p[k + 1] = p[k] + (IF s[k + 1] = c THEN 2 ELSE 1)
          /\ \A j \in 1 .. p[k] : w[k + 1][j] = w[k][j]
          /\ w[k + 1][p[k + 1]] = s[k + 1]
          /\ s[k + 1] = c => w[k + 1][p[k + 1] - 1] = Backslash
      BY <1>12, <2>1
    <2>4. Good(w[k], k)
      BY <1>15, <2>1
    <2>5. \A x \in 1 .. p[k] : x \in 1 .. p[k + 1]
      BY <2>2, <2>3
    <2>. SUFFICES ASSUME NEW j \in 1 .. k + 1
                  PROVE  /\ p[j] \in 1 .. p[k + 1] /\ w[k + 1][p[j]] = s[j]
                         /\ s[j] = c => p[j] - 1 \in 1 .. p[k + 1] /\ w[k + 1][p[j] - 1] = Backslash
      OBVIOUS
    <2>6. CASE j \in 1 .. k
      BY <2>3, <2>4, <2>5, <2>6
    <2>7. CASE j = k + 1
      <3>0. PICK a \in Nat, b \in Nat : a = p[k] /\ b = p[k + 1]
        BY <2>2
      <3>1. b \in 1 .. b /\ (s[k + 1] = c => b - 1 \in 1 .. b)
        <4>1. b = a + (IF s[k + 1] = c THEN 2 ELSE 1)
          BY <2>3, <3>0
        <4>2. CASE s[k + 1] = c
          <5>1. b = a + 2
            BY <4>1, <4>2
          <5>. QED BY <5>1
        <4>3. CASE s[k + 1] # c
          <5>1. b = a + 1
            BY <4>1, <4>3
          <5>. QED BY <4>3, <5>1
        <4>. QED BY <4>2, <4>3
      <3>. QED BY <2>3, <2>7, <3>0, <3>1
    <2>. QED BY <2>6, <2>7
  <1>. HIDE DEF A
  <1>16. n \in A
    BY <1>14, <1>15, NatSet
  <1>17. Good(w[n], n)
    BY <1>16 DEF A
  <1>19. w[n] \in Seq(Char) /\ Len(w[n]) = p[n] /\ DOMAIN w[n] = 1 .. p[n]
    BY <1>8, <1>10
  <1>. QED BY <1>0, <1>8, <1>13, <1>17, <1>19 DEF Escapes

\* Which of the first k characters are escaped.
EscBuilt(s, k, h) ==
    \A i \in 1 .. k : h[i] = (i > 1 /\ s[i - 1] = Backslash /\ ~h[i - 1])

EscPartial(s, k) == \E h \in [1 .. k -> BOOLEAN] : EscBuilt(s, k, h)

\* There is an answer for every length.
LEMMA EscapedExists ==
    ASSUME NEW s \in Seq(Char), NEW n \in Nat
    PROVE  EscPartial(s, n)
  <1>. DEFINE A == {k \in Nat : EscPartial(s, k)}
  <1>1. 0 \in A
    <2>. DEFINE h == [i \in 1 .. 0 |-> FALSE]
    <2>1. h \in [1 .. 0 -> BOOLEAN] /\ 1 .. 0 = {}
      OBVIOUS
    <2>. HIDE DEF h
    <2>2. EscBuilt(s, 0, h)
      BY <2>1 DEF EscBuilt
    <2>3. EscPartial(s, 0)
      BY <2>1, <2>2 DEF EscPartial
    <2>. QED BY <2>3
  <1>2. ASSUME NEW k \in Nat, k \in A PROVE k + 1 \in A
    <2>1. PICK h \in [1 .. k -> BOOLEAN] : EscBuilt(s, k, h)
      BY <1>2 DEF EscPartial
    <2>. DEFINE new == k + 1 > 1 /\ s[(k + 1) - 1] = Backslash /\ ~h[(k + 1) - 1]
                g == [i \in 1 .. k + 1 |-> IF i \in 1 .. k THEN h[i] ELSE new]
    <2>2. new \in BOOLEAN
      OBVIOUS
    <2>. HIDE DEF new
    <2>3. \A i \in 1 .. k : g[i] = h[i] /\ i \in 1 .. k + 1
      OBVIOUS
    <2>4. g[k + 1] = new
      OBVIOUS
    <2>5. g \in [1 .. k + 1 -> BOOLEAN]
      BY <2>2
    <2>. HIDE DEF g
    <2>6. \A i \in 1 .. k : i > 1 => i - 1 \in 1 .. k
      OBVIOUS
    <2>7. k + 1 > 1 => (k + 1) - 1 \in 1 .. k
      OBVIOUS
    <2>8. \A i \in 1 .. k + 1 : i \in 1 .. k \/ i = k + 1
      OBVIOUS
    <2>9. EscBuilt(s, k + 1, g)
      <3>. SUFFICES ASSUME NEW i \in 1 .. k + 1
                    PROVE  g[i] = (i > 1 /\ s[i - 1] = Backslash /\ ~g[i - 1])
        BY DEF EscBuilt
      <3>1. CASE i \in 1 .. k
        <4>1. h[i] = (i > 1 /\ s[i - 1] = Backslash /\ ~h[i - 1])
          BY <2>1, <3>1 DEF EscBuilt
        <4>2. i > 1 => g[i - 1] = h[i - 1]
          BY <2>3, <2>6, <3>1
        <4>3. g[i] = h[i]
          BY <2>3, <3>1
        <4>. QED BY <4>1, <4>2, <4>3
      <3>2. CASE i = k + 1
        <4>1. k + 1 > 1 => g[(k + 1) - 1] = h[(k + 1) - 1]
          BY <2>3, <2>7
        <4>2. g[k + 1] = (k + 1 > 1 /\ s[(k + 1) - 1] = Backslash /\ ~g[(k + 1) - 1])
          BY <2>4, <4>1 DEF new
        <4>. QED BY <3>2, <4>2
      <3>. QED BY <2>8, <3>1, <3>2
    <2>10. EscPartial(s, k + 1)
      BY <2>5, <2>9 DEF EscPartial
    <2>. QED BY <2>10
  <1>. HIDE DEF A
  <1>3. n \in A
    BY <1>1, <1>2, NatSet
  <1>. QED BY <1>3 DEF A

\* What Escaped says of a character follows from the one before it.
LEMMA EscapedIs ==
    ASSUME NEW s \in Seq(Char)
    PROVE  \A i \in DOMAIN s :
              Escaped(s)[i] <=> (i > 1 /\ s[i - 1] = Backslash /\ ~Escaped(s)[i - 1])
  <1>. DEFINE g == CHOOSE h : h = [i \in DOMAIN s |-> i > 1 /\ s[i - 1] = Backslash /\ ~h[i - 1]]
  <1>0. PICK n \in Nat : n = Len(s) /\ DOMAIN s = 1 .. n
    OBVIOUS
  <1>1. PICK f \in [1 .. n -> BOOLEAN] : EscBuilt(s, n, f)
    BY EscapedExists DEF EscPartial
  <1>2. f = [i \in DOMAIN s |-> i > 1 /\ s[i - 1] = Backslash /\ ~f[i - 1]]
    <2>1. f = [i \in DOMAIN s |-> f[i]]
      BY <1>0
    <2>2. \A i \in DOMAIN s : f[i] = (i > 1 /\ s[i - 1] = Backslash /\ ~f[i - 1])
      BY <1>0, <1>1 DEF EscBuilt
    <2>. QED BY <2>1, <2>2
  <1>3. g = [i \in DOMAIN s |-> i > 1 /\ s[i - 1] = Backslash /\ ~g[i - 1]]
    BY <1>2
  <1>4. Escaped(s) = g
    BY DEF Escaped
  <1>. HIDE DEF g
  <1>5. \A i \in DOMAIN s : g[i] = (i > 1 /\ s[i - 1] = Backslash /\ ~g[i - 1])
    <2>. DEFINE k == [i \in DOMAIN s |-> i > 1 /\ s[i - 1] = Backslash /\ ~g[i - 1]]
    <2>1. \A i \in DOMAIN s : k[i] = (i > 1 /\ s[i - 1] = Backslash /\ ~g[i - 1])
      OBVIOUS
    <2>2. g = k
      BY <1>3
    <2>. HIDE DEF k
    <2>. QED BY <2>1, <2>2
  <1>. QED BY <1>4, <1>5

-----------------------------------------------------------------------------
(* A literal is read back as it was written.                               *)

\* Every place of the text is one of a character, or of a backslash before it.
LEMMA PlacesCover ==
    ASSUME NEW s \in Seq(Char), NEW X, NEW p, Places(s, X, p)
    PROVE  /\ \A i, j \in 0 .. Len(s) : i < j => p[i] < p[j]
           /\ \A k \in 1 .. p[Len(s)] : \E i \in 1 .. Len(s) :
                 k = p[i] \/ (s[i] \in X /\ k = p[i] - 1)
  <1>0. PICK n \in Nat : n = Len(s)
    OBVIOUS
  <1>1. /\ \A i \in 0 .. n : p[i] \in Nat
        /\ p[0] = 0
        /\ \A i \in 1 .. n : p[i] = p[i - 1] + (IF s[i] \in X THEN 2 ELSE 1)
    BY <1>0 DEF Places
  <1>2. \A k \in Nat : k + 1 <= n =>
           /\ k \in 0 .. n /\ k + 1 \in 1 .. n /\ p[k] \in Nat /\ p[k + 1] \in Nat
           /\ p[k + 1] = p[k] + (IF s[k + 1] \in X THEN 2 ELSE 1)
    <2>. SUFFICES ASSUME NEW k \in Nat, k + 1 <= n
                  PROVE  /\ k \in 0 .. n /\ k + 1 \in 1 .. n /\ p[k] \in Nat /\ p[k + 1] \in Nat
                         /\ p[k + 1] = p[k] + (IF s[k + 1] \in X THEN 2 ELSE 1)
      OBVIOUS
    <2>1. k \in 0 .. n /\ k + 1 \in 1 .. n /\ k + 1 \in 0 .. n /\ (k + 1) - 1 = k
      OBVIOUS
    <2>. QED BY <1>1, <2>1
  <1>. DEFINE Covered(i, k) == k = p[i] \/ (s[i] \in X /\ k = p[i] - 1)
              A == {j \in Nat : j <= n =>
                       /\ \A i \in 0 .. j : i < j => p[i] < p[j]
                       /\ \A k \in 1 .. p[j] : \E i \in 1 .. j : Covered(i, k)}
  <1>3. 0 \in A
    BY <1>1
  <1>4. ASSUME NEW j \in Nat, j \in A PROVE j + 1 \in A
    <2>. SUFFICES ASSUME j + 1 <= n
                  PROVE  /\ \A i \in 0 .. j + 1 : i < j + 1 => p[i] < p[j + 1]
                         /\ \A k \in 1 .. p[j + 1] : \E i \in 1 .. j + 1 : Covered(i, k)
      OBVIOUS
    <2>1. /\ \A i \in 0 .. j : i < j => p[i] < p[j]
          /\ \A k \in 1 .. p[j] : \E i \in 1 .. j : Covered(i, k)
      BY <1>4
    <2>2. /\ p[j] \in Nat /\ p[j + 1] \in Nat
          /\ p[j + 1] = p[j] + (IF s[j + 1] \in X THEN 2 ELSE 1)
      BY <1>2
    <2>3. \A i \in 0 .. j + 1 : i < j + 1 => p[i] < p[j + 1]
      <3>. SUFFICES ASSUME NEW i \in 0 .. j PROVE p[i] < p[j + 1]
        OBVIOUS
      <3>1. i = j \/ i < j
        OBVIOUS
      <3>2. i \in 0 .. n /\ p[i] \in Nat
        BY <1>1
      <3>3. p[i] <= p[j]
        BY <2>1, <2>2, <3>1, <3>2
      <3>. QED BY <2>2, <3>2, <3>3
    <2>4. ASSUME NEW k \in 1 .. p[j + 1] PROVE \E i \in 1 .. j + 1 : Covered(i, k)
      <3>1. \/ k \in 1 .. p[j]
            \/ k = p[j + 1]
            \/ s[j + 1] \in X /\ k = p[j + 1] - 1
        BY <2>2
      <3>2. CASE k \in 1 .. p[j]
        BY <2>1, <3>2
      <3>. QED BY <3>1, <3>2
    <2>. QED BY <2>3, <2>4
  <1>. HIDE DEF A
  <1>5. \A j \in Nat : j \in A
    BY <1>3, <1>4, NatSet
  <1>6. \A j \in 0 .. n : /\ \A i \in 0 .. j : i < j => p[i] < p[j]
                          /\ \A k \in 1 .. p[j] : \E i \in 1 .. j : Covered(i, k)
    BY <1>5 DEF A
  <1>7. \A i, j \in 0 .. n : i < j => p[i] < p[j]
    BY <1>6
  <1>8. \A k \in 1 .. p[n] : \E i \in 1 .. n : Covered(i, k)
    BY <1>6
  <1>. QED BY <1>0, <1>7, <1>8

\* The characters that StringLiteral escapes.
Special == {Backslash, Quote}

\* What StringLiteral puts between the quotes.
Inner(s) == Escape(Escape(s, Backslash), Quote)

\* Escaping backslashes, then quotes, puts one backslash before each of them: the
\* backslashes of the first pass are none of the quotes of the second.
LEMMA InnerIs ==
    ASSUME NEW s \in Seq(Char), Quote # Backslash
    PROVE  \E r : Escapes(Inner(s), s, Special, r)
  <1>0. Backslash \in Char /\ Quote \in Char
    BY DEF Char
  <1>1. PICK p : Escapes(Escape(s, Backslash), s, {Backslash}, p)
    BY <1>0, EscapeIs
  <1>2. PICK t \in Seq(Char) : t = Escape(s, Backslash)
    BY <1>1 DEF Escapes
  <1>3. PICK q : Escapes(Inner(s), t, {Quote}, q)
    BY <1>0, <1>2, EscapeIs DEF Inner
  <1>4. PICK n \in Nat, m \in Nat, u \in Seq(Char) :
           /\ n = Len(s) /\ m = Len(t) /\ u = Inner(s)
           /\ DOMAIN t = 1 .. m
    BY <1>3 DEF Escapes
  <1>5. /\ \A i \in 0 .. n : p[i] \in Nat
        /\ p[0] = 0 /\ p[n] = m
        /\ \A i \in 1 .. n :
              /\ p[i] = p[i - 1] + (IF s[i] = Backslash THEN 2 ELSE 1)
              /\ p[i] \in 1 .. m /\ t[p[i]] = s[i]
              /\ s[i] = Backslash => p[i] - 1 \in 1 .. m /\ t[p[i] - 1] = Backslash
    BY <1>1, <1>2, <1>4 DEF Escapes, Places
  <1>6. /\ \A i \in 0 .. m : q[i] \in Nat
        /\ q[0] = 0 /\ q[m] = Len(u)
        /\ \A i \in 1 .. m :
              /\ q[i] = q[i - 1] + (IF t[i] = Quote THEN 2 ELSE 1)
              /\ q[i] \in DOMAIN u /\ u[q[i]] = t[i]
              /\ t[i] = Quote => q[i] - 1 \in DOMAIN u /\ u[q[i] - 1] = Backslash
    BY <1>3, <1>4 DEF Escapes, Places
  <1>. DEFINE r == [i \in 0 .. n |-> q[p[i]]]
  <1>7. p[n] = m /\ \A i \in 0 .. n : p[i] \in 0 .. m
    <2>1. \A i \in 0 .. n : i = 0 \/ i \in 1 .. n
      OBVIOUS
    <2>2. \A i \in 1 .. n : p[i] \in 0 .. m
      BY <1>5
    <2>. QED BY <1>5, <2>1, <2>2
  <1>8. r \in [0 .. n -> Nat] /\ \A i \in 0 .. n : r[i] = q[p[i]] /\ r[i] \in Nat
    BY <1>6, <1>7
  <1>. HIDE DEF r
  <1>9. r[0] = 0 /\ Len(u) = r[n]
    BY <1>5, <1>6, <1>8
  <1>10. ASSUME NEW i \in 1 .. n
         PROVE  /\ r[i] = r[i - 1] + (IF s[i] \in Special THEN 2 ELSE 1)
                /\ r[i] \in DOMAIN u /\ u[r[i]] = s[i]
                /\ s[i] \in Special => r[i] - 1 \in DOMAIN u /\ u[r[i] - 1] = Backslash
    <2>1. i \in 0 .. n /\ i - 1 \in 0 .. n
      OBVIOUS
    <2>2. PICK a \in Nat, b \in Nat : a = p[i - 1] /\ b = p[i] /\ b \in 1 .. m
      BY <1>5, <2>1
    <2>3. r[i - 1] = q[a] /\ r[i] = q[b] /\ q[a] \in Nat /\ q[b] \in Nat
      BY <1>8, <2>1, <2>2
    <2>4. /\ b = a + (IF s[i] = Backslash THEN 2 ELSE 1)
          /\ t[b] = s[i]
          /\ s[i] = Backslash => b - 1 \in 1 .. m /\ t[b - 1] = Backslash
      BY <1>5, <2>2
    <2>5. /\ q[b] = q[b - 1] + (IF s[i] = Quote THEN 2 ELSE 1)
          /\ q[b] \in DOMAIN u /\ u[q[b]] = s[i]
          /\ s[i] = Quote => q[b] - 1 \in DOMAIN u /\ u[q[b] - 1] = Backslash
      BY <1>6, <2>2, <2>4
    <2>6. CASE s[i] = Backslash
      <3>1. b = a + 2 /\ b - 1 \in 1 .. m /\ t[b - 1] = Backslash /\ (b - 1) - 1 = a
        BY <2>4, <2>6
      <3>2. /\ q[b - 1] = q[a] + 1 /\ u[q[b - 1]] = Backslash /\ q[b - 1] \in DOMAIN u
        BY <1>6, <3>1
      <3>3. q[b] = q[b - 1] + 1
        BY <2>5, <2>6
      <3>4. q[b] = q[a] + 2 /\ q[b] - 1 = q[b - 1]
        BY <2>3, <3>2, <3>3
      <3>. QED BY <2>3, <2>5, <2>6, <3>2, <3>4 DEF Special
    <2>7. CASE s[i] # Backslash
      <3>1. b - 1 = a
        BY <2>4, <2>7
      <3>. QED BY <2>3, <2>5, <2>7, <3>1 DEF Special
    <2>. QED BY <2>6, <2>7
  <1>11. Places(s, Special, r)
    BY <1>4, <1>8, <1>9, <1>10 DEF Places
  <1>. QED BY <1>4, <1>9, <1>10, <1>11 DEF Escapes

\* A device reads the pairs of StringLiteral as they were written: the characters
\* of s that were escaped are, and after each character a new one begins.
LEMMA EscapedAt ==
    ASSUME NEW s \in Seq(Char), NEW t \in Seq(Char), NEW r, Escapes(t, s, Special, r),
           NEW w \in Seq(Char), NEW o \in {0, 1}, o = 1 => w[1] # Backslash,
           o + Len(t) <= Len(w), \A k \in 1 .. Len(t) : w[o + k] = t[k]
    PROVE  \A i \in 0 .. Len(s) :
              /\ i > 0 => (Escaped(w)[o + r[i]] <=> s[i] \in Special)
              /\ o + r[i] + 1 \in DOMAIN w => ~Escaped(w)[o + r[i] + 1]
  <1>0. PICK n \in Nat, m \in Nat, v \in Nat : n = Len(s) /\ m = Len(t) /\ v = Len(w) /\ DOMAIN w = 1 .. v
    OBVIOUS
  <1>1. PICK e : e = Escaped(w)
    OBVIOUS
  <1>2. \A k \in 1 .. v : e[k] <=> (k > 1 /\ w[k - 1] = Backslash /\ ~e[k - 1])
    BY <1>0, <1>1, EscapedIs
  <1>3. /\ r[0] = 0 /\ m = r[n]
        /\ \A i \in 0 .. n : r[i] \in Nat
        /\ \A i \in 1 .. n :
              /\ r[i] = r[i - 1] + (IF s[i] \in Special THEN 2 ELSE 1)
              /\ r[i] \in 1 .. m /\ t[r[i]] = s[i]
              /\ s[i] \in Special => r[i] - 1 \in 1 .. m /\ t[r[i] - 1] = Backslash
    BY <1>0 DEF Escapes, Places
  <1>. DEFINE A == {i \in Nat : i <= n =>
                       /\ i > 0 => (e[o + r[i]] <=> s[i] \in Special)
                       /\ o + r[i] + 1 \in 1 .. v => ~e[o + r[i] + 1]}
  <1>4. 0 \in A
    <2>1. CASE o = 0
      <3>1. 1 \in 1 .. v => ~e[1]
        BY <1>2
      <3>. QED BY <1>3, <2>1, <3>1
    <2>2. CASE o = 1
      <3>1. 2 \in 1 .. v => (e[2] => w[2 - 1] = Backslash)
        BY <1>2
      <3>2. 2 \in 1 .. v => ~e[2]
        BY <2>2, <3>1
      <3>3. o + r[0] + 1 = 2
        BY <1>3, <2>2
      <3>. QED BY <3>2, <3>3
    <2>. QED BY <2>1, <2>2
  <1>5. ASSUME NEW j \in Nat, j \in A PROVE j + 1 \in A
    <2>. SUFFICES ASSUME j + 1 <= n
                  PROVE  /\ e[o + r[j + 1]] <=> s[j + 1] \in Special
                         /\ o + r[j + 1] + 1 \in 1 .. v => ~e[o + r[j + 1] + 1]
      OBVIOUS
    <2>1. j \in 0 .. n /\ j + 1 \in 1 .. n /\ (j + 1) - 1 = j
      OBVIOUS
    <2>2. PICK a \in Nat, b \in Nat : a = r[j] /\ b = r[j + 1] /\ b \in 1 .. m
      <3>1. r[j] \in Nat /\ r[j + 1] \in 1 .. m
        BY <1>3, <2>1
      <3>. QED BY <3>1
    <2>3. /\ b = a + (IF s[j + 1] \in Special THEN 2 ELSE 1)
          /\ t[b] = s[j + 1]
          /\ s[j + 1] \in Special => b - 1 \in 1 .. m /\ t[b - 1] = Backslash
      BY <1>3, <2>1, <2>2
    <2>4. /\ o + b \in 1 .. v /\ w[o + b] = s[j + 1]
          /\ s[j + 1] \in Special => w[o + (b - 1)] = Backslash
      <3>1. \A k \in 1 .. m : w[o + k] = t[k] /\ o + k \in 1 .. v
        BY <1>0
      <3>. QED BY <2>2, <2>3, <3>1
    <2>5. ~e[o + a + 1]
      <3>1. o + a + 1 \in 1 .. v
        BY <2>3, <2>4
      <3>2. o + r[j] + 1 \in 1 .. v => ~e[o + r[j] + 1]
        BY <1>5, <2>1
      <3>. QED BY <2>2, <3>1, <3>2
    <2>6. e[o + b] <=> s[j + 1] \in Special
      <3>1. CASE s[j + 1] \in Special
        <4>1. o + b > 1 /\ (o + b) - 1 = o + (b - 1) /\ o + (b - 1) = o + a + 1
          BY <2>3, <3>1
        <4>2. e[o + b] <=> (o + b > 1 /\ w[(o + b) - 1] = Backslash /\ ~e[(o + b) - 1])
          BY <1>2, <2>4
        <4>. QED BY <2>4, <2>5, <3>1, <4>1, <4>2
      <3>2. CASE s[j + 1] \notin Special
        <4>1. o + b = o + a + 1
          BY <2>3, <3>2
        <4>. QED BY <2>5, <3>2, <4>1
      <3>. QED BY <3>1, <3>2
    <2>7. o + b + 1 \in 1 .. v => ~e[o + b + 1]
      <3>. SUFFICES ASSUME o + b + 1 \in 1 .. v, e[o + b + 1] PROVE FALSE
        OBVIOUS
      <3>1. (o + b + 1) - 1 = o + b
        OBVIOUS
      <3>2. w[o + b] = Backslash /\ ~e[o + b]
        BY <1>2, <3>1
      <3>. QED BY <2>4, <2>6, <3>2 DEF Special
    <2>. QED BY <2>2, <2>6, <2>7
  <1>. HIDE DEF A
  <1>6. \A i \in Nat : i \in A
    BY <1>4, <1>5, NatSet
  <1>7. \A i \in 0 .. n :
              /\ i > 0 => (e[o + r[i]] <=> s[i] \in Special)
              /\ o + r[i] + 1 \in 1 .. v => ~e[o + r[i] + 1]
    BY <1>6 DEF A
  <1>. QED BY <1>0, <1>1, <1>7

\* InOrder lists the values of an increasing function.
LEMMA InOrderIs ==
    ASSUME NEW n \in Nat, NEW r \in [1 .. n -> Nat],
           \A i, j \in 1 .. n : i < j => r[i] < r[j]
    PROVE  InOrder({r[i] : i \in 1 .. n}) = r
  <1>. DEFINE S == {r[i] : i \in 1 .. n}
              B(k) == {j \in S : j <= k}
  <1>1. ASSUME NEW m \in 1 .. n
        PROVE  B(r[m]) = {r[i] : i \in 1 .. m} /\ Cardinality(B(r[m])) = m
    <2>1. B(r[m]) = {r[i] : i \in 1 .. m}
      <3>1. ASSUME NEW i \in 1 .. n PROVE r[i] <= r[m] <=> i \in 1 .. m
        <4>1. r[i] \in Nat /\ r[m] \in Nat
          OBVIOUS
        <4>2. i < m \/ i = m \/ m < i
          OBVIOUS
        <4>3. i < m => r[i] < r[m]
          OBVIOUS
        <4>4. m < i => r[m] < r[i]
          OBVIOUS
        <4>. QED BY <4>1, <4>2, <4>3, <4>4
      <3>2. 1 .. m \subseteq 1 .. n
        OBVIOUS
      <3>. QED BY <3>1, <3>2
    <2>. DEFINE f == [i \in 1 .. m |-> r[i]]
    <2>2. f \in Bijection(1 .. m, B(r[m]))
      <3>1. \A i, j \in 1 .. m : f[i] = f[j] => i = j
        <4>. SUFFICES ASSUME NEW i \in 1 .. m, NEW j \in 1 .. m, r[i] = r[j], i # j
                      PROVE  FALSE
          OBVIOUS
        <4>1. i \in 1 .. n /\ j \in 1 .. n /\ (i < j \/ j < i) /\ r[i] \in Nat
          OBVIOUS
        <4>. QED BY <4>1
      <3>2. f \in [1 .. m -> B(r[m])] /\ \A y \in B(r[m]) : \E i \in 1 .. m : f[i] = y
        BY <2>1
      <3>. HIDE DEF f, B
      <3>. QED BY <3>1, <3>2 DEF Bijection, Injection, Surjection, IsInjective
    <2>3. ExistsBijection(1 .. m, B(r[m]))
      <3>. HIDE DEF f, B
      <3>. QED BY <2>2 DEF ExistsBijection
    <2>4. m \in Nat
      OBVIOUS
    <2>5. Cardinality(B(r[m])) = m
      <3>. HIDE DEF B
      <3>. QED BY <2>3, <2>4, FS_CountingElements
    <2>. QED BY <2>1, <2>5
  <1>2. Cardinality(S) = n
    <2>1. CASE n = 0
      <3>1. S = {}
        BY <2>1
      <3>. QED BY <2>1, <3>1, FS_EmptySet
    <2>2. CASE n # 0
      <3>1. n \in 1 .. n
        BY <2>2
      <3>2. B(r[n]) = S
        BY <1>1, <3>1
      <3>. QED BY <1>1, <3>1, <3>2
    <2>. QED BY <2>1, <2>2
  <1>3. ASSUME NEW m \in 1 .. n PROVE (CHOOSE k \in S : Cardinality(B(k)) = m) = r[m]
    <2>1. r[m] \in S /\ Cardinality(B(r[m])) = m
      BY <1>1
    <2>2. ASSUME NEW k \in S, Cardinality(B(k)) = m PROVE k = r[m]
      <3>1. PICK i \in 1 .. n : k = r[i]
        OBVIOUS
      <3>2. Cardinality(B(r[i])) = i
        BY <1>1
      <3>. QED BY <2>2, <3>1, <3>2
    <2>. HIDE DEF B, S
    <2>. QED BY <2>1, <2>2
  <1>4. InOrder(S) = [m \in 1 .. Cardinality(S) |-> CHOOSE k \in S : Cardinality(B(k)) = m]
    BY DEF InOrder
  <1>. HIDE DEF S, B
  <1>5. InOrder(S) = [m \in 1 .. n |-> r[m]]
    BY <1>2, <1>3, <1>4
  <1>6. r = [m \in 1 .. n |-> r[m]]
    OBVIOUS
  <1>7. InOrder(S) = r
    BY <1>5, <1>6
  <1>. QED BY <1>7 DEF S

\* The characters that escaping adds are backslashes.
LEMMA EscapesAdds ==
    ASSUME NEW s \in Seq(Char), NEW t, NEW r, Escapes(t, s, Special, r)
    PROVE  \A k \in 1 .. Len(t) : t[k] = Backslash \/ \E i \in 1 .. Len(s) : t[k] = s[i]
  <1>1. PICK n \in Nat, m \in Nat : n = Len(s) /\ m = Len(t) /\ DOMAIN t = 1 .. m
    BY DEF Escapes
  <1>2. /\ m = r[n]
        /\ \A i \in 1 .. n : /\ r[i] \in DOMAIN t /\ t[r[i]] = s[i]
                             /\ s[i] \in Special => t[r[i] - 1] = Backslash
    BY <1>1 DEF Escapes
  <1>3. \A k \in 1 .. m : \E i \in 1 .. n : k = r[i] \/ (s[i] \in Special /\ k = r[i] - 1)
    <2>1. Places(s, Special, r)
      BY DEF Escapes
    <2>2. \A k \in 1 .. r[Len(s)] : \E i \in 1 .. Len(s) :
             k = r[i] \/ (s[i] \in Special /\ k = r[i] - 1)
      BY <2>1, PlacesCover
    <2>. QED BY <1>1, <1>2, <2>2
  <1>4. ASSUME NEW k \in 1 .. m
        PROVE  t[k] = Backslash \/ \E i \in 1 .. n : t[k] = s[i]
    <2>1. PICK i \in 1 .. n : k = r[i] \/ (s[i] \in Special /\ k = r[i] - 1)
      BY <1>3
    <2>2. CASE k = r[i]
      BY <1>2, <2>2
    <2>3. CASE s[i] \in Special /\ k = r[i] - 1
      BY <1>2, <2>3
    <2>. QED BY <2>1, <2>2, <2>3
  <1>. QED BY <1>1, <1>4

\* A text from which nothing is left out.
LEMMA WithoutNone ==
    ASSUME NEW s \in Seq(Char) PROVE Without(s, {}) = s
  <1>1. PICK n \in Nat : n = Len(s) /\ DOMAIN s = 1 .. n
    OBVIOUS
  <1>2. PICK r : r = [i \in 1 .. n |-> i]
    OBVIOUS
  <1>3. r \in [1 .. n -> Nat] /\ {r[i] : i \in 1 .. n} = 1 .. n /\ \A i \in 1 .. n : r[i] = i
    BY <1>2
  <1>4. \A i, j \in 1 .. n : i < j => r[i] < r[j]
    BY <1>3
  <1>5. InOrder(DOMAIN s \ {}) = r
    <2>1. InOrder({r[i] : i \in 1 .. n}) = r
      BY <1>3, <1>4, InOrderIs
    <2>2. DOMAIN s \ {} = {r[i] : i \in 1 .. n}
      BY <1>1, <1>3
    <2>. QED BY <2>1, <2>2
  <1>6. Without(s, {}) = [i \in DOMAIN r |-> s[r[i]]]
    BY <1>5 DEF Without
  <1>7. s = [i \in 1 .. n |-> s[i]]
    BY <1>1
  <1>. QED BY <1>3, <1>6, <1>7

\* Without the backslashes that escape, what StringLiteral wrote is the text, if
\* the text has no variable.
LEMMA UnescapeIs ==
    ASSUME NEW s \in Seq(Char), NEW t \in Seq(Char), NEW r, Escapes(t, s, Special, r),
           Embeddable(s)
    PROVE  Unescape(t) = s
  <1>0. PICK n \in Nat, m \in Nat : n = Len(s) /\ m = Len(t) /\ DOMAIN t = 1 .. m /\ DOMAIN s = 1 .. n
    OBVIOUS
  <1>1. PICK e : e = Escaped(t)
    OBVIOUS
  <1>2. /\ r[0] = 0 /\ m = r[n]
        /\ \A i \in 0 .. n : r[i] \in Nat
        /\ \A i \in 1 .. n :
              /\ r[i] = r[i - 1] + (IF s[i] \in Special THEN 2 ELSE 1)
              /\ r[i] \in 1 .. m /\ t[r[i]] = s[i]
              /\ s[i] \in Special => r[i] - 1 \in 1 .. m /\ t[r[i] - 1] = Backslash
    BY <1>0 DEF Escapes, Places
  <1>3. /\ \A i, j \in 0 .. n : i < j => r[i] < r[j]
        /\ \A k \in 1 .. m : \E i \in 1 .. n : k = r[i] \/ (s[i] \in Special /\ k = r[i] - 1)
    BY <1>0, <1>2, PlacesCover DEF Escapes
  <1>4. \A i \in 0 .. n : /\ i > 0 => (e[r[i]] <=> s[i] \in Special)
                          /\ r[i] + 1 \in 1 .. m => ~e[r[i] + 1]
    <2>1. \A k \in 1 .. Len(t) : t[0 + k] = t[k]
      OBVIOUS
    <2>2. 0 + Len(t) <= Len(t)
      OBVIOUS
    <2>3. \A i \in 0 .. Len(s) :
              /\ i > 0 => (Escaped(t)[0 + r[i]] <=> s[i] \in Special)
              /\ 0 + r[i] + 1 \in DOMAIN t => ~Escaped(t)[0 + r[i] + 1]
      BY <2>1, <2>2, EscapedAt
    <2>4. \A i \in 0 .. n : 0 + r[i] = r[i]
      BY <1>2
    <2>. QED BY <1>0, <1>1, <2>3, <2>4
  <1>. DEFINE U == Unescaped(t, Backslash) \cup Unescaped(t, Dollar)
  <1>5. \A k \in 1 .. m : k \in U <=> (t[k] = Backslash /\ ~e[k])
    <2>1. \A i \in 1 .. n : s[i] # Dollar
      BY <1>0 DEF Embeddable, Contains
    <2>2. \A k \in 1 .. m : t[k] # Dollar
      BY <1>0, <2>1, EscapesAdds, CharAssumption
    <2>3. Unescaped(t, Dollar) = {}
      BY <1>0, <2>2 DEF Unescaped
    <2>. QED BY <1>0, <1>1, <2>3 DEF Unescaped
  <1>6. ASSUME NEW i \in 1 .. n PROVE r[i] \in 1 .. m /\ r[i] \notin U
    <2>1. i \in 0 .. n /\ i > 0
      OBVIOUS
    <2>2. r[i] \in 1 .. m /\ t[r[i]] = s[i] /\ (e[r[i]] <=> s[i] \in Special)
      BY <1>2, <1>4, <2>1
    <2>. QED BY <1>5, <2>2, CharAssumption DEF Special
  <1>7. ASSUME NEW i \in 1 .. n, s[i] \in Special PROVE r[i] - 1 \in U
    <2>1. i - 1 \in 0 .. n
      OBVIOUS
    <2>2. r[i - 1] \in Nat /\ r[i] = r[i - 1] + 2 /\ r[i] - 1 \in 1 .. m /\ t[r[i] - 1] = Backslash
      BY <1>2, <1>7, <2>1
    <2>3. r[i] - 1 = r[i - 1] + 1
      BY <2>2
    <2>4. ~e[r[i] - 1]
      BY <1>4, <2>1, <2>2, <2>3
    <2>. QED BY <1>5, <2>2, <2>4
  <1>. DEFINE q == [i \in 1 .. n |-> r[i]]
  <1>8. q \in [1 .. n -> Nat] /\ \A i \in 1 .. n : q[i] = r[i]
    BY <1>2
  <1>9. DOMAIN t \ U = {r[i] : i \in 1 .. n}
    <2>. HIDE DEF U
    <2>1. \A k \in 1 .. m : k \notin U => \E i \in 1 .. n : k = r[i]
      BY <1>3, <1>7
    <2>2. \A i \in 1 .. n : r[i] \in 1 .. m /\ r[i] \notin U
      BY <1>6
    <2>. QED BY <1>0, <2>1, <2>2
  <1>10. {r[i] : i \in 1 .. n} = {q[i] : i \in 1 .. n}
    BY <1>8
  <1>11. \A i, j \in 1 .. n : q[i] < q[j] \/ ~(i < j)
    <2>1. \A i \in 1 .. n : i \in 0 .. n
      OBVIOUS
    <2>. HIDE DEF q
    <2>. QED BY <1>3, <1>8, <2>1
  <1>12. InOrder(DOMAIN t \ U) = q
    <2>. HIDE DEF q, U
    <2>1. InOrder({q[i] : i \in 1 .. n}) = q
      BY <1>8, <1>11, InOrderIs
    <2>. QED BY <1>9, <1>10, <2>1
  <1>13. DOMAIN q = 1 .. n /\ \A i \in 1 .. n : t[q[i]] = s[i]
    BY <1>2
  <1>14. Unescape(t) = [i \in DOMAIN q |-> t[q[i]]]
    <2>. HIDE DEF q
    <2>. QED BY <1>12 DEF Unescape, Without
  <1>15. s = [i \in 1 .. n |-> s[i]]
    BY <1>0
  <1>. HIDE DEF q
  <1>. QED BY <1>13, <1>14, <1>15

\* A text with quotes around it, in which a backslash is before each quote and
\* backslash of s, is a literal for s, if s has no variable and no newline.
LEMMA QuotedReadsBack ==
    ASSUME NEW s \in Seq(Char), NEW t, NEW r, Escapes(t, s, Special, r), Embeddable(s)
    PROVE  /\ Quoted(t) \in Seq(Char) /\ Len(Quoted(t)) = Len(t) + 2
           /\ Quoted(t)[1] = Quote /\ Quoted(t)[Len(t) + 2] = Quote
           /\ \A k \in 1 .. Len(t) : Quoted(t)[1 + k] = t[k]
           /\ Unescaped(Quoted(t), Quote) = {1, Len(t) + 2}
           /\ ReadLiteral(Quoted(t)) = [text |-> s, rest |-> <<>>]
  <1>1. Escapes(t, s, Special, r)
    OBVIOUS
  <1>2. t \in Seq(Char)
    BY <1>1 DEF Escapes
  <1>3. PICK n \in Nat, m \in Nat : n = Len(s) /\ m = Len(t) /\ DOMAIN t = 1 .. m
    OBVIOUS
  <1>4. Quote \in Char
    BY DEF Char
  <1>5. PICK w \in Seq(Char) :
           /\ w = Quoted(t)
           /\ Len(w) = m + 2 /\ DOMAIN w = 1 .. m + 2
           /\ w[1] = Quote /\ w[m + 2] = Quote
           /\ \A k \in 1 .. m : w[1 + k] = t[k]
           /\ SubSeq(w, 2, (m + 2) - 1) = t
           /\ SubSeq(w, (m + 2) + 1, m + 2) = <<>>
    <2>1. \A u, v \in Seq(Char), c \in Char : v = <<c>> \o u \o <<c>> =>
             /\ Len(v) = Len(u) + 2 /\ DOMAIN v = 1 .. Len(u) + 2
             /\ v[1] = c /\ v[Len(u) + 2] = c
             /\ \A k \in 1 .. Len(u) : v[1 + k] = u[k]
      OBVIOUS
    <2>2. \A u, v \in Seq(Char) :
             Len(v) = Len(u) + 2 /\ (\A k \in 1 .. Len(u) : v[1 + k] = u[k])
                => SubSeq(v, 2, (Len(u) + 2) - 1) = u
      OBVIOUS
    <2>3. \A u \in Seq(Char), k \in Nat : SubSeq(u, k + 1, k) = <<>>
      OBVIOUS
    <2>4. Quoted(t) = <<Quote>> \o t \o <<Quote>>
      BY DEF Quoted
    <2>5. <<Quote>> \o t \o <<Quote>> \in Seq(Char)
      BY <1>2, <1>4
    <2>6. PICK w \in Seq(Char) : w = Quoted(t) /\ w = <<Quote>> \o t \o <<Quote>>
      BY <2>4, <2>5
    <2>7. /\ Len(w) = m + 2 /\ DOMAIN w = 1 .. m + 2
          /\ w[1] = Quote /\ w[m + 2] = Quote
          /\ \A k \in 1 .. m : w[1 + k] = t[k]
      BY <1>3, <1>4, <2>1, <2>6
    <2>8. SubSeq(w, 2, (m + 2) - 1) = t
      BY <1>2, <1>3, <2>2, <2>7
    <2>9. SubSeq(w, (m + 2) + 1, m + 2) = <<>>
      BY <2>3
    <2>. QED BY <2>6, <2>7, <2>8, <2>9
  <1>6. /\ r[0] = 0 /\ m = r[n]
        /\ \A i \in 0 .. n : r[i] \in Nat
        /\ \A i \in 1 .. n :
              /\ r[i] = r[i - 1] + (IF s[i] \in Special THEN 2 ELSE 1)
              /\ r[i] \in 1 .. m /\ t[r[i]] = s[i]
              /\ s[i] \in Special => r[i] - 1 \in 1 .. m /\ t[r[i] - 1] = Backslash
    BY <1>1, <1>2, <1>3 DEF Escapes, Places
  <1>7. \A k \in 1 .. m : \E i \in 1 .. n : k = r[i] \/ (s[i] \in Special /\ k = r[i] - 1)
    BY <1>1, <1>3, <1>6, PlacesCover DEF Escapes
  <1>8. PICK e : e = Escaped(w)
    OBVIOUS
  <1>9. \A i \in 0 .. n : /\ i > 0 => (e[1 + r[i]] <=> s[i] \in Special)
                          /\ 1 + r[i] + 1 \in 1 .. m + 2 => ~e[1 + r[i] + 1]
    <2>1. w[1] # Backslash /\ 1 + Len(t) <= Len(w) /\ \A k \in 1 .. Len(t) : w[1 + k] = t[k]
      BY <1>3, <1>5, CharAssumption
    <2>2. \A i \in 0 .. Len(s) :
              /\ i > 0 => (Escaped(w)[1 + r[i]] <=> s[i] \in Special)
              /\ 1 + r[i] + 1 \in DOMAIN w => ~Escaped(w)[1 + r[i] + 1]
      BY <1>1, <1>2, <2>1, EscapedAt
    <2>. QED BY <1>3, <1>5, <1>8, <2>2
  <1>10. \A k \in 1 .. m + 2 : k \in Unescaped(w, Quote) <=> (w[k] = Quote /\ ~e[k])
    BY <1>5, <1>8 DEF Unescaped
  <1>11. m + 2 \in Unescaped(w, Quote)
    <2>1. n \in 0 .. n /\ 1 + r[n] + 1 = m + 2 /\ m + 2 \in 1 .. m + 2
      BY <1>6
    <2>. QED BY <1>5, <1>9, <1>10, <2>1
  <1>12. ASSUME NEW k \in 1 .. m PROVE 1 + k \notin Unescaped(w, Quote)
    <2>1. 1 + k \in 1 .. m + 2 /\ w[1 + k] = t[k]
      BY <1>5
    <2>2. PICK i \in 1 .. n : k = r[i] \/ (s[i] \in Special /\ k = r[i] - 1)
      BY <1>7
    <2>3. i \in 0 .. n /\ i > 0
      OBVIOUS
    <2>4. CASE k = r[i]
      BY <1>6, <1>9, <1>10, <2>1, <2>3, <2>4 DEF Special
    <2>5. CASE s[i] \in Special /\ k = r[i] - 1
      <3>1. t[k] = Backslash
        BY <1>6, <2>5
      <3>. QED BY <1>10, <2>1, <3>1, CharAssumption
    <2>. QED BY <2>2, <2>4, <2>5
  <1>13. Unescaped(w, Quote) = {1, m + 2} /\ Unescaped(w, Quote) \ {1} = {m + 2}
    <2>1. \A k \in 1 .. m + 2 : k = 1 \/ k = m + 2 \/ (k - 1 \in 1 .. m /\ k = 1 + (k - 1))
      OBVIOUS
    <2>2. Unescaped(w, Quote) \subseteq 1 .. m + 2
      BY <1>5 DEF Unescaped
    <2>3. m + 2 # 1
      OBVIOUS
    <2>4. \A k \in Unescaped(w, Quote) : k = 1 \/ k = m + 2
      BY <1>12, <2>1, <2>2
    <2>5. 1 \in Unescaped(w, Quote)
      <3>1. 1 \in DOMAIN w /\ ~(1 > 1)
        BY <1>5
      <3>2. ~e[1]
        BY <1>8, <3>1, EscapedIs
      <3>. QED BY <1>5, <1>10, <3>1, <3>2
    <2>. QED BY <1>11, <2>3, <2>4, <2>5
  <1>14. (CHOOSE i \in {m + 2} : \A j \in {m + 2} : i <= j) = m + 2
    <2>1. \E i \in {m + 2} : \A j \in {m + 2} : i <= j
      OBVIOUS
    <2>. QED BY <2>1
  <1>a. ~Contains(w, Newline)
    <2>1. \A i \in 1 .. n : s[i] # Newline
      BY <1>3 DEF Embeddable, Contains
    <2>2. \A k \in 1 .. m : t[k] # Newline
      BY <1>1, <1>3, <2>1, EscapesAdds, CharAssumption
    <2>3. \A k \in 1 .. m + 2 : k = 1 \/ k = m + 2 \/ (k - 1 \in 1 .. m /\ k = 1 + (k - 1))
      OBVIOUS
    <2>4. \A k \in 1 .. m + 2 : w[k] # Newline
      BY <1>5, <2>2, <2>3, CharAssumption
    <2>. QED BY <1>5, <2>4 DEF Contains
  <1>15. ReadLiteral(w) = [text |-> Unescape(SubSeq(w, 2, (m + 2) - 1)),
                           rest |-> SubSeq(w, (m + 2) + 1, Len(w))]
    BY <1>13, <1>14, <1>a DEF ReadLiteral
  <1>16. Unescape(t) = s
    BY <1>1, <1>2, UnescapeIs
  <1>. QED BY <1>3, <1>5, <1>13, <1>15, <1>16

\* A line that is embedded in a script is what the device's parser finds in its
\* literal, to the last character, and the literal is all of it, unless the line
\* has a variable or a newline (StringLiteral).
LEMMA LiteralReadsBack ==
    ASSUME NEW s \in Seq(Char), Embeddable(s)
    PROVE  ReadLiteral(StringLiteral(s)) = [text |-> s, rest |-> <<>>]
  <1>1. PICK r : Escapes(Inner(s), s, Special, r)
    BY InnerIs, CharAssumption
  <1>2. StringLiteral(s) = Quoted(Inner(s))
    BY DEF StringLiteral, Inner
  <1>. QED BY <1>1, <1>2, QuotedReadsBack

-----------------------------------------------------------------------------
(* A command is read back as it was rendered.                              *)

\* A text within another has the same characters escaped, if it does not begin
\* after a backslash.
LEMMA EscapedWithin ==
    ASSUME NEW w \in Seq(Char), NEW u \in Seq(Char), NEW o \in Nat,
           o + Len(u) <= Len(w), \A j \in 1 .. Len(u) : w[o + j] = u[j],
           o > 0 => w[o] # Backslash
    PROVE  \A j \in 1 .. Len(u) : Escaped(w)[o + j] <=> Escaped(u)[j]
  <1>0. PICK m \in Nat, v \in Nat : m = Len(u) /\ v = Len(w) /\ DOMAIN u = 1 .. m /\ DOMAIN w = 1 .. v
    OBVIOUS
  <1>1. PICK e, d : e = Escaped(w) /\ d = Escaped(u)
    OBVIOUS
  <1>2. /\ \A k \in 1 .. v : e[k] <=> (k > 1 /\ w[k - 1] = Backslash /\ ~e[k - 1])
        /\ \A k \in 1 .. m : d[k] <=> (k > 1 /\ u[k - 1] = Backslash /\ ~d[k - 1])
    BY <1>0, <1>1, EscapedIs
  <1>. DEFINE A == {j \in Nat : j + 1 <= m => (e[o + (j + 1)] <=> d[j + 1])}
  <1>3. 0 \in A
    <2>. SUFFICES ASSUME 1 <= m PROVE ~e[o + 1] /\ ~d[1]
      OBVIOUS
    <2>1. ~d[1]
      BY <1>2
    <2>2. o + 1 \in 1 .. v /\ (o + 1) - 1 = o
      BY <1>0
    <2>3. e[o + 1] => o > 0 /\ w[o] = Backslash
      BY <1>2, <2>2
    <2>. QED BY <2>1, <2>3
  <1>4. ASSUME NEW j \in Nat, j \in A PROVE j + 1 \in A
    <2>. SUFFICES ASSUME (j + 1) + 1 <= m PROVE e[o + ((j + 1) + 1)] <=> d[(j + 1) + 1]
      OBVIOUS
    <2>1. PICK b \in Nat, c \in Nat : b = j + 1 /\ c = (j + 1) + 1
      OBVIOUS
    <2>2. /\ b \in 1 .. m /\ c \in 1 .. m /\ c - 1 = b /\ c > 1 /\ o + c > 1
          /\ o + c \in 1 .. v /\ (o + c) - 1 = o + b
      BY <1>0, <2>1
    <2>3. e[o + b] <=> d[b]
      BY <1>4, <2>1, <2>2
    <2>4. w[o + b] = u[b]
      BY <1>0, <2>2
    <2>5. d[c] <=> (u[b] = Backslash /\ ~d[b])
      BY <1>2, <2>2
    <2>6. e[o + c] <=> (w[o + b] = Backslash /\ ~e[o + b])
      BY <1>2, <2>2
    <2>. QED BY <2>1, <2>3, <2>4, <2>5, <2>6
  <1>. HIDE DEF A
  <1>5. \A j \in Nat : j \in A
    BY <1>3, <1>4, NatSet
  <1>6. \A j \in 1 .. m : j - 1 \in Nat /\ (j - 1) + 1 = j
    OBVIOUS
  <1>7. ASSUME NEW j \in 1 .. m PROVE e[o + j] <=> d[j]
    <2>1. PICK i \in Nat : i = j - 1 /\ i + 1 = j
      BY <1>6
    <2>2. i \in A
      BY <1>5
    <2>3. i + 1 <= m
      BY <2>1
    <2>4. e[o + (i + 1)] <=> d[i + 1]
      BY <2>2, <2>3 DEF A
    <2>. QED BY <2>1, <2>4
  <1>. QED BY <1>0, <1>1, <1>7

\* The characters that no quotes take care of.
Wild == {Tick, Newline, Dollar}

\* Of a word that has none of these: a is the place of its opening quote, or 0 if
\* it has none; it ends with the closing one, and what would cut it is within.
Neat(w, a) ==
    /\ w \in Seq(Char) /\ a \in Nat /\ (a # 0 => a < Len(w))
    /\ \A j \in DOMAIN w : /\ w[j] \notin Wild
                           /\ w[j] \in {Blank, Break} => a # 0 /\ a < j /\ j < Len(w)
    /\ Unescaped(w, Quote) = IF a = 0 THEN {} ELSE {a, Len(w)}

LEMMA PlainIsNeat ==
    ASSUME NEW w \in Seq(Plain) PROVE Neat(w, 0)
  <1>1. w \in Seq(Char) /\ \A j \in DOMAIN w : w[j] \in Plain
    BY DEF Char
  <1>2. \A j \in DOMAIN w : w[j] # Quote /\ w[j] \notin Wild /\ w[j] \notin {Blank, Break}
    BY <1>1, CharAssumption DEF Wild
  <1>. QED BY <1>1, <1>2 DEF Neat, Unescaped

\* The values that quoting takes care of.
SafeText == {v \in Seq(Char) : Safe(v)}

\* A rendered value is read back, and has quotes around it or none.
LEMMA ValueReadsBack ==
    ASSUME NEW v \in SafeText
    PROVE  ReadValue(QuoteCLIValue(v)) = v /\ \E a \in Nat : Neat(QuoteCLIValue(v), a)
  <1>0. PICK n \in Nat : n = Len(v) /\ DOMAIN v = 1 .. n
    BY DEF SafeText
  <1>1. v \in Seq(Char) /\ \A j \in 1 .. n : v[j] \in Char /\ v[j] # Backslash /\ v[j] \notin Wild
    <2>1. \A ch \in {Backslash, Tick, Newline, Dollar} : \A j \in 1 .. n : v[j] # ch
      BY <1>0 DEF SafeText, Safe, Contains
    <2>. QED BY <1>0, <2>1 DEF SafeText, Wild
  <1>2. Quote \in Char /\ Backslash \in Char
    BY DEF Char
  <1>3. CASE ~(Contains(v, Blank) \/ Contains(v, Quote))
    <2>1. \A j \in 1 .. n : v[j] # Blank /\ v[j] # Quote /\ v[j] # Break
      <3>1. ~Contains(v, Break)
        BY <1>3 DEF SafeText, Safe
      <3>. QED BY <1>0, <1>3, <3>1 DEF Contains
    <2>2. QuoteCLIValue(v) = v
      BY <1>3 DEF QuoteCLIValue
    <2>3. Neat(v, 0)
      BY <1>0, <1>1, <2>1 DEF Neat, Unescaped
    <2>4. v # <<>> => 1 \in 1 .. n
      BY <1>0
    <2>5. ReadValue(v) = v
      <3>1. {i \in DOMAIN v : v[i] = Dollar} = {}
        BY <1>0, <1>1 DEF Wild
      <3>2. Without(v, {}) = v
        BY <1>1, WithoutNone
      <3>. QED BY <2>1, <2>4, <3>1, <3>2 DEF ReadValue
    <2>. QED BY <2>2, <2>3, <2>5
  <1>4. CASE Contains(v, Blank) \/ Contains(v, Quote)
    <2>1. PICK r, t : t = Escape(v, Quote) /\ Escapes(t, v, {Quote}, r)
      BY <1>1, <1>2, EscapeIs
    <2>2. Escapes(t, v, Special, r)
      <3>1. \A i \in 1 .. Len(v) : v[i] \in {Quote} <=> v[i] \in Special
        BY <1>0, <1>1 DEF Special
      <3>. QED BY <2>1, <3>1 DEF Escapes, Places
    <2>3. QuoteCLIValue(v) = Quoted(t)
      BY <1>4, <2>1 DEF QuoteCLIValue
    <2>4. PICK m \in Nat, q \in Seq(Char) :
             /\ m = Len(t) /\ q = Quoted(t) /\ Len(q) = m + 2 /\ DOMAIN q = 1 .. m + 2
             /\ q[1] = Quote /\ q[m + 2] = Quote /\ \A k \in 1 .. m : q[1 + k] = t[k]
             /\ Unescaped(q, Quote) = {1, m + 2}
             /\ ReadLiteral(q) = [text |-> v, rest |-> <<>>]
      <3>1. Embeddable(v) /\ t \in Seq(Char)
        BY <1>0, <1>1, <2>2 DEF Escapes, Embeddable, Contains, Wild
      <3>2. /\ Quoted(t) \in Seq(Char) /\ Len(Quoted(t)) = Len(t) + 2
            /\ Quoted(t)[1] = Quote /\ Quoted(t)[Len(t) + 2] = Quote
            /\ \A k \in 1 .. Len(t) : Quoted(t)[1 + k] = t[k]
            /\ Unescaped(Quoted(t), Quote) = {1, Len(t) + 2}
            /\ ReadLiteral(Quoted(t)) = [text |-> v, rest |-> <<>>]
        BY <1>1, <2>2, <3>1, QuotedReadsBack
      <3>3. Len(t) \in Nat /\ DOMAIN Quoted(t) = 1 .. Len(Quoted(t))
        BY <3>1, <3>2
      <3>. QED BY <3>2, <3>3
    <2>5. q # <<>> /\ q[1] = Quote
      BY <2>4
    <2>6. ReadValue(q) = v
      BY <2>4, <2>5 DEF ReadValue
    <2>7. \A k \in 1 .. m : t[k] \notin Wild
      <3>1. Backslash \notin Wild
        BY CharAssumption DEF Wild
      <3>2. \A k \in 1 .. m : t[k] = Backslash \/ \E i \in 1 .. n : t[k] = v[i]
        BY <1>0, <1>1, <2>2, <2>4, EscapesAdds
      <3>. QED BY <1>1, <3>1, <3>2
    <2>8. Neat(q, 1)
      <3>1. ASSUME NEW j \in 1 .. m + 2
            PROVE  q[j] \notin Wild /\ (q[j] \in {Blank, Break} => 1 < j /\ j < m + 2)
        <4>1. Quote \notin Wild /\ Quote \notin {Blank, Break}
          BY CharAssumption DEF Wild
        <4>2. CASE j = 1 \/ j = m + 2
          BY <2>4, <4>1, <4>2
        <4>3. CASE j - 1 \in 1 .. m
          <5>1. j = 1 + (j - 1) /\ 1 < j /\ j < m + 2
            BY <4>3
          <5>. QED BY <2>4, <2>7, <4>3, <5>1
        <4>4. j = 1 \/ j = m + 2 \/ j - 1 \in 1 .. m
          OBVIOUS
        <4>. QED BY <4>2, <4>3, <4>4
      <3>. QED BY <2>4, <3>1 DEF Neat
    <2>. QED BY <2>3, <2>4, <2>6, <2>8
  <1>. QED BY <1>3, <1>4

\* A key and an equals sign in front change nothing of that.
LEMMA ArgIsNeat ==
    ASSUME NEW k \in Seq(Plain), NEW b \in Nat, NEW q, Neat(q, b)
    PROVE  \E a \in Nat : Neat(k \o <<Equals>> \o q, a)
  <1>1. q \in Seq(Char) /\ k \in Seq(Char) /\ Equals \in Char
    BY DEF Neat, Char
  <1>a. PICK w, o, m : w = k \o <<Equals>> \o q /\ o = Len(k) + 1 /\ m = Len(q)
    OBVIOUS
  <1>2. /\ w \in Seq(Char) /\ o \in Nat /\ m \in Nat
        /\ o >= 1 /\ Len(w) = o + m /\ DOMAIN w = 1 .. o + m
        /\ Len(q) = m /\ DOMAIN q = 1 .. m
        /\ \A j \in 1 .. o - 1 : w[j] = k[j] /\ j \in DOMAIN k
        /\ w[o] = Equals
        /\ \A j \in 1 .. m : w[o + j] = q[j]
    <2>1. \A x, y \in Seq(Char), c \in Char :
             /\ x \o <<c>> \o y \in Seq(Char)
             /\ Len(x \o <<c>> \o y) = Len(x) + 1 + Len(y)
             /\ \A j \in 1 .. Len(x) : (x \o <<c>> \o y)[j] = x[j]
             /\ (x \o <<c>> \o y)[Len(x) + 1] = c
             /\ \A j \in 1 .. Len(y) : (x \o <<c>> \o y)[Len(x) + 1 + j] = y[j]
      OBVIOUS
    <2>2. \A x \in Seq(Char) : Len(x) \in Nat /\ DOMAIN x = 1 .. Len(x)
      OBVIOUS
    <2>3. PICK l \in Nat : l = Len(k) /\ o = l + 1 /\ o - 1 = l /\ DOMAIN k = 1 .. l
      BY <1>1, <1>a, <2>2
    <2>4. /\ w \in Seq(Char) /\ Len(w) = l + 1 + m
          /\ \A j \in 1 .. l : w[j] = k[j]
          /\ w[l + 1] = Equals
          /\ \A j \in 1 .. m : w[l + 1 + j] = q[j]
      BY <1>1, <1>a, <2>1, <2>3
    <2>5. m \in Nat /\ Len(q) = m /\ DOMAIN q = 1 .. m /\ DOMAIN w = 1 .. Len(w)
      BY <1>1, <1>a, <2>2, <2>4
    <2>. QED BY <2>3, <2>4, <2>5
  <1>3. \A j \in 1 .. o - 1 : w[j] \in Plain
    BY <1>2
  <1>4. \A j \in 1 .. o : w[j] \notin {Quote, Backslash, Blank, Break} \cup Wild
    <2>1. \A j \in 1 .. o : j = o \/ j \in 1 .. o - 1
      BY <1>2
    <2>. QED BY <1>2, <1>3, <2>1, CharAssumption DEF Wild
  <1>5. \A j \in 1 .. o + m : j \in 1 .. o \/ (j - o \in 1 .. m /\ j = o + (j - o))
    BY <1>2
  <1>6. \A j \in 1 .. m : Escaped(w)[o + j] <=> Escaped(q)[j]
    <2>1. o > 0 => w[o] # Backslash
      BY <1>2, <1>4
    <2>2. o + Len(q) <= Len(w) /\ \A j \in 1 .. Len(q) : w[o + j] = q[j]
      BY <1>2
    <2>3. w \in Seq(Char) /\ q \in Seq(Char) /\ o \in Nat
      BY <1>1, <1>2
    <2>4. \A j \in 1 .. Len(q) : Escaped(w)[o + j] <=> Escaped(q)[j]
      BY <2>1, <2>2, <2>3, EscapedWithin
    <2>. QED BY <1>2, <2>4
  <1>7. /\ b # 0 => b < m /\ b \in 1 .. m /\ m \in 1 .. m
        /\ \A j \in 1 .. m : /\ q[j] \notin Wild
                             /\ q[j] \in {Blank, Break} => b # 0 /\ b < j /\ j < m
        /\ \A j \in 1 .. m : q[j] = Quote /\ ~Escaped(q)[j] <=> b # 0 /\ j \in {b, m}
    <2>1. b # 0 => b < m /\ b \in 1 .. m /\ m \in 1 .. m
      BY <1>2 DEF Neat
    <2>2. \A j \in 1 .. m : /\ q[j] \notin Wild
                            /\ q[j] \in {Blank, Break} => b # 0 /\ b < j /\ j < m
      BY <1>2 DEF Neat
    <2>3. {j \in 1 .. m : q[j] = Quote /\ ~Escaped(q)[j]} = IF b = 0 THEN {} ELSE {b, m}
      BY <1>2 DEF Neat, Unescaped
    <2>4. \A j \in 1 .. m : j \in {i \in 1 .. m : q[i] = Quote /\ ~Escaped(q)[i]} <=>
                            b # 0 /\ j \in {b, m}
      BY <2>3
    <2>. QED BY <2>1, <2>2, <2>4
  <1>8. PICK a \in Nat : a = IF b = 0 THEN 0 ELSE o + b
    BY <1>2
  <1>9. \A j \in DOMAIN w : /\ w[j] \notin Wild
                            /\ w[j] \in {Blank, Break} => a # 0 /\ a < j /\ j < Len(w)
    <2>. SUFFICES ASSUME NEW j \in 1 .. o + m
                  PROVE  /\ w[j] \notin Wild
                         /\ w[j] \in {Blank, Break} => a # 0 /\ a < j /\ j < o + m
      BY <1>2
    <2>1. CASE j \in 1 .. o
      BY <1>4, <2>1
    <2>2. CASE j - o \in 1 .. m /\ j = o + (j - o)
      <3>1. PICK i \in 1 .. m : i = j - o /\ j = o + i
        BY <2>2
      <3>2. w[j] = q[i]
        BY <1>2, <3>1
      <3>3. w[j] \in {Blank, Break} => b # 0 /\ b < i /\ i < m
        BY <1>7, <3>2
      <3>4. b # 0 /\ b < i /\ i < m => a # 0 /\ a < j /\ j < o + m
        BY <1>2, <1>8, <3>1
      <3>. QED BY <1>7, <3>2, <3>3, <3>4
    <2>. QED BY <1>5, <2>1, <2>2
  <1>10. Unescaped(w, Quote) = IF a = 0 THEN {} ELSE {a, Len(w)}
    <2>1. Unescaped(w, Quote) = {j \in 1 .. o + m : w[j] = Quote /\ ~Escaped(w)[j]}
      BY <1>2 DEF Unescaped
    <2>2. ASSUME NEW i \in 1 .. m
          PROVE  w[o + i] = Quote /\ ~Escaped(w)[o + i] <=> b # 0 /\ i \in {b, m}
      <3>1. w[o + i] = q[i]
        BY <1>2
      <3>2. Escaped(w)[o + i] <=> Escaped(q)[i]
        BY <1>6
      <3>3. q[i] = Quote /\ ~Escaped(q)[i] <=> b # 0 /\ i \in {b, m}
        BY <1>7
      <3>. QED BY <3>1, <3>2, <3>3
    <2>3. \A j \in 1 .. o + m : w[j] = Quote /\ ~Escaped(w)[j] <=>
                                b # 0 /\ j \in {o + b, o + m}
      <3>. SUFFICES ASSUME NEW j \in 1 .. o + m
                    PROVE  w[j] = Quote /\ ~Escaped(w)[j] <=> b # 0 /\ j \in {o + b, o + m}
        OBVIOUS
      <3>1. CASE j \in 1 .. o
        <4>1. b # 0 => j # o + b /\ j # o + m
          BY <1>2, <1>7, <3>1
        <4>. QED BY <1>4, <3>1, <4>1
      <3>2. CASE j - o \in 1 .. m /\ j = o + (j - o)
        <4>1. PICK i \in 1 .. m : i = j - o /\ j = o + i
          BY <3>2
        <4>2. i \in {b, m} <=> j \in {o + b, o + m}
          BY <1>2, <4>1
        <4>. QED BY <2>2, <4>1, <4>2
      <3>. QED BY <1>5, <3>1, <3>2
    <2>4. b # 0 => o + b \in 1 .. o + m /\ o + m \in 1 .. o + m
      BY <1>2, <1>7
    <2>5. CASE b = 0
      <3>1. a = 0 /\ Unescaped(w, Quote) = {}
        BY <1>8, <2>1, <2>3, <2>5
      <3>. QED BY <3>1
    <2>6. CASE b # 0
      <3>1. a # 0 /\ a = o + b
        BY <1>2, <1>8, <2>6
      <3>2. Unescaped(w, Quote) = {o + b, o + m}
        BY <2>1, <2>3, <2>4, <2>6
      <3>. QED BY <1>2, <3>1, <3>2
    <2>. QED BY <2>5, <2>6
  <1>11. a # 0 => a < Len(w)
    BY <1>2, <1>7, <1>8
  <1>. QED BY <1>a, <1>2, <1>9, <1>10, <1>11 DEF Neat

\* The words W lie in the line t behind the places S, with a blank at each of
\* these places but the first; the last one is the end.
Laid(t, W, S) ==
    /\ t \in Seq(Char) /\ S \in [1 .. Len(W) + 1 -> Nat]
    /\ S[1] = 0 /\ S[Len(W) + 1] = Len(t) + 1
    /\ \A i \in 1 .. Len(W) :
          /\ S[i + 1] = S[i] + Len(W[i]) + 1
          /\ S[i] + Len(W[i]) <= Len(t)
          /\ \A j \in 1 .. Len(W[i]) : t[S[i] + j] = W[i][j]
          /\ i # 1 => t[S[i]] = Blank

\* How Join lays the words out (ConsoleCLI).
LEMMA JoinIs ==
    ASSUME NEW W \in Seq(Seq(Char)), W # <<>>
    PROVE  \E S : Laid(Join(W), W, S)
  <1>. DEFINE ss == [i \in DOMAIN W |-> IF i = 1 THEN W[i] ELSE <<Blank>> \o W[i]]
  <1>0. PICK n \in Nat : n = Len(W) /\ DOMAIN W = 1 .. n /\ n # 0
    OBVIOUS
  <1>1. Blank \in Char /\ \A i \in 1 .. n : W[i] \in Seq(Char)
    BY <1>0 DEF Char
  <1>2. \A u \in Seq(Char) :
           /\ <<Blank>> \o u \in Seq(Char) /\ Len(<<Blank>> \o u) = Len(u) + 1
           /\ (<<Blank>> \o u)[1] = Blank
           /\ \A j \in 1 .. Len(u) : (<<Blank>> \o u)[j + 1] = u[j]
    BY <1>1
  <1>3. ss \in Seq(Seq(Char)) /\ DOMAIN ss = 1 .. n /\ Len(ss) = n
    <2>1. \A i \in 1 .. n : ss[i] \in Seq(Char)
      BY <1>0, <1>1, <1>2
    <2>2. DOMAIN ss = 1 .. n /\ ss = [i \in 1 .. n |-> ss[i]]
      BY <1>0
    <2>. HIDE DEF ss
    <2>3. ss \in [1 .. n -> Seq(Char)]
      BY <2>1, <2>2
    <2>. QED BY <2>2, <2>3
  <1>4. Join(W) = FlattenSeq(ss)
    BY DEF Join
  <1>5. \A i \in 1 .. n : ss[i] = IF i = 1 THEN W[i] ELSE <<Blank>> \o W[i]
    BY <1>0
  <1>. HIDE DEF ss
  <1>6. PICK w \in [0 .. n -> Seq(Char)] :
           /\ w[0] = <<>> /\ Join(W) = w[n]
           /\ \A i \in 1 .. n : ss[i] \in Seq(Char) /\ w[i] = w[i - 1] \o ss[i]
    <2>1. PICK w : Stages(ss, Char, w)
      BY <1>3, FlatSteps
    <2>2. /\ w \in [0 .. n -> Seq(Char)] /\ w[0] = <<>> /\ FlattenSeq(ss) = w[n]
          /\ \A i \in 1 .. n : ss[i] \in Seq(Char) /\ w[i] = w[i - 1] \o ss[i]
      BY <1>3, <2>1 DEF Stages
    <2>. QED BY <1>4, <2>2
  <1>. DEFINE S == [i \in 1 .. n + 1 |-> IF i = 1 THEN 0 ELSE Len(w[i - 1]) + 1]
  <1>7. /\ S[1] = 0 /\ S \in [1 .. n + 1 -> Nat]
        /\ \A i \in 1 .. n : S[i + 1] = Len(w[i]) + 1
    <2>1. \A i \in 0 .. n : Len(w[i]) \in Nat
      OBVIOUS
    <2>2. \A i \in 1 .. n + 1 : i # 1 => i - 1 \in 0 .. n
      OBVIOUS
    <2>3. \A i \in 1 .. n + 1 : S[i] \in Nat
      BY <2>1, <2>2
    <2>4. S \in [1 .. n + 1 -> Nat]
      BY <2>3
    <2>5. \A i \in 1 .. n : i + 1 \in 1 .. n + 1 /\ i + 1 # 1 /\ (i + 1) - 1 = i
      OBVIOUS
    <2>. QED BY <2>4, <2>5
  <1>. HIDE DEF S
  <1>8. \A u, v \in Seq(Char) :
           /\ Len(u \o v) = Len(u) + Len(v)
           /\ \A j \in 1 .. Len(u) : (u \o v)[j] = u[j]
           /\ \A j \in 1 .. Len(v) : (u \o v)[Len(u) + j] = v[j]
    OBVIOUS
  <1>9. ASSUME NEW i \in 1 .. n
        PROVE  /\ S[i + 1] = S[i] + Len(W[i]) + 1
               /\ \A j \in 1 .. Len(w[i - 1]) : w[i][j] = w[i - 1][j]
               /\ \A j \in 1 .. Len(W[i]) : w[i][S[i] + j] = W[i][j]
               /\ i # 1 => w[i][S[i]] = Blank
               /\ Len(w[i]) = S[i] + Len(W[i]) /\ Len(w[i - 1]) <= Len(w[i])
               /\ Len(w[i - 1]) \in Nat /\ Len(w[i]) \in Nat /\ S[i] \in Nat
               /\ i # 1 => S[i] = Len(w[i - 1]) + 1
    <2>1. PICK u, v, a, b, l :
             /\ u = w[i - 1] /\ v = ss[i] /\ w[i] = u \o v
             /\ a = Len(u) /\ b = Len(v) /\ l = Len(W[i])
      BY <1>6
    <2>2. u \in Seq(Char) /\ v \in Seq(Char) /\ W[i] \in Seq(Char)
      <3>1. i - 1 \in 0 .. n
        OBVIOUS
      <3>. QED BY <1>1, <1>6, <2>1, <3>1
    <2>3. a \in Nat /\ b \in Nat /\ l \in Nat
      BY <2>1, <2>2
    <2>4. /\ Len(w[i]) = a + b
          /\ \A j \in 1 .. a : w[i][j] = u[j]
          /\ \A j \in 1 .. b : w[i][a + j] = v[j]
      <3>1. /\ Len(u \o v) = Len(u) + Len(v)
            /\ \A j \in 1 .. Len(u) : (u \o v)[j] = u[j]
            /\ \A j \in 1 .. Len(v) : (u \o v)[Len(u) + j] = v[j]
        BY <1>8, <2>2
      <3>. QED BY <2>1, <3>1
    <2>5. S[i + 1] = (a + b) + 1
      BY <1>7, <2>4
    <2>. SUFFICES /\ S[i] + l = a + b /\ S[i] \in Nat
                  /\ \A j \in 1 .. l : w[i][S[i] + j] = W[i][j]
                  /\ i # 1 => S[i] = a + 1 /\ w[i][S[i]] = Blank
      <3>1. a <= a + b /\ a + b \in Nat
        BY <2>3
      <3>2. Len(w[i - 1]) = a /\ Len(w[i]) = a + b /\ Len(W[i]) = l
        BY <2>1, <2>4
      <3>3. \A j \in 1 .. a : w[i][j] = w[i - 1][j]
        BY <2>1, <2>4
      <3>. QED BY <2>3, <2>5, <3>1, <3>2, <3>3
    <2>6. CASE i = 1
      <3>1. a = 0
        BY <1>6, <2>1, <2>6
      <3>2. v = W[i] /\ b = l /\ S[i] = 0
        BY <1>5, <1>7, <2>1, <2>6
      <3>3. \A j \in 1 .. l : w[i][0 + j] = W[i][j]
        BY <2>4, <3>1, <3>2
      <3>. QED BY <2>6, <3>1, <3>2, <3>3
    <2>7. CASE i # 1
      <3>1. v = <<Blank>> \o W[i]
        BY <1>5, <2>1, <2>7
      <3>2. b = l + 1 /\ v[1] = Blank /\ \A j \in 1 .. l : v[j + 1] = W[i][j]
        BY <1>2, <2>1, <2>2, <3>1
      <3>3. S[i] = a + 1
        <4>1. i - 1 \in 1 .. n /\ (i - 1) + 1 = i
          BY <2>7
        <4>. QED BY <1>7, <2>1, <4>1
      <3>4. w[i][a + 1] = Blank
        BY <2>3, <2>4, <3>2
      <3>5. \A j \in 1 .. l : w[i][(a + 1) + j] = W[i][j]
        <4>1. \A j \in 1 .. l : j + 1 \in 1 .. b /\ (a + 1) + j = a + (j + 1)
          BY <2>3, <3>2
        <4>. QED BY <2>4, <3>2, <4>1
      <3>6. (a + 1) + l = a + b /\ a + 1 \in Nat
        BY <2>3, <3>2
      <3>. QED BY <3>3, <3>4, <3>5, <3>6
    <2>. QED BY <2>6, <2>7
  <1>. DEFINE Good(u, k) ==
          \A i \in 1 .. k :
             /\ S[i] + Len(W[i]) <= Len(u)
             /\ \A j \in 1 .. Len(W[i]) : u[S[i] + j] = W[i][j]
             /\ i # 1 => S[i] \in 1 .. Len(u) /\ u[S[i]] = Blank
              A == {k \in Nat : k <= n => Good(w[k], k)}
  <1>10. 0 \in A
    OBVIOUS
  <1>11. ASSUME NEW k \in Nat, k \in A PROVE k + 1 \in A
    <2>. SUFFICES ASSUME k + 1 <= n PROVE Good(w[k + 1], k + 1)
      OBVIOUS
    <2>1. k + 1 \in 1 .. n /\ (k + 1) - 1 = k
      OBVIOUS
    <2>2. Good(w[k], k)
      BY <1>11
    <2>3. PICK u, v, a, b : u = w[k] /\ v = w[k + 1] /\ a = Len(u) /\ b = Len(v)
      OBVIOUS
    <2>4. /\ \A j \in 1 .. a : v[j] = u[j]
          /\ \A j \in 1 .. Len(W[k + 1]) : v[S[k + 1] + j] = W[k + 1][j]
          /\ k + 1 # 1 => v[S[k + 1]] = Blank
          /\ b = S[k + 1] + Len(W[k + 1]) /\ a <= b /\ a \in Nat /\ b \in Nat
          /\ S[k + 1] \in Nat /\ k + 1 # 1 => S[k + 1] = a + 1
      BY <1>9, <2>1, <2>3
    <2>5. \A i \in 1 .. k :
             /\ S[i] + Len(W[i]) <= a
             /\ \A j \in 1 .. Len(W[i]) : u[S[i] + j] = W[i][j]
             /\ i # 1 => S[i] \in 1 .. a /\ u[S[i]] = Blank
      BY <2>2, <2>3
    <2>6. \A i \in 1 .. n : S[i] \in Nat /\ Len(W[i]) \in Nat
      BY <1>1, <1>7
    <2>. SUFFICES ASSUME NEW i \in 1 .. k + 1
                  PROVE  /\ S[i] + Len(W[i]) <= b
                         /\ \A j \in 1 .. Len(W[i]) : v[S[i] + j] = W[i][j]
                         /\ i # 1 => S[i] \in 1 .. b /\ v[S[i]] = Blank
      BY <2>3
    <2>7. CASE i \in 1 .. k
      <3>1. i \in 1 .. n
        BY <2>1, <2>7
      <3>2. PICK x \in Nat, l \in Nat : x = S[i] /\ l = Len(W[i])
        BY <2>6, <3>1
      <3>3. /\ x + l <= a
            /\ \A j \in 1 .. l : u[x + j] = W[i][j]
            /\ i # 1 => x \in 1 .. a /\ u[x] = Blank
        BY <2>5, <2>7, <3>2
      <3>4. a \in Nat /\ b \in Nat /\ a <= b
        BY <2>4
      <3>5. \A j \in 1 .. l : x + j \in 1 .. a
        BY <3>3, <3>4
      <3>6. x + l <= b /\ (x \in 1 .. a => x \in 1 .. b)
        BY <3>3, <3>4
      <3>7. \A j \in 1 .. a : v[j] = u[j]
        BY <2>4
      <3>. QED BY <3>2, <3>3, <3>5, <3>6, <3>7
    <2>8. CASE i = k + 1
      <3>1. PICK x \in Nat, l \in Nat : x = S[i] /\ l = Len(W[i])
        BY <2>1, <2>6, <2>8
      <3>2. a \in Nat /\ b = x + l /\ (i # 1 => x = a + 1) /\ a <= b
        BY <2>4, <2>8, <3>1
      <3>3. i # 1 => x \in 1 .. b
        BY <3>2
      <3>4. \A j \in 1 .. l : v[x + j] = W[i][j]
        BY <2>4, <2>8, <3>1
      <3>. QED BY <2>4, <2>8, <3>1, <3>2, <3>3, <3>4
    <2>9. i \in 1 .. k \/ i = k + 1
      OBVIOUS
    <2>. QED BY <2>7, <2>8, <2>9
  <1>. HIDE DEF A
  <1>12. n \in A
    BY <1>10, <1>11, NatSet
  <1>13. Good(w[n], n)
    BY <1>12 DEF A
  <1>14. w[n] \in Seq(Char) /\ S[n + 1] = Len(w[n]) + 1
    BY <1>0, <1>7
  <1>15. \A i \in 1 .. n : S[i + 1] = S[i] + Len(W[i]) + 1
    BY <1>9
  <1>16. \A i \in 1 .. n :
            /\ S[i] + Len(W[i]) <= Len(w[n])
            /\ \A j \in 1 .. Len(W[i]) : w[n][S[i] + j] = W[i][j]
            /\ i # 1 => w[n][S[i]] = Blank
    BY <1>13
  <1>17. Laid(w[n], W, S)
    BY <1>0, <1>7, <1>14, <1>15, <1>16 DEF Laid
  <1>. QED BY <1>6, <1>17

\* Every place of the line is a separator's or within a word.
LEMMA LaidCovers ==
    ASSUME NEW W \in Seq(Seq(Char)), NEW t, NEW S, Laid(t, W, S)
    PROVE  /\ \A i, j \in 1 .. Len(W) + 1 : i < j => S[i] < S[j]
           /\ \A x \in 1 .. Len(t) : \E i \in 1 .. Len(W) :
                 x = S[i] \/ \E j \in 1 .. Len(W[i]) : x = S[i] + j
  <1>0. PICK n \in Nat : n = Len(W) /\ DOMAIN W = 1 .. n
    OBVIOUS
  <1>1. /\ S[1] = 0 /\ S[n + 1] = Len(t) + 1 /\ t \in Seq(Char)
        /\ \A i \in 1 .. n + 1 : S[i] \in Nat
        /\ \A i \in 1 .. n : S[i + 1] = S[i] + Len(W[i]) + 1 /\ Len(W[i]) \in Nat
    <2>1. /\ S[1] = 0 /\ S[n + 1] = Len(t) + 1 /\ t \in Seq(Char)
          /\ S \in [1 .. n + 1 -> Nat]
          /\ \A i \in 1 .. n : S[i + 1] = S[i] + Len(W[i]) + 1
      BY <1>0 DEF Laid
    <2>2. \A i \in 1 .. n : W[i] \in Seq(Char)
      BY <1>0
    <2>3. \A u \in Seq(Char) : Len(u) \in Nat
      OBVIOUS
    <2>. QED BY <2>1, <2>2, <2>3
  <1>. DEFINE Within(i, x) == x = S[i] \/ \E j \in 1 .. Len(W[i]) : x = S[i] + j
              A == {k \in Nat : k <= n =>
                       /\ \A i \in 1 .. k : S[i] < S[k + 1]
                       /\ \A x \in 1 .. S[k + 1] - 1 : \E i \in 1 .. k : Within(i, x)}
  <1>2. 0 \in A
    <2>1. 0 + 1 = 1 /\ S[0 + 1] = 0
      BY <1>1
    <2>2. 1 .. S[0 + 1] - 1 = {}
      BY <2>1
    <2>. QED BY <2>2
  <1>3. ASSUME NEW k \in Nat, k \in A PROVE k + 1 \in A
    <2>. SUFFICES ASSUME k + 1 <= n
                  PROVE  /\ \A i \in 1 .. k + 1 : S[i] < S[(k + 1) + 1]
                         /\ \A x \in 1 .. S[(k + 1) + 1] - 1 : \E i \in 1 .. k + 1 : Within(i, x)
      OBVIOUS
    <2>1. /\ \A i \in 1 .. k : S[i] < S[k + 1]
          /\ \A x \in 1 .. S[k + 1] - 1 : \E i \in 1 .. k : Within(i, x)
      BY <1>3
    <2>2. k + 1 \in 1 .. n /\ k + 1 \in 1 .. n + 1 /\ \A i \in 1 .. k : i \in 1 .. n + 1
      OBVIOUS
    <2>3. PICK a \in Nat, b \in Nat, l \in Nat :
             a = S[k + 1] /\ b = S[(k + 1) + 1] /\ l = Len(W[k + 1]) /\ b = a + l + 1
      <3>1. S[k + 1] \in Nat /\ Len(W[k + 1]) \in Nat
        BY <1>1, <2>2
      <3>2. S[(k + 1) + 1] = S[k + 1] + Len(W[k + 1]) + 1
        BY <1>1, <2>2
      <3>. QED BY <3>1, <3>2
    <2>4. \A i \in 1 .. k + 1 : i \in 1 .. k \/ i = k + 1
      OBVIOUS
    <2>5. ASSUME NEW i \in 1 .. k + 1 PROVE S[i] < b
      <3>1. CASE i = k + 1
        BY <2>3, <3>1
      <3>2. CASE i \in 1 .. k
        <4>1. S[i] \in Nat /\ S[i] < a
          BY <1>1, <2>1, <2>2, <2>3, <3>2
        <4>. QED BY <2>3, <4>1
      <3>. QED BY <2>4, <3>1, <3>2
    <2>6. ASSUME NEW x \in 1 .. b - 1 PROVE \E i \in 1 .. k + 1 : Within(i, x)
      <3>1. CASE x < a
        <4>1. x \in 1 .. S[k + 1] - 1
          BY <2>3, <3>1
        <4>2. PICK i \in 1 .. k : Within(i, x)
          BY <2>1, <4>1
        <4>. QED BY <4>2
      <3>2. CASE x >= a
        <4>1. x = a \/ (x - a \in 1 .. l /\ x = a + (x - a))
          <5>1. x \in Nat /\ x <= a + l
            BY <2>3
          <5>2. x = a + (x - a) /\ (x # a => x - a >= 1) /\ x - a <= l /\ x - a \in Nat
            BY <3>2, <5>1
          <5>. QED BY <5>2
        <4>2. Within(k + 1, x)
          BY <2>3, <4>1
        <4>. QED BY <4>2
      <3>. QED BY <2>3, <3>1, <3>2
    <2>. QED BY <2>3, <2>5, <2>6
  <1>. HIDE DEF A
  <1>4. \A k \in Nat : k \in A
    BY <1>2, <1>3, NatSet
  <1>5. ASSUME NEW i \in 1 .. n + 1, NEW j \in 1 .. n + 1, i < j PROVE S[i] < S[j]
    <2>1. j - 1 \in Nat /\ j - 1 <= n /\ (j - 1) + 1 = j /\ i \in 1 .. j - 1
      BY <1>5
    <2>2. j - 1 \in A
      BY <1>4, <2>1
    <2>3. \A k \in 1 .. j - 1 : S[k] < S[(j - 1) + 1]
      BY <2>1, <2>2 DEF A
    <2>. QED BY <2>1, <2>3
  <1>6. \A x \in 1 .. S[n + 1] - 1 : \E i \in 1 .. n : Within(i, x)
    BY <1>4 DEF A
  <1>7. S[n + 1] - 1 = Len(t)
    BY <1>1
  <1>. QED BY <1>0, <1>5, <1>6, <1>7

\* The line t of the words W, whose opening quotes are at A.
NeatLine(t, W, S, A) ==
    /\ W \in Seq(Seq(Char)) /\ W # <<>> /\ Laid(t, W, S)
    /\ A \in [1 .. Len(W) -> Nat] /\ \A i \in 1 .. Len(W) : Neat(W[i], A[i])

\* The quotes of the line are those around its values, and none of its characters
\* is wild.
LEMMA LineQuotes ==
    ASSUME NEW t, NEW W, NEW S, NEW A, NeatLine(t, W, S, A)
    PROVE  /\ \A i \in 1 .. Len(W) : \A j \in 1 .. Len(W[i]) :
                 /\ S[i] + j \in DOMAIN t /\ t[S[i] + j] = W[i][j]
                 /\ S[i] + j \in Unescaped(t, Quote) <=> A[i] # 0 /\ j \in {A[i], Len(W[i])}
           /\ \A i \in 1 .. Len(W) : i # 1 =>
                 /\ S[i] \in DOMAIN t /\ t[S[i]] = Blank
                 /\ S[i] \notin Unescaped(t, Quote)
           /\ \A x \in DOMAIN t : t[x] \notin Wild
  <1>0. PICK n \in Nat : n = Len(W)
    BY DEF NeatLine
  <1>1. PICK m \in Nat : m = Len(t) /\ DOMAIN t = 1 .. m /\ t \in Seq(Char)
    BY DEF NeatLine, Laid
  <1>2. \A i \in 1 .. n : W[i] \in Seq(Char) /\ Len(W[i]) \in Nat /\ S[i] \in Nat
    <2>1. W \in Seq(Seq(Char)) /\ S \in [1 .. n + 1 -> Nat]
      BY <1>0 DEF NeatLine, Laid
    <2>2. \A i \in 1 .. n : W[i] \in Seq(Char)
      BY <1>0, <2>1
    <2>. QED BY <2>1, <2>2
  <1>3. \A i \in 1 .. n :
           /\ S[i] + Len(W[i]) <= m
           /\ \A j \in 1 .. Len(W[i]) : t[S[i] + j] = W[i][j]
           /\ i # 1 => t[S[i]] = Blank
    BY <1>0, <1>1 DEF NeatLine, Laid
  <1>4. S[1] = 0 /\ \A i \in 1 .. n : 1 \in 1 .. n + 1 /\ i \in 1 .. n + 1 /\ (i # 1 => 1 < i)
    BY <1>0 DEF NeatLine, Laid
  <1>5. \A i, j \in 1 .. n + 1 : i < j => S[i] < S[j]
    BY <1>0, LaidCovers DEF NeatLine
  <1>6. \A i \in 1 .. n : i # 1 => S[i] \in 1 .. m
    BY <1>2, <1>3, <1>4, <1>5
  <1>7. \A i \in 1 .. n : S[i] > 0 => t[S[i]] # Backslash
    BY <1>3, <1>4, CharAssumption
  <1>8. ASSUME NEW i \in 1 .. n, NEW j \in 1 .. Len(W[i])
        PROVE  /\ S[i] + j \in 1 .. m /\ t[S[i] + j] = W[i][j] /\ W[i][j] \notin Wild
               /\ S[i] + j \in Unescaped(t, Quote) <=> A[i] # 0 /\ j \in {A[i], Len(W[i])}
    <2>1. PICK u, o, l : u = W[i] /\ o = S[i] /\ l = Len(u)
      OBVIOUS
    <2>2. u \in Seq(Char) /\ o \in Nat /\ l \in Nat /\ DOMAIN u = 1 .. l /\ j \in 1 .. l
      BY <1>2, <2>1
    <2>3. o + l <= m /\ (\A k \in 1 .. l : t[o + k] = u[k]) /\ (o > 0 => t[o] # Backslash)
      BY <1>3, <1>7, <2>1
    <2>4. o + j \in 1 .. m
      BY <2>2, <2>3
    <2>5. Escaped(t)[o + j] <=> Escaped(u)[j]
      <3>1. o + Len(u) <= Len(t) /\ \A k \in 1 .. Len(u) : t[o + k] = u[k]
        BY <1>1, <2>1, <2>3
      <3>2. \A k \in 1 .. Len(u) : Escaped(t)[o + k] <=> Escaped(u)[k]
        BY <1>1, <2>2, <2>3, <3>1, EscapedWithin
      <3>. QED BY <2>1, <2>2, <3>2
    <2>6. Neat(u, A[i])
      BY <1>0, <2>1 DEF NeatLine
    <2>7. u[j] \notin Wild /\ Unescaped(u, Quote) = IF A[i] = 0 THEN {} ELSE {A[i], l}
      BY <2>1, <2>2, <2>6 DEF Neat
    <2>8. j \in Unescaped(u, Quote) <=> A[i] # 0 /\ j \in {A[i], l}
      BY <2>7
    <2>9. j \in Unescaped(u, Quote) <=> u[j] = Quote /\ ~Escaped(u)[j]
      BY <2>2 DEF Unescaped
    <2>10. o + j \in Unescaped(t, Quote) <=> t[o + j] = Quote /\ ~Escaped(t)[o + j]
      BY <1>1, <2>4 DEF Unescaped
    <2>11. t[o + j] = u[j]
      BY <2>2, <2>3
    <2>. QED BY <2>1, <2>4, <2>5, <2>7, <2>8, <2>9, <2>10, <2>11
  <1>9. \A i \in 1 .. n : i # 1 => S[i] \notin Unescaped(t, Quote)
    BY <1>1, <1>3, <1>6, CharAssumption DEF Unescaped
  <1>10. \A x \in 1 .. m : t[x] \notin Wild
    <2>. SUFFICES ASSUME NEW x \in 1 .. m PROVE t[x] \notin Wild
      OBVIOUS
    <2>1. PICK i \in 1 .. n : x = S[i] \/ \E j \in 1 .. Len(W[i]) : x = S[i] + j
      BY <1>0, <1>1, LaidCovers DEF NeatLine
    <2>2. CASE x = S[i]
      <3>1. i # 1
        BY <1>4, <2>2
      <3>. QED BY <1>3, <2>2, <3>1, CharAssumption DEF Wild
    <2>3. CASE \E j \in 1 .. Len(W[i]) : x = S[i] + j
      BY <1>8, <2>3
    <2>. QED BY <2>1, <2>2, <2>3
  <1>. QED BY <1>0, <1>1, <1>3, <1>6, <1>8, <1>9, <1>10

\* A finite set with an even number of elements.
Even(B) == IsFiniteSet(B) /\ \E h \in Nat : Cardinality(B) = h + h

\* Odd is false of these.
LEMMA EvenIsNotOdd ==
    ASSUME NEW B, Even(B) PROVE ~Odd(B)
  BY DEF Even, Odd

\* Two more elements leave the number even.
LEMMA AddTwo ==
    ASSUME NEW B, Even(B), NEW x, NEW y, x \notin B, y \notin B, x # y
    PROVE  Even(B \cup {x, y})
  <1>1. PICK h \in Nat : Cardinality(B) = h + h
    BY DEF Even
  <1>2. IsFiniteSet(B \cup {x}) /\ Cardinality(B \cup {x}) = (h + h) + 1
    BY <1>1, FS_AddElement DEF Even
  <1>3. y \notin B \cup {x}
    OBVIOUS
  <1>4. /\ IsFiniteSet((B \cup {x}) \cup {y})
        /\ Cardinality((B \cup {x}) \cup {y}) = ((h + h) + 1) + 1
    BY <1>2, <1>3, FS_AddElement
  <1>5. (B \cup {x}) \cup {y} = B \cup {x, y}
    OBVIOUS
  <1>6. h + 1 \in Nat /\ ((h + h) + 1) + 1 = (h + 1) + (h + 1)
    OBVIOUS
  <1>. QED BY <1>4, <1>5, <1>6 DEF Even

\* Up to a place between words, quotes come in pairs.
LEMMA LineParity ==
    ASSUME NEW t, NEW W, NEW S, NEW A, NeatLine(t, W, S, A)
    PROVE  \A i \in 1 .. Len(W) + 1 : Even({q \in Unescaped(t, Quote) : q < S[i]})
  <1>a. PICK n \in Nat : n = Len(W)
    BY DEF NeatLine
  <1>b. PICK Q : Q = Unescaped(t, Quote)
    OBVIOUS
  <1>0. n = Len(W) /\ Q = Unescaped(t, Quote)
    BY <1>a, <1>b
  <1>1. t \in Seq(Char) /\ \A q \in Q : q \in Nat /\ q >= 1
    <2>1. t \in Seq(Char)
      BY DEF NeatLine, Laid
    <2>2. \A q \in DOMAIN t : q \in Nat /\ q >= 1
      BY <2>1
    <2>. QED BY <1>0, <2>1, <2>2 DEF Unescaped
  <1>2. /\ S[1] = 0
        /\ \A i \in 1 .. n : S[i] \in Nat /\ Len(W[i]) \in Nat /\ S[i + 1] = S[i] + Len(W[i]) + 1
    <2>1. W \in Seq(Seq(Char)) /\ S \in [1 .. n + 1 -> Nat] /\ S[1] = 0
      BY <1>0 DEF NeatLine, Laid
    <2>2. \A i \in 1 .. n : S[i + 1] = S[i] + Len(W[i]) + 1
      BY <1>0 DEF NeatLine, Laid
    <2>3. \A i \in 1 .. n : W[i] \in Seq(Char)
      BY <1>0, <2>1
    <2>. QED BY <2>1, <2>2, <2>3
  <1>3. \A i \in 1 .. n :
           /\ i # 1 => S[i] \notin Q
           /\ A[i] \in Nat /\ (A[i] # 0 => A[i] < Len(W[i]))
           /\ \A j \in 1 .. Len(W[i]) : S[i] + j \in Q <=> A[i] # 0 /\ j \in {A[i], Len(W[i])}
    <2>1. \A i \in 1 .. n : A[i] \in Nat /\ (A[i] # 0 => A[i] < Len(W[i]))
      BY <1>0 DEF NeatLine, Neat
    <2>. QED BY <1>0, <2>1, LineQuotes
  <1>. DEFINE Before(x) == {q \in Q : q < x}
              B == {k \in Nat : k <= n => Even(Before(S[k + 1]))}
  <1>4. 0 \in B
    <2>1. 0 + 1 = 1 /\ S[0 + 1] = 0
      BY <1>2
    <2>2. Before(S[0 + 1]) = {}
      BY <1>1, <2>1
    <2>3. Even({})
      <3>1. IsFiniteSet({}) /\ Cardinality({}) = 0
        BY FS_EmptySet
      <3>. QED BY <3>1 DEF Even
    <2>. QED BY <2>2, <2>3
  <1>5. ASSUME NEW k \in Nat, k \in B PROVE k + 1 \in B
    <2>. SUFFICES ASSUME k + 1 <= n PROVE Even(Before(S[(k + 1) + 1]))
      OBVIOUS
    <2>1. Even(Before(S[k + 1])) /\ k + 1 \in 1 .. n
      BY <1>5
    <2>2. PICK i \in 1 .. n : i = k + 1
      BY <2>1
    <2>3. PICK o \in Nat, l \in Nat, a \in Nat : o = S[i] /\ l = Len(W[i]) /\ a = A[i]
      BY <1>2, <1>3
    <2>4. S[i + 1] = o + l + 1
      BY <1>2, <2>3
    <2>5. /\ a # 0 => a < l
          /\ \A j \in 1 .. l : o + j \in Q <=> a # 0 /\ j \in {a, l}
          /\ i # 1 => o \notin Q
      BY <1>3, <2>3
    <2>6. o \notin Q
      BY <1>1, <1>2, <2>3, <2>5
    <2>7. ASSUME NEW q \in Q, q < o + l + 1, ~(q < o)
          PROVE  a # 0 /\ q \in {o + a, o + l}
      <3>1. q \in Nat /\ q # o
        BY <1>1, <2>6
      <3>2. PICK j \in 1 .. l : q = o + j
        <4>1. q - o \in 1 .. l /\ q = o + (q - o)
          BY <2>7, <3>1
        <4>. QED BY <4>1
      <3>. QED BY <2>5, <3>2
    <2>8. CASE a = 0
      <3>1. \A q \in Q : q < o + l + 1 <=> q < o
        <4>1. \A q \in Q : q < o => q < o + l + 1
          BY <1>1
        <4>. QED BY <2>7, <2>8, <4>1
      <3>2. Before(o + l + 1) = Before(o)
        BY <3>1
      <3>. QED BY <2>1, <2>2, <2>3, <2>4, <3>2
    <2>9. CASE a # 0
      <3>1. a \in 1 .. l /\ l \in 1 .. l /\ a # l
        BY <2>5, <2>9
      <3>2. o + a \in Q /\ o + l \in Q
        BY <2>5, <2>9, <3>1
      <3>3. o + a # o + l /\ ~(o + a < o) /\ ~(o + l < o) /\ o + a < o + l + 1 /\ o + l < o + l + 1
        BY <3>1
      <3>4. \A q \in Q : q < o + l + 1 <=> q < o \/ q \in {o + a, o + l}
        <4>1. \A q \in Q : q < o => q < o + l + 1
          BY <1>1
        <4>. QED BY <2>7, <3>3, <4>1
      <3>5. Before(o + l + 1) = Before(o) \cup {o + a, o + l}
        BY <3>2, <3>4
      <3>6. Even(Before(o) \cup {o + a, o + l})
        <4>1. Even(Before(o)) /\ o + a \notin Before(o) /\ o + l \notin Before(o)
          BY <2>1, <2>2, <2>3, <3>3
        <4>. HIDE DEF Before
        <4>. QED BY <3>3, <4>1, AddTwo
      <3>. QED BY <2>2, <2>4, <3>5, <3>6
    <2>. QED BY <2>8, <2>9
  <1>. HIDE DEF B
  <1>6. \A k \in Nat : k \in B
    BY <1>4, <1>5, NatSet
  <1>7. ASSUME NEW i \in 1 .. n + 1 PROVE Even(Before(S[i]))
    <2>1. i - 1 \in Nat /\ i - 1 <= n /\ (i - 1) + 1 = i
      OBVIOUS
    <2>2. i - 1 \in B
      BY <1>6, <2>1
    <2>. QED BY <2>1, <2>2 DEF B
  <1>. QED BY <1>0, <1>7

\* One more element, or an even number: Odd tells them apart.
LEMMA OneMoreIsOdd ==
    ASSUME NEW B, Even(B), NEW x, x \notin B PROVE Odd(B \cup {x})
  <1>1. PICK h \in Nat : Cardinality(B) = h + h
    BY DEF Even
  <1>2. Cardinality(B \cup {x}) = (h + h) + 1
    BY <1>1, FS_AddElement DEF Even
  <1>3. ((h + h) + 1) % 2 = 1
    OBVIOUS
  <1>. QED BY <1>2, <1>3 DEF Odd

\* A text within another is cut out of it.
LEMMA Pieces ==
    ASSUME NEW t \in Seq(Char), NEW u \in Seq(Char), NEW o \in Nat,
           o + Len(u) <= Len(t), \A j \in 1 .. Len(u) : t[o + j] = u[j]
    PROVE  SubSeq(t, o + 1, o + Len(u)) = u
  OBVIOUS

\* The line is one command, which is cut into its words; its quotes are balanced,
\* and it can be embedded in a script.
LEMMA CutIs ==
    ASSUME NEW t, NEW W, NEW S, NEW A, NeatLine(t, W, S, A)
    PROVE  /\ ~HasUnbalancedQuotes(t) /\ Embeddable(t)
           /\ FirstCommand(t) = t /\ Cut(t) = W
  <1>a. /\ t \in Seq(Char) /\ Len(t) \in Nat /\ DOMAIN t = 1 .. Len(t)
        /\ Len(W) \in Nat
    <2>1. t \in Seq(Char) /\ W \in Seq(Seq(Char))
      BY DEF NeatLine, Laid
    <2>. QED BY <2>1
  <1>b. PICK n \in Nat, m \in Nat : n = Len(W) /\ m = Len(t)
    BY <1>a
  <1>c. PICK Q : Q = Unescaped(t, Quote)
    OBVIOUS
  <1>0. /\ n = Len(W) /\ Q = Unescaped(t, Quote)
        /\ m = Len(t) /\ DOMAIN t = 1 .. m /\ t \in Seq(Char)
    BY <1>a, <1>b, <1>c
  <1>. DEFINE Before(x) == {q \in Q : q < x}
  <1>1. \A q \in Q : q \in 1 .. m
    BY <1>0 DEF Unescaped
  <1>2. /\ W \in Seq(Seq(Char)) /\ S \in [1 .. n + 1 -> Nat] /\ S[1] = 0 /\ S[n + 1] = m + 1
        /\ \A i \in 1 .. n :
              /\ S[i + 1] = S[i] + Len(W[i]) + 1
              /\ S[i] + Len(W[i]) <= m
              /\ \A j \in 1 .. Len(W[i]) : t[S[i] + j] = W[i][j]
    BY <1>0 DEF NeatLine, Laid
  <1>3. \A i \in 1 .. n : W[i] \in Seq(Char) /\ Len(W[i]) \in Nat /\ S[i] \in Nat /\ i \in 1 .. n + 1
    <2>1. \A i \in 1 .. n : W[i] \in Seq(Char)
      BY <1>0, <1>2
    <2>2. \A u \in Seq(Char) : Len(u) \in Nat
      OBVIOUS
    <2>. QED BY <1>2, <2>1, <2>2
  <1>4. /\ \A i, j \in 1 .. n + 1 : i < j => S[i] < S[j]
        /\ \A x \in 1 .. m : \E i \in 1 .. n : x = S[i] \/ \E j \in 1 .. Len(W[i]) : x = S[i] + j
    BY <1>0, LaidCovers DEF NeatLine
  <1>5. \A i \in 1 .. n + 1 : Even(Before(S[i]))
    BY <1>0, LineParity
  <1>6. \A i \in 1 .. n : i # 1 => S[i] \in 1 .. m /\ t[S[i]] = Blank
    BY <1>0, LineQuotes
  <1>7. ~HasUnbalancedQuotes(t)
    <2>1. \A q \in Q : q < S[n + 1]
      BY <1>1, <1>2
    <2>2. Before(S[n + 1]) = Q
      BY <2>1
    <2>3. ~Odd(Q)
      BY <1>5, <2>2, EvenIsNotOdd
    <2>4. Unescaped(t, Tick) = {}
      BY LineQuotes DEF Unescaped, Wild
    <2>5. ~Odd({})
      BY FS_EmptySet DEF Odd
    <2>. QED BY <1>0, <2>3, <2>4, <2>5 DEF HasUnbalancedQuotes
  <1>8. ASSUME NEW i \in 1 .. n, NEW j \in 1 .. Len(W[i]), t[S[i] + j] \in {Blank, Break}
        PROVE  Odd(Before(S[i] + j))
    <2>1. PICK o \in Nat, l \in Nat, a \in Nat : o = S[i] /\ l = Len(W[i]) /\ a = A[i]
      BY <1>0, <1>3 DEF NeatLine
    <2>2. a # 0 /\ a < j /\ j < l
      <3>1. W[i][j] \in {Blank, Break}
        BY <1>2, <1>8
      <3>2. Neat(W[i], a) /\ j \in DOMAIN W[i]
        BY <1>0, <1>3, <2>1 DEF NeatLine
      <3>. QED BY <2>1, <3>1, <3>2 DEF Neat
    <2>3. /\ \A k \in 1 .. l : o + k \in Q <=> a # 0 /\ k \in {a, l}
          /\ i # 1 => o \notin Q
      <3>1. \A k \in 1 .. Len(W[i]) : S[i] + k \in Q <=> A[i] # 0 /\ k \in {A[i], Len(W[i])}
        BY <1>0, LineQuotes
      <3>2. i # 1 => S[i] \notin Q
        BY <1>0, LineQuotes
      <3>. QED BY <2>1, <3>1, <3>2
    <2>4. o \notin Q
      BY <1>1, <1>2, <2>1, <2>3
    <2>5. ASSUME NEW q \in Q PROVE q < o + j <=> q < o \/ q = o + a
      <3>1. q \in Nat /\ q # o
        BY <1>1, <2>4
      <3>2. q < o + j /\ ~(q < o) => q = o + a
        <4>. SUFFICES ASSUME q < o + j, ~(q < o) PROVE q = o + a
          OBVIOUS
        <4>1. PICK k \in 1 .. l : q = o + k /\ k < j
          <5>1. q - o \in 1 .. l /\ q = o + (q - o) /\ q - o < j
            BY <2>2, <3>1
          <5>. QED BY <5>1
        <4>2. k \in {a, l}
          BY <2>3, <4>1
        <4>. QED BY <2>2, <4>1, <4>2
      <3>3. q < o => q < o + j
        BY <3>1
      <3>4. o + a < o + j
        BY <2>2
      <3>. QED BY <3>2, <3>3, <3>4
    <2>6. o + a \in Q
      BY <2>2, <2>3
    <2>7. Before(o + j) = Before(o) \cup {o + a}
      BY <2>5, <2>6
    <2>8. Even(Before(o)) /\ o + a \notin Before(o)
      BY <1>3, <1>5, <2>1
    <2>. HIDE DEF Before
    <2>. QED BY <2>1, <2>7, <2>8, OneMoreIsOdd
  <1>d. Outside(t, Break) = {}
    <2>. SUFFICES ASSUME NEW x \in 1 .. m, t[x] = Break PROVE Odd(Before(x))
      BY <1>0 DEF Outside
    <2>1. PICK i \in 1 .. n : x = S[i] \/ \E j \in 1 .. Len(W[i]) : x = S[i] + j
      BY <1>4
    <2>2. x # S[i]
      <3>1. S[i] \in 1 .. m => i # 1
        BY <1>2
      <3>. QED BY <1>6, <3>1, CharAssumption
    <2>3. PICK j \in 1 .. Len(W[i]) : x = S[i] + j
      BY <2>1, <2>2
    <2>. HIDE DEF Before
    <2>. QED BY <1>8, <2>3
  <1>e. \A x \in 1 .. m : t[x] # Newline /\ t[x] # Dollar
    BY <1>0, LineQuotes DEF Wild
  <1>f. Embeddable(t)
    BY <1>0, <1>e DEF Embeddable, Contains
  <1>g. FirstCommand(t) = t
    <2>1. {i \in DOMAIN t : t[i] = Newline} = {}
      BY <1>0, <1>e
    <2>. QED BY <1>d, <2>1 DEF FirstCommand
  <1>. DEFINE blanks == {x \in DOMAIN t : t[x] = Blank /\ ~Odd(Before(x))}
  <1>9. \A x \in 1 .. m : x \in blanks <=> \E i \in 1 .. n : i # 1 /\ x = S[i]
    <2>. SUFFICES ASSUME NEW x \in 1 .. m
                  PROVE  t[x] = Blank /\ ~Odd(Before(x)) <=> \E i \in 1 .. n : i # 1 /\ x = S[i]
      BY <1>0
    <2>. HIDE DEF Before
    <2>1. ASSUME NEW i \in 1 .. n, i # 1, x = S[i] PROVE t[x] = Blank /\ ~Odd(Before(x))
      BY <1>3, <1>5, <1>6, <2>1, EvenIsNotOdd
    <2>2. ASSUME t[x] = Blank, ~Odd(Before(x)) PROVE \E i \in 1 .. n : i # 1 /\ x = S[i]
      <3>1. PICK i \in 1 .. n : x = S[i] \/ \E j \in 1 .. Len(W[i]) : x = S[i] + j
        BY <1>4
      <3>2. ~ \E j \in 1 .. Len(W[i]) : x = S[i] + j
        BY <1>8, <2>2
      <3>3. i # 1
        BY <1>2, <3>1, <3>2
      <3>. QED BY <3>1, <3>2, <3>3
    <2>. QED BY <2>1, <2>2
  <1>10. blanks \cup {0, m + 1} = {S[i] : i \in 1 .. n + 1}
    <2>1. n # 0
      BY <1>0 DEF NeatLine
    <2>2. blanks \subseteq 1 .. m
      BY <1>0
    <2>. HIDE DEF blanks
    <2>3. \A x : x \in blanks \cup {0, m + 1} => x \in {S[i] : i \in 1 .. n + 1}
      <3>1. 1 \in 1 .. n + 1 /\ n + 1 \in 1 .. n + 1
        OBVIOUS
      <3>. QED BY <1>2, <1>3, <1>9, <2>2, <3>1
    <2>4. ASSUME NEW i \in 1 .. n + 1 PROVE S[i] \in blanks \cup {0, m + 1}
      <3>1. i = 1 \/ i = n + 1 \/ (i \in 1 .. n /\ i # 1)
        OBVIOUS
      <3>. QED BY <1>2, <1>6, <1>9, <3>1
    <2>. QED BY <2>3, <2>4
  <1>11. InOrder(blanks \cup {0, m + 1}) = S
    <2>. HIDE DEF blanks
    <2>1. InOrder({S[i] : i \in 1 .. n + 1}) = S
      <3>1. n + 1 \in Nat /\ S \in [1 .. n + 1 -> Nat] /\ \A i, j \in 1 .. n + 1 : i < j => S[i] < S[j]
        BY <1>2, <1>4
      <3>. QED BY <3>1, InOrderIs
    <2>. QED BY <1>10, <2>1
  <1>12. Cut(t) = [k \in 1 .. Len(S) - 1 |-> SubSeq(t, S[k] + 1, S[k + 1] - 1)]
    <2>1. Outside(t, Blank) = blanks
      BY <1>0 DEF Outside
    <2>2. InOrder(Outside(t, Blank) \cup {0, Len(t) + 1}) = S
      BY <1>0, <1>11, <2>1
    <2>. QED BY <2>2 DEF Cut
  <1>13. Len(S) - 1 = n
    <2>1. S \in Seq(Nat) /\ DOMAIN S = 1 .. n + 1
      BY <1>2
    <2>2. Len(S) = n + 1
      BY <2>1
    <2>. QED BY <2>2
  <1>14. \A k \in 1 .. n : SubSeq(t, S[k] + 1, S[k + 1] - 1) = W[k]
    <2>. SUFFICES ASSUME NEW k \in 1 .. n PROVE SubSeq(t, S[k] + 1, S[k + 1] - 1) = W[k]
      OBVIOUS
    <2>1. S[k + 1] - 1 = S[k] + Len(W[k])
      BY <1>2, <1>3
    <2>2. SubSeq(t, S[k] + 1, S[k] + Len(W[k])) = W[k]
      BY <1>0, <1>2, <1>3, Pieces
    <2>. QED BY <2>1, <2>2
  <1>15. W = [k \in 1 .. n |-> W[k]]
    BY <1>0, <1>2
  <1>16. [k \in 1 .. n |-> SubSeq(t, S[k] + 1, S[k + 1] - 1)] = [k \in 1 .. n |-> W[k]]
    BY <1>14
  <1>. QED BY <1>7, <1>12, <1>13, <1>15, <1>16, <1>f, <1>g

\* The place of the first equals sign.
EqAt(w) == SelectInSeq(w, LAMBDA ch : ch = Equals)

\* The key and the value of an argument are found in it.
LEMMA ArgReadsBack ==
    ASSUME NEW k \in Seq(Plain), NEW v \in SafeText,
           NEW w, w = k \o <<Equals>> \o QuoteCLIValue(v)
    PROVE  /\ w \in Seq(Char) /\ Contains(w, Equals) /\ \E a \in Nat : Neat(w, a)
           /\ SubSeq(w, 1, EqAt(w) - 1) = k
           /\ ReadValue(SubSeq(w, EqAt(w) + 1, Len(w))) = v
  <1>a. PICK q : q = QuoteCLIValue(v)
    OBVIOUS
  <1>b. PICK b \in Nat : Neat(q, b)
    BY <1>a, ValueReadsBack
  <1>1. q = QuoteCLIValue(v) /\ ReadValue(q) = v /\ Neat(q, b)
    BY <1>a, <1>b, ValueReadsBack
  <1>2. k \in Seq(Char) /\ q \in Seq(Char) /\ Equals \in Char
    BY <1>1 DEF Neat, Char
  <1>3. Len(k) \in Nat /\ Len(q) \in Nat
    BY <1>2
  <1>4. PICK l \in Nat, m \in Nat : l = Len(k) /\ m = Len(q)
    BY <1>3
  <1>5. \A x, y \in Seq(Char), c \in Char :
           /\ x \o <<c>> \o y \in Seq(Char)
           /\ Len(x \o <<c>> \o y) = Len(x) + 1 + Len(y)
           /\ \A j \in 1 .. Len(x) : (x \o <<c>> \o y)[j] = x[j]
           /\ (x \o <<c>> \o y)[Len(x) + 1] = c
           /\ \A j \in 1 .. Len(y) : (x \o <<c>> \o y)[Len(x) + 1 + j] = y[j]
    OBVIOUS
  <1>6. /\ w \in Seq(Char) /\ Len(w) = l + 1 + m
        /\ \A j \in 1 .. l : w[j] = k[j]
        /\ w[l + 1] = Equals
        /\ \A j \in 1 .. m : w[(l + 1) + j] = q[j]
    BY <1>1, <1>2, <1>4, <1>5
  <1>7. \E a \in Nat : Neat(w, a)
    BY <1>1, ArgIsNeat
  <1>8. \A j \in 1 .. l : w[j] # Equals
    <2>1. \A j \in 1 .. l : k[j] \in Plain
      BY <1>4
    <2>. QED BY <1>6, <2>1, CharAssumption
  <1>9. l + 1 \in 1 .. Len(w)
    BY <1>6
  <1>10. Contains(w, Equals)
    BY <1>6, <1>9 DEF Contains
  <1>11. EqAt(w) = l + 1
    <2>. DEFINE I == {i \in 1 .. Len(w) : w[i] = Equals}
    <2>1. l + 1 \in I
      BY <1>6, <1>9
    <2>2. \A i \in I : l + 1 <= i
      <3>. SUFFICES ASSUME NEW i \in 1 .. Len(w), w[i] = Equals, ~(l + 1 <= i) PROVE FALSE
        BY <1>6
      <3>1. i \in 1 .. l
        OBVIOUS
      <3>. QED BY <1>8, <3>1
    <2>3. \A i \in I : i \in Nat
      OBVIOUS
    <2>4. EqAt(w) = IF I # {} THEN Min(I) ELSE 0
      BY DEF EqAt, SelectInSeq
    <2>. HIDE DEF I
    <2>5. Min(I) = l + 1
      <3>1. \A x \in I : (\A y \in I : x <= y) => x = l + 1
        BY <2>1, <2>2, <2>3
      <3>. QED BY <2>1, <2>2, <3>1 DEF Min
    <2>. QED BY <2>1, <2>4, <2>5
  <1>12. SubSeq(w, 1, l) = k
    <2>1. 0 + Len(k) <= Len(w) /\ \A j \in 1 .. Len(k) : w[0 + j] = k[j]
      BY <1>4, <1>6
    <2>2. SubSeq(w, 0 + 1, 0 + Len(k)) = k
      BY <1>2, <1>6, <2>1, Pieces
    <2>. QED BY <1>4, <2>2
  <1>13. SubSeq(w, (l + 1) + 1, Len(w)) = q
    <2>1. (l + 1) + Len(q) <= Len(w) /\ \A j \in 1 .. Len(q) : w[(l + 1) + j] = q[j]
      BY <1>4, <1>6
    <2>2. SubSeq(w, (l + 1) + 1, (l + 1) + Len(q)) = q
      BY <1>2, <1>6, <2>1, Pieces
    <2>. QED BY <1>4, <1>6, <2>2
  <1>14. EqAt(w) - 1 = l /\ EqAt(w) + 1 = (l + 1) + 1
    BY <1>11
  <1>. QED BY <1>1, <1>6, <1>7, <1>10, <1>12, <1>13, <1>14

\* SetToSeq lists each element of a finite set.
LEMMA KeysInOrder ==
    ASSUME NEW D, IsFiniteSet(D)
    PROVE  /\ SetToSeq(D) \in Seq(D)
           /\ \A d \in D : \E i \in DOMAIN SetToSeq(D) : SetToSeq(D)[i] = d
  <1>1. PICK n \in Nat : n = Cardinality(D)
    BY FS_CardinalityType
  <1>2. ExistsBijection(1 .. n, D)
    BY <1>1, FS_CardinalityType
  <1>3. \E f \in [1 .. n -> D] : IsInjective(f)
    BY <1>2 DEF ExistsBijection, Bijection, Injection
  <1>4. PICK f : f = SetToSeq(D)
    OBVIOUS
  <1>5. f \in [1 .. n -> D] /\ IsInjective(f)
    BY <1>1, <1>3, <1>4 DEF SetToSeq
  <1>6. f \in Injection(1 .. n, D)
    BY <1>5 DEF Injection
  <1>7. Cardinality(1 .. n) = n
    BY FS_Interval
  <1>8. f \in Surjection(1 .. n, D)
    BY <1>1, <1>6, <1>7, FS_Injection
  <1>. QED BY <1>4, <1>5, <1>8 DEF Surjection

\* The argument for a key (ConsoleCLI).
Arg(c, k) == k \o <<Equals>> \o QuoteCLIValue(c.attrs[k])

\* A command whose values quoting takes care of.
IsCommand(c, p, D, at) ==
    /\ c = [path |-> p, attrs |-> at]
    /\ p \in Seq(Seq(Plain)) /\ p # <<>> /\ IsFiniteSet(D) /\ D \subseteq Seq(Plain)
    /\ at \in [D -> SafeText]

\* The words of a command: those of its path, then its arguments.
WordsOf(c, p, D, W) ==
    /\ W \in Seq(Seq(Char)) /\ ConsoleCLI(c) = Join(W) /\ Len(p) \in 1 .. Len(W)
    /\ \A i \in 1 .. Len(p) : W[i] = p[i]
    /\ \A i \in Len(p) + 1 .. Len(W) : \E k \in D : W[i] = Arg(c, k)
    /\ \A k \in D : \E i \in Len(p) + 1 .. Len(W) : W[i] = Arg(c, k)

\* ConsoleCLI joins the words of the command.
LEMMA CommandWords ==
    ASSUME NEW c, NEW p, NEW D, NEW at, IsCommand(c, p, D, at)
    PROVE  \E W : WordsOf(c, p, D, W)
  <1>0. c.path = p /\ DOMAIN c.attrs = D /\ c.attrs = at
    BY DEF IsCommand
  <1>1. PICK ks : ks = SetToSeq(D)
    OBVIOUS
  <1>2. ks \in Seq(D) /\ \A d \in D : \E i \in DOMAIN ks : ks[i] = d
    BY <1>1, KeysInOrder DEF IsCommand
  <1>3. PICK m \in Nat, l \in Nat : m = Len(p) /\ l = Len(ks)
    BY <1>2 DEF IsCommand
  <1>4. DOMAIN ks = 1 .. l /\ \A i \in 1 .. l : ks[i] \in D
    BY <1>2, <1>3
  <1>5. \A k \in D : Arg(c, k) \in Seq(Char)
    <2>. SUFFICES ASSUME NEW k \in D PROVE Arg(c, k) \in Seq(Char)
      OBVIOUS
    <2>1. k \in Seq(Plain) /\ at[k] \in SafeText
      BY DEF IsCommand
    <2>2. k \o <<Equals>> \o QuoteCLIValue(at[k]) \in Seq(Char)
      BY <2>1, ArgReadsBack
    <2>. QED BY <1>0, <2>2 DEF Arg
  <1>. DEFINE args == [i \in DOMAIN ks |-> Arg(c, ks[i])]
  <1>6. args \in Seq(Seq(Char)) /\ Len(args) = l /\ \A i \in 1 .. l : args[i] = Arg(c, ks[i])
    <2>1. DOMAIN args = 1 .. l /\ \A i \in 1 .. l : args[i] = Arg(c, ks[i]) /\ args[i] \in Seq(Char)
      BY <1>4, <1>5
    <2>2. args = [i \in 1 .. l |-> args[i]]
      BY <1>4
    <2>. HIDE DEF args
    <2>3. args \in [1 .. l -> Seq(Char)]
      BY <2>1, <2>2
    <2>. QED BY <2>1, <2>3
  <1>7. ConsoleCLI(c) = Join(p \o args)
    BY <1>0, <1>1 DEF ConsoleCLI, Arg
  <1>. HIDE DEF args
  <1>8. p \in Seq(Seq(Char)) /\ p # <<>>
    <2>1. p \in Seq(Seq(Plain)) /\ p # <<>>
      BY DEF IsCommand
    <2>2. \A i \in 1 .. m : p[i] \in Seq(Char)
      <3>1. \A i \in 1 .. m : p[i] \in Seq(Plain)
        BY <1>3, <2>1
      <3>2. \A u \in Seq(Plain) : u \in Seq(Char)
        BY DEF Char
      <3>. QED BY <3>1, <3>2
    <2>3. p = [i \in 1 .. m |-> p[i]]
      BY <1>3, <2>1
    <2>4. p \in [1 .. m -> Seq(Char)]
      BY <2>2, <2>3
    <2>. QED BY <2>1, <2>4
  <1>9. PICK W : W = p \o args
    OBVIOUS
  <1>10. /\ W \in Seq(Seq(Char)) /\ Len(W) = m + l
         /\ \A i \in 1 .. m : W[i] = p[i]
         /\ \A i \in 1 .. l : W[m + i] = args[i]
    <2>1. \A u, v \in Seq(Seq(Char)) :
             /\ u \o v \in Seq(Seq(Char)) /\ Len(u \o v) = Len(u) + Len(v)
             /\ \A i \in 1 .. Len(u) : (u \o v)[i] = u[i]
             /\ \A i \in 1 .. Len(v) : (u \o v)[Len(u) + i] = v[i]
      OBVIOUS
    <2>2. /\ W \in Seq(Seq(Char)) /\ Len(W) = Len(p) + Len(args)
          /\ \A i \in 1 .. Len(p) : W[i] = p[i]
          /\ \A i \in 1 .. Len(args) : W[Len(p) + i] = args[i]
      BY <1>6, <1>8, <1>9, <2>1
    <2>. QED BY <1>3, <1>6, <2>2
  <1>11. m \in 1 .. m + l
    <2>1. m # 0
      BY <1>3, <1>8
    <2>. QED BY <2>1
  <1>12. ASSUME NEW i \in m + 1 .. m + l PROVE \E k \in D : W[i] = Arg(c, k)
    <2>1. i - m \in 1 .. l /\ i = m + (i - m)
      OBVIOUS
    <2>2. PICK j \in 1 .. l : i = m + j
      BY <2>1
    <2>. QED BY <1>4, <1>6, <1>10, <2>2
  <1>13. ASSUME NEW k \in D PROVE \E i \in m + 1 .. m + l : W[i] = Arg(c, k)
    <2>1. PICK j \in 1 .. l : ks[j] = k
      BY <1>2, <1>4
    <2>2. m + j \in m + 1 .. m + l /\ W[m + j] = Arg(c, k)
      <3>1. m + j \in m + 1 .. m + l
        OBVIOUS
      <3>2. W[m + j] = args[j] /\ args[j] = Arg(c, ks[j])
        BY <1>6, <1>10
      <3>. QED BY <2>1, <3>1, <3>2
    <2>. QED BY <2>2
  <1>14. WordsOf(c, p, D, W)
    BY <1>3, <1>7, <1>9, <1>10, <1>11, <1>12, <1>13 DEF WordsOf
  <1>. QED BY <1>14

\* Every command whose values are safe - no whitespace but spaces and tabs, no
\* backslash, tick or variable, and what ends or evaluates a command only in a
\* value that is quoted for another of its characters - reaches the device as it
\* was meant, whatever its length and its number of attributes: Gate 1 does not
\* refuse its line, the device's parser reads the line back from the literal of
\* the script, and from the line the path, the keys and the values (ConsoleCLI,
\* quoteCLIValue, HasUnbalancedQuotes, StringLiteral).
THEOREM CommandIsReadBack ==
    ASSUME NEW c, NEW p, NEW D, NEW at, IsCommand(c, p, D, at)
    PROVE  ReadsBack(c)
  <1>1. PICK t, W : t = ConsoleCLI(c) /\ WordsOf(c, p, D, W)
    BY CommandWords
  <1>2. PICK n, m : n = Len(W) /\ m = Len(p)
    OBVIOUS
  <1>3. /\ W \in Seq(Seq(Char)) /\ t = Join(W) /\ n \in Nat /\ DOMAIN W = 1 .. n
        /\ m \in 1 .. n /\ W # <<>>
        /\ \A i \in 1 .. m : W[i] = p[i]
        /\ \A i \in m + 1 .. n : \E k \in D : W[i] = Arg(c, k)
        /\ \A k \in D : \E i \in m + 1 .. n : W[i] = Arg(c, k)
    <2>1. W \in Seq(Seq(Char)) /\ n \in Nat /\ DOMAIN W = 1 .. n /\ m \in 1 .. n
      BY <1>1, <1>2 DEF WordsOf
    <2>2. W # <<>>
      BY <1>2, <2>1
    <2>. QED BY <1>1, <1>2, <2>1, <2>2 DEF WordsOf
  <1>4. \A i \in 1 .. m : W[i] \in Seq(Plain)
    BY <1>2, <1>3 DEF IsCommand
  <1>5. ASSUME NEW k \in D
        PROVE  /\ Contains(Arg(c, k), Equals) /\ \E a \in Nat : Neat(Arg(c, k), a)
               /\ SubSeq(Arg(c, k), 1, EqAt(Arg(c, k)) - 1) = k
               /\ ReadValue(SubSeq(Arg(c, k), EqAt(Arg(c, k)) + 1, Len(Arg(c, k)))) = at[k]
    <2>1. k \in Seq(Plain) /\ at[k] \in SafeText /\ c.attrs = at
      BY DEF IsCommand
    <2>2. Arg(c, k) = k \o <<Equals>> \o QuoteCLIValue(at[k])
      BY <2>1 DEF Arg
    <2>. QED BY <2>1, <2>2, ArgReadsBack
  <1>6. \A i \in 1 .. n : \E a \in Nat : Neat(W[i], a)
    <2>. SUFFICES ASSUME NEW i \in 1 .. n PROVE \E a \in Nat : Neat(W[i], a)
      OBVIOUS
    <2>1. i \in 1 .. m \/ i \in m + 1 .. n
      BY <1>3
    <2>2. CASE i \in 1 .. m
      BY <1>4, <2>2, PlainIsNeat
    <2>3. CASE i \in m + 1 .. n
      <3>1. PICK k \in D : W[i] = Arg(c, k)
        BY <1>3, <2>3
      <3>. QED BY <1>5, <3>1
    <2>. QED BY <2>1, <2>2, <2>3
  <1>7. PICK S : Laid(t, W, S)
    BY <1>3, JoinIs
  <1>8. PICK A : A = [i \in 1 .. n |-> CHOOSE a \in Nat : Neat(W[i], a)]
    OBVIOUS
  <1>9. NeatLine(t, W, S, A)
    BY <1>2, <1>3, <1>6, <1>7, <1>8 DEF NeatLine
  <1>10. ~HasUnbalancedQuotes(t) /\ Embeddable(t) /\ FirstCommand(t) = t /\ Cut(t) = W
    BY <1>9, CutIs
  <1>11. ReadLiteral(StringLiteral(t)) = [text |-> t, rest |-> <<>>]
    <2>1. t \in Seq(Char)
      BY <1>7 DEF Laid
    <2>. QED BY <1>10, <2>1, LiteralReadsBack
  <1>12. \A i \in 1 .. n : Contains(W[i], Equals) <=> i \in m + 1 .. n
    <2>. SUFFICES ASSUME NEW i \in 1 .. n
                  PROVE  Contains(W[i], Equals) <=> i \in m + 1 .. n
      OBVIOUS
    <2>1. CASE i \in 1 .. m
      <3>1. \A j \in 1 .. Len(W[i]) : W[i][j] \in Plain
        BY <1>4, <2>1
      <3>2. ~Contains(W[i], Equals)
        BY <3>1, CharAssumption DEF Contains
      <3>. QED BY <1>3, <2>1, <3>2
    <2>2. CASE i \in m + 1 .. n
      BY <1>3, <1>5, <2>2
    <2>3. i \in 1 .. m \/ i \in m + 1 .. n
      BY <1>3
    <2>. QED BY <2>1, <2>2, <2>3
  <1>13. PICK path : path = InOrder({j \in DOMAIN W : ~Contains(W[j], Equals)})
    OBVIOUS
  <1>14. [i \in DOMAIN path |-> W[path[i]]] = p
    <2>1. PICK r : r = [i \in 1 .. m |-> i]
      OBVIOUS
    <2>2. m \in Nat /\ r \in [1 .. m -> Nat] /\ \A i, j \in 1 .. m : i < j => r[i] < r[j]
      BY <1>3, <2>1
    <2>3. {j \in DOMAIN W : ~Contains(W[j], Equals)} = {r[i] : i \in 1 .. m}
      <3>1. \A j \in 1 .. n : j \in m + 1 .. n <=> j \notin 1 .. m
        BY <1>3
      <3>2. \A j \in 1 .. m : j \in 1 .. n
        BY <1>3
      <3>3. {r[i] : i \in 1 .. m} = 1 .. m
        BY <2>1
      <3>. QED BY <1>3, <1>12, <3>1, <3>2, <3>3
    <2>4. path = r
      BY <1>13, <2>2, <2>3, InOrderIs
    <2>5. p = [i \in 1 .. m |-> p[i]]
      BY <1>2 DEF IsCommand
    <2>6. [i \in DOMAIN path |-> W[path[i]]] = [i \in 1 .. m |-> p[i]]
      BY <1>3, <2>1, <2>4
    <2>. QED BY <2>5, <2>6
  <1>15. PICK args : args = {W[i] : i \in {j \in DOMAIN W : Contains(W[j], Equals)}}
    OBVIOUS
  <1>16. \A w : w \in args <=> \E k \in D : w = Arg(c, k)
    <2>1. \A w : w \in args <=> \E i \in m + 1 .. n : w = W[i]
      <3>1. \A i \in m + 1 .. n : i \in 1 .. n
        BY <1>3
      <3>. QED BY <1>3, <1>12, <1>15, <3>1
    <2>. QED BY <1>3, <2>1
  <1>. DEFINE key(w) == SubSeq(w, 1, EqAt(w) - 1)
              val(k) == LET w == CHOOSE w \in args : key(w) = k
                        IN  ReadValue(SubSeq(w, EqAt(w) + 1, Len(w)))
  <1>17. {key(w) : w \in args} = D
    <2>1. \A k \in D : key(Arg(c, k)) = k
      BY <1>5
    <2>. HIDE DEF key
    <2>. QED BY <1>16, <2>1
  <1>18. ASSUME NEW k \in D PROVE val(k) = at[k]
    <2>1. \A w \in args : key(w) = k <=> w = Arg(c, k)
      BY <1>5, <1>16
    <2>2. Arg(c, k) \in args
      BY <1>16
    <2>. HIDE DEF key
    <2>3. (CHOOSE w \in args : key(w) = k) = Arg(c, k)
      BY <2>1, <2>2
    <2>4. val(k) = ReadValue(SubSeq(Arg(c, k), EqAt(Arg(c, k)) + 1, Len(Arg(c, k))))
      BY <2>3
    <2>. QED BY <1>5, <2>4
  <1>19. ReadLine(t) = [path  |-> [i \in DOMAIN path |-> W[path[i]]],
                        attrs |-> [k \in {key(w) : w \in args} |-> val(k)]]
    BY <1>10, <1>13, <1>15 DEF ReadLine, EqAt
  <1>20. at = [k \in D |-> at[k]] /\ c = [path |-> p, attrs |-> at]
    BY DEF IsCommand
  <1>21. [k \in {key(w) : w \in args} |-> val(k)] = at
    <2>. HIDE DEF key, val
    <2>. QED BY <1>17, <1>18, <1>20
  <1>22. ReadLine(t) = c
    <2>. HIDE DEF key, val
    <2>. QED BY <1>14, <1>19, <1>20, <1>21
  <1>. QED BY <1>1, <1>10, <1>11, <1>22 DEF ReadsBack

\* The commands of CommandReadsBack are such commands.
LEMMA EveryCommand == CommandReadsBack
  <1>1. PICK D : D = SeqOf(Plain, 1)
    OBVIOUS
  <1>2. IsFiniteSet(D) /\ D \subseteq Seq(Plain)
    <2>1. D = [1 .. 0 -> Plain] \cup [1 .. 1 -> Plain]
      <3>1. \A m : m \in 0 .. 1 <=> m = 0 \/ m = 1
        OBVIOUS
      <3>. QED BY <1>1, <3>1 DEF SeqOf
    <2>2. \A f \in [1 .. 0 -> Plain] : f = <<>>
      OBVIOUS
    <2>3. \A f \in [1 .. 1 -> Plain] : f[1] \in Plain /\ f = [i \in {1} |-> f[1]]
      OBVIOUS
    <2>4. D \subseteq {<<>>} \cup {[i \in {1} |-> x] : x \in Plain}
      BY <2>1, <2>2, <2>3
    <2>5. IsFiniteSet({[i \in {1} |-> x] : x \in Plain})
      <3>1. IsFiniteSet(Plain)
        BY CharAssumption
      <3>. DEFINE Ones == {[i \in {1} |-> x] : x \in Plain}
                  f == [x \in Plain |-> [i \in {1} |-> x]]
      <3>2. f \in Surjection(Plain, Ones)
        BY DEF Surjection
      <3>. HIDE DEF Ones, f
      <3>3. IsFiniteSet(Ones)
        BY <3>1, <3>2, FS_Surjection
      <3>. QED BY <3>3 DEF Ones
    <2>6. IsFiniteSet({<<>>} \cup {[i \in {1} |-> x] : x \in Plain})
      BY <2>5, FS_Singleton, FS_Union
    <2>7. IsFiniteSet(D)
      BY <2>4, <2>6, FS_Subset
    <2>8. D \subseteq Seq(Plain)
      <3>1. \A m \in Nat : [1 .. m -> Plain] \subseteq Seq(Plain)
        OBVIOUS
      <3>. QED BY <2>1, <3>1
    <2>. QED BY <2>7, <2>8
  <1>. DEFINE V == {v \in BoundedSeq(Char, MaxValue) : Safe(v)}
  <1>3. V \subseteq SafeText
    <2>1. BoundedSeq(Char, MaxValue) \subseteq Seq(Char)
      BY CharAssumption DEF BoundedSeq, SeqOf
    <2>. QED BY <2>1 DEF SafeText
  <1>. HIDE DEF V
  <1>4. ASSUME NEW c \in CommandsOf(V) PROVE ReadsBack(c)
    <2>1. c \in [path : {<<k>> : k \in D}, attrs : [D -> V]]
      BY <1>1, <1>4 DEF CommandsOf
    <2>2. PICK p, at : /\ c = [path |-> p, attrs |-> at] /\ p \in {<<k>> : k \in D}
                       /\ at \in [D -> V]
      BY <2>1
    <2>3. at \in [D -> SafeText]
      BY <1>3, <2>2
    <2>4. p \in Seq(Seq(Plain)) /\ p # <<>>
      <3>1. \A k \in Seq(Plain) : <<k>> \in Seq(Seq(Plain)) /\ <<k>> # <<>>
        OBVIOUS
      <3>. QED BY <1>2, <2>2, <3>1
    <2>5. IsCommand(c, p, D, at)
      BY <1>2, <2>2, <2>3, <2>4 DEF IsCommand
    <2>. QED BY <2>5, CommandIsReadBack
  <1>. QED BY <1>4 DEF CommandReadsBack, V

\* In every state the rendering of commands with safe values is faithful
\* (ConsoleCLI).
THEOREM CommandsReadBack == SpecSC => []Renders
  <1>1. Renders
    BY EveryCommand DEF Renders
  <1>. QED BY <1>1, PTL

-----------------------------------------------------------------------------
(* The verdicts of Validate.                                               *)

\* The nth place of some places.
LEMMA InOrderPlaces ==
    ASSUME NEW l \in Nat, NEW S0 \in SUBSET (1 .. l), NEW n0 \in 1 .. Cardinality(S0)
    PROVE  \E i \in S0 : Cardinality({j \in S0 : j <= i}) = n0
  <1>. DEFINE Has(S) == \A n \in 1 .. Cardinality(S) :
                           \E i \in S : Cardinality({j \in S : j <= i}) = n
              A == {m \in Nat : \A S \in SUBSET (1 .. m) : Has(S)}
  <1>1. 0 \in A
    <2>1. \A S \in SUBSET (1 .. 0) : S = {}
      OBVIOUS
    <2>2. Has({})
      <3>1. 1 .. Cardinality({}) = {}
        BY FS_EmptySet
      <3>. QED BY <3>1
    <2>. HIDE DEF Has
    <2>. QED BY <2>1, <2>2
  <1>2. ASSUME NEW m \in Nat, m \in A PROVE m + 1 \in A
    <2>. SUFFICES ASSUME NEW S \in SUBSET (1 .. m + 1) PROVE Has(S)
      BY <1>2
    <2>1. CASE m + 1 \notin S
      <3>1. S \in SUBSET (1 .. m)
        BY <2>1
      <3>. QED BY <1>2, <3>1
    <2>2. CASE m + 1 \in S
      <3>. DEFINE R == S \ {m + 1}
      <3>1. R \in SUBSET (1 .. m) /\ IsFiniteSet(S)
        <4>1. IsFiniteSet(1 .. m + 1)
          BY FS_Interval
        <4>2. IsFiniteSet(S)
          BY <4>1, FS_Subset
        <4>. QED BY <4>2
      <3>2. Cardinality(R) = Cardinality(S) - 1 /\ Cardinality(S) \in Nat /\ Cardinality(R) \in Nat
        BY <2>2, <3>1, FS_RemoveElement, FS_CardinalityType
      <3>3. Has(R)
        BY <1>2, <3>1
      <3>. SUFFICES ASSUME NEW n \in 1 .. Cardinality(S)
                    PROVE  \E i \in S : Cardinality({j \in S : j <= i}) = n
        OBVIOUS
      <3>4. CASE n = Cardinality(S)
        <4>1. {j \in S : j <= m + 1} = S
          <5>1. \A j \in S : j <= m + 1
            OBVIOUS
          <5>. QED BY <5>1
        <4>. QED BY <2>2, <3>4, <4>1
      <3>5. CASE n # Cardinality(S)
        <4>1. n \in 1 .. Cardinality(R)
          BY <3>2, <3>5
        <4>2. PICK i \in R : Cardinality({j \in R : j <= i}) = n
          BY <3>3, <4>1
        <4>3. {j \in S : j <= i} = {j \in R : j <= i}
          <5>1. i \in 1 .. m
            BY <3>1
          <5>2. \A j \in S : j <= i => j # m + 1
            BY <5>1
          <5>. QED BY <5>2
        <4>. QED BY <4>2, <4>3
      <3>. QED BY <3>4, <3>5
    <2>. QED BY <2>1, <2>2
  <1>. HIDE DEF A
  <1>3. l \in A
    BY <1>1, <1>2, NatSet
  <1>. QED BY <1>3 DEF A

\* Some places have a first one.
LEMMA FirstPlace ==
    ASSUME NEW l \in Nat, NEW S \in SUBSET (1 .. l), S # {}
    PROVE  \E i \in S : \A j \in S : i <= j
  <1>. SUFFICES ASSUME \A i \in S : \E j \in S : ~(i <= j) PROVE FALSE
    OBVIOUS
  <1>. DEFINE A == {k \in Nat : \A j \in S : k <= j}
  <1>1. 0 \in A
    OBVIOUS
  <1>2. ASSUME NEW k \in Nat, k \in A PROVE k + 1 \in A
    <2>1. k \notin S
      BY <1>2
    <2>. QED BY <1>2, <2>1
  <1>. HIDE DEF A
  <1>3. \A k \in Nat : k \in A
    BY <1>1, <1>2, NatSet
  <1>4. PICK j \in S : TRUE
    OBVIOUS
  <1>5. j + 1 \in Nat /\ ~(j + 1 <= j)
    OBVIOUS
  <1>6. j + 1 <= j
    BY <1>3, <1>5 DEF A
  <1>. QED BY <1>5, <1>6

\* What is left of a text is a text.
LEMMA WithoutIsText ==
    ASSUME NEW s \in Seq(Char), NEW drop PROVE Without(s, drop) \in Seq(Char)
  <1>1. PICK l \in Nat : l = Len(s) /\ DOMAIN s = 1 .. l
    OBVIOUS
  <1>2. PICK S \in SUBSET (1 .. l) : S = DOMAIN s \ drop
    BY <1>1
  <1>3. PICK c \in Nat : c = Cardinality(S)
    <2>1. IsFiniteSet(1 .. l)
      BY FS_Interval
    <2>2. IsFiniteSet(S)
      BY <2>1, FS_Subset
    <2>. QED BY <2>2, FS_CardinalityType
  <1>4. PICK kept : kept = InOrder(S)
    OBVIOUS
  <1>5. DOMAIN kept = 1 .. c /\ \A n \in 1 .. c : kept[n] \in S
    <2>1. \A n \in 1 .. c : \E i \in S : Cardinality({j \in S : j <= i}) = n
      BY <1>3, InOrderPlaces
    <2>. QED BY <1>3, <1>4, <2>1 DEF InOrder
  <1>6. Without(s, drop) = [n \in 1 .. c |-> s[kept[n]]]
    BY <1>2, <1>4, <1>5 DEF Without
  <1>7. \A n \in 1 .. c : s[kept[n]] \in Char
    <2>1. \A i \in 1 .. l : s[i] \in Char
      BY <1>1
    <2>2. \A i \in S : i \in 1 .. l
      OBVIOUS
    <2>. QED BY <1>5, <2>1, <2>2
  <1>8. [n \in 1 .. c |-> s[kept[n]]] \in [1 .. c -> Char]
    BY <1>7
  <1>. QED BY <1>6, <1>8

\* What a device finds in a script are texts.
LEMMA ScriptIsText ==
    ASSUME NEW s \in Seq(Char)
    PROVE  /\ ReadLiteral(StringLiteral(s)).text \in Seq(Char)
           /\ ReadLiteral(StringLiteral(s)).rest \in Seq(Char)
  <1>1. PICK w \in Seq(Char) : w = StringLiteral(s)
    <2>1. Inner(s) \in Seq(Char)
      BY InnerIs, CharAssumption DEF Escapes
    <2>2. Quote \in Char
      BY DEF Char
    <2>3. \A u \in Seq(Char), c \in Char : <<c>> \o u \o <<c>> \in Seq(Char)
      OBVIOUS
    <2>. QED BY <2>1, <2>2, <2>3 DEF StringLiteral, Inner, Quoted
  <1>0. PICK l \in Nat : l = Len(w) /\ DOMAIN w = 1 .. l
    OBVIOUS
  <1>2. PICK S \in SUBSET (1 .. l) : l = Len(w) /\ S = Unescaped(w, Quote) \ {1}
    BY <1>0 DEF Unescaped
  <1>3. CASE S = {} \/ Contains(w, Newline)
    <2>1. ReadLiteral(w) = [text |-> <<>>, rest |-> w]
      BY <1>2, <1>3 DEF ReadLiteral
    <2>. QED BY <1>1, <2>1
  <1>4. CASE ~(S = {} \/ Contains(w, Newline))
    <2>1. PICK end : end = CHOOSE i \in S : \A j \in S : i <= j
      OBVIOUS
    <2>2. end \in S
      BY <1>4, <2>1, FirstPlace
    <2>3. end \in 2 .. l
      BY <1>2, <2>2
    <2>4. /\ ReadLiteral(w).text = Unescape(SubSeq(w, 2, end - 1))
          /\ ReadLiteral(w).rest = SubSeq(w, end + 1, l)
      BY <1>2, <1>4, <2>1 DEF ReadLiteral
    <2>5. SubSeq(w, 2, end - 1) \in Seq(Char)
      <3>1. 2 \in 1 .. Len(w) + 1 /\ end - 1 \in 2 - 1 .. Len(w)
        BY <1>2, <2>3
      <3>. QED BY <3>1, SubSeqProperties
    <2>6. SubSeq(w, end + 1, l) \in Seq(Char)
      <3>1. end + 1 \in 1 .. Len(w) + 1 /\ l \in (end + 1) - 1 .. Len(w)
        BY <1>2, <2>3
      <3>. QED BY <3>1, SubSeqProperties
    <2>7. Unescape(SubSeq(w, 2, end - 1)) \in Seq(Char)
      BY <2>5, WithoutIsText DEF Unescape
    <2>. QED BY <1>1, <2>4, <2>6, <2>7
  <1>. QED BY <1>3, <1>4

\* Of every output that means a judgement, Gate 1 accepts those of a valid line
\* and those with nothing it recognises, and names an attribute only of those
\* that reject one (Classify).
LEMMA EchoIsClassified ==
    ASSUME NEW judged \in Judgement, NEW out \in Echo(judged)
    PROVE  LET c == Classify(CleanConsoleOutput(out)) IN
           /\ out \in Seq(Form)
           /\ c = "ok" => judged = "valid" \/ ~Recognised(out)
           /\ c = "attribute" => judged = "parameter"
           /\ c = "syntax" => judged # "valid"
  <1>. DEFINE forms == CASE judged = "valid"     -> {"evl"}
                         [] judged = "parameter" -> {"evl bad parameter", "bad parameter", "error"}
                         [] judged = "syntax"    -> {"<% error", "error"}
  <1>1. PICK f \in forms \cup {"note"} : out = <<"blank", "note", f, "blank">>
    BY DEF Echo
  <1>2. /\ judged = "valid" => f \in {"evl", "note"}
        /\ judged = "parameter" => f \in {"evl bad parameter", "bad parameter", "error", "note"}
        /\ judged = "syntax" => f \in {"<% error", "error", "note"}
        /\ f \in Form /\ f # "blank"
    BY <1>1 DEF Judgement, Form
  <1>. HIDE DEF forms
  <1>3. /\ Len(out) = 4 /\ DOMAIN out = 1 .. 4
        /\ out[1] = "blank" /\ out[2] = "note" /\ out[3] = f /\ out[4] = "blank"
    BY <1>1
  <1>4. out \in Seq(Form)
    <2>1. "blank" \in Form /\ "note" \in Form
      BY DEF Form
    <2>2. \A b, c, d \in Form : <<b, c, d, b>> \in Seq(Form)
      OBVIOUS
    <2>. QED BY <1>1, <1>2, <2>1, <2>2
  <1>. DEFINE shown == {i \in DOMAIN out : out[i] # "blank"}
  <1>5. shown = {2, 3}
    <2>1. \A i \in 1 .. 4 : i = 1 \/ i = 2 \/ i = 3 \/ i = 4
      OBVIOUS
    <2>2. \A i \in 1 .. 4 : out[i] # "blank" <=> i \in {2, 3}
      BY <1>2, <1>3, <2>1
    <2>3. {2, 3} \subseteq 1 .. 4
      OBVIOUS
    <2>. QED BY <1>3, <2>2, <2>3
  <1>6. /\ (CHOOSE i \in {2, 3} : \A j \in {2, 3} : i <= j) = 2
        /\ (CHOOSE i \in {2, 3} : \A j \in {2, 3} : i >= j) = 3
    <2>1. \E i \in {2, 3} : \A j \in {2, 3} : i <= j
      OBVIOUS
    <2>2. \E i \in {2, 3} : \A j \in {2, 3} : i >= j
      OBVIOUS
    <2>. QED BY <2>1, <2>2
  <1>7. CleanConsoleOutput(out) = SubSeq(out, 2, 3)
    <2>1. shown # {}
      BY <1>5
    <2>2. CleanConsoleOutput(out) = SubSeq(out, CHOOSE i \in shown : \A j \in shown : i <= j,
                                                CHOOSE i \in shown : \A j \in shown : i >= j)
      BY <2>1 DEF CleanConsoleOutput
    <2>. HIDE DEF shown
    <2>. QED BY <1>5, <1>6, <2>2
  <1>8. PICK c : c = SubSeq(out, 2, 3) /\ c \in Seq(Form) /\ Len(c) = 2 /\ c[1] = "note" /\ c[2] = f
    <2>1. 2 \in 1 .. Len(out) + 1 /\ 3 \in 2 - 1 .. Len(out)
      BY <1>3
    <2>2. /\ SubSeq(out, 2, 3) \in Seq(Form) /\ Len(SubSeq(out, 2, 3)) = 2
          /\ \A i \in 1 .. 2 : SubSeq(out, 2, 3)[i] = out[2 + i - 1]
      BY <1>4, <2>1, SubSeqProperties
    <2>3. SubSeq(out, 2, 3)[1] = out[2] /\ SubSeq(out, 2, 3)[2] = out[3]
      <3>1. 1 \in 1 .. 2 /\ 2 \in 1 .. 2 /\ 2 + 1 - 1 = 2 /\ 2 + 2 - 1 = 3
        OBVIOUS
      <3>. QED BY <2>2, <3>1
    <2>. QED BY <1>3, <2>2, <2>3
  <1>9. \A x : Contains(c, x) <=> x \in {"note", f}
    <2>1. \A i \in 1 .. 2 : i = 1 \/ i = 2
      OBVIOUS
    <2>2. 1 \in 1 .. Len(c) /\ 2 \in 1 .. Len(c) /\ 1 .. Len(c) = 1 .. 2
      BY <1>8
    <2>. QED BY <1>8, <2>1, <2>2 DEF Contains
  <1>10. Classify(c) = IF f = "evl bad parameter" THEN "attribute"
                       ELSE IF f = "<% error" THEN "syntax"
                       ELSE IF f = "bad parameter" THEN "attribute"
                       ELSE IF f = "error" THEN "syntax" ELSE "ok"
    <2>1. /\ Contains(c, "evl bad parameter") <=> f = "evl bad parameter"
          /\ Contains(c, "<% error") <=> f = "<% error"
          /\ Contains(c, "bad parameter") <=> f = "bad parameter"
          /\ Contains(c, "error") <=> f = "error"
      BY <1>9
    <2>. QED BY <2>1 DEF Classify
  <1>11. f = "note" => ~Recognised(out)
    <2>1. \A i \in 1 .. 4 : i = 1 \/ i = 2 \/ i = 3 \/ i = 4
      OBVIOUS
    <2>. QED BY <1>3, <2>1 DEF Recognised
  <1>. QED BY <1>2, <1>4, <1>7, <1>8, <1>10, <1>11 DEF Judgement

\* Gate 1 accepts an empty output (Classify).
LEMMA EmptyIsOk ==
    Classify(CleanConsoleOutput(<<>>)) = "ok" /\ ~Recognised(<<>>)
  <1>1. DOMAIN <<>> = {} /\ 1 .. Len(<<>>) = {}
    OBVIOUS
  <1>2. CleanConsoleOutput(<<>>) = <<>>
    BY <1>1 DEF CleanConsoleOutput
  <1>3. \A f : ~Contains(<<>>, f)
    BY <1>1 DEF Contains
  <1>. QED BY <1>1, <1>2, <1>3 DEF Classify, Recognised

\* The answers that Validate judges.
Told == {"text", "empty"}

\* A Validate whose Run has started has a line with balanced quotes; the device
\* had read the script before the Run is answered or returns; what it found in it
\* is the line, if that can be embedded.
ConsoleInv ==
    /\ line \in [Validator -> Line \cup {None}]
    /\ heard \in [Validator -> Report \cup {None}]
    /\ \A p \in Validator :
          /\ pc[p] # "idle" => line[p] # None /\ ~HasUnbalancedQuotes(line[p])
          /\ answer[p] \in Told \/ res[p] \in Told => heard[p] # None
          /\ heard[p] # None =>
                /\ pc[p] # "idle"
                /\ Embeddable(line[p]) => heard[p].text = line[p] /\ heard[p].rest = <<>>
                /\ heard[p].out \in Echo(heard[p].judged) \cup {<<>>}

\* Steps that hear nothing new keep it.
LEMMA ConsoleKeeps ==
    ASSUME ConsoleInv, UNCHANGED <<line, heard>>,
           \A p \in Validator :
              /\ pc[p] = "idle" => pc'[p] = "idle" \/ (line[p] # None /\ ~HasUnbalancedQuotes(line[p]))
              /\ pc[p] # "idle" => pc'[p] # "idle"
              /\ answer'[p] \in Told => answer[p] \in Told
              /\ res'[p] \in Told => answer[p] \in Told \/ res[p] \in Told
    PROVE  ConsoleInv'
  BY DEF ConsoleInv

\* Nothing is heard before the first call.
LEMMA ConsoleInit == InitSC => ConsoleInv
  <1>. SUFFICES ASSUME InitSC PROVE ConsoleInv
    OBVIOUS
  <1>1. /\ line = [p \in Validator |-> None] /\ heard = [p \in Validator |-> None]
        /\ \A p \in Validator : pc[p] = "idle" /\ answer[p] = "none" /\ res[p] = "none"
    BY ConsoleAssumption DEF InitSC, Init
  <1>. QED BY <1>1 DEF ConsoleInv, Told

\* The device judges the line it finds in the literal of the script.
LEMMA DeviceReads ==
    ASSUME IInv, ConsoleInv, NEW p \in Caller, SDevAnswer(p) PROVE ConsoleInv'
  <1>1. DevAnswer(p) /\ line' = line /\ pc' = pc /\ res' = res /\ pc[p] # "idle"
    BY DEF SDevAnswer, DevAnswer, IInv
  <1>2. p \in DOMAIN answer /\ \A q \in Caller \ {p} : answer'[q] = answer[q]
    BY <1>1 DEF DevAnswer, IInv, TypeOK
  <1>3. CASE UNCHANGED heard /\ (Scripted(p) => answer'[p] \in {"silent", "error"})
    <2>1. \A q \in Validator : answer'[q] \in Told => answer[q] \in Told
      BY <1>2, <1>3, ConsoleAssumption DEF Scripted, Told
    <2>. QED BY <1>1, <1>3, <2>1, ConsoleKeeps
  <1>4. ASSUME Scripted(p), NEW judged \in Judgement, NEW out \in Echo(judged) \cup {<<>>},
               heard' = [heard EXCEPT ![p] = Made(p, judged, out)]
        PROVE  ConsoleInv'
    <2>1. p \in Validator /\ line[p] \in Line /\ line[p] \in Seq(Char)
      BY <1>1, <1>4, ConsoleAssumption DEF Scripted, ConsoleInv
    <2>2. PICK new : new = Made(p, judged, out)
      OBVIOUS
    <2>3. /\ new.judged = judged /\ new.out = out
          /\ new.text = ReadLiteral(StringLiteral(line[p])).text
          /\ new.rest = ReadLiteral(StringLiteral(line[p])).rest
      BY <2>2 DEF Made
    <2>4. new \in Report
      <3>1. out \in Seq(Form)
        <4>1. <<>> \in Seq(Form)
          OBVIOUS
        <4>. QED BY <1>4, <4>1, EchoIsClassified
      <3>2. new.text \in Seq(Char) /\ new.rest \in Seq(Char)
        BY <2>1, <2>3, ScriptIsText
      <3>3. new = [text |-> new.text, rest |-> new.rest, judged |-> judged, out |-> out]
        BY <2>2 DEF Made
      <3>. QED BY <3>1, <3>2, <3>3 DEF Report
    <2>5. Embeddable(line[p]) => new.text = line[p] /\ new.rest = <<>>
      <3>1. Embeddable(line[p]) =>
               ReadLiteral(StringLiteral(line[p])) = [text |-> line[p], rest |-> <<>>]
        BY <2>1, LiteralReadsBack
      <3>. QED BY <2>3, <3>1
    <2>6. new # None /\ new.out \in Echo(new.judged) \cup {<<>>}
      BY <1>4, <2>3, <2>4, ConsoleAssumption
    <2>7. heard' \in [Validator -> Report \cup {None}]
      BY <1>4, <2>2, <2>4 DEF ConsoleInv
    <2>8. heard'[p] = new /\ \A q \in Validator \ {p} : heard'[q] = heard[q]
      BY <1>4, <2>1, <2>2 DEF ConsoleInv
    <2>9. \A q \in Validator \ {p} : answer'[q] = answer[q]
      BY <1>2, ConsoleAssumption
    <2>10. line' \in [Validator -> Line \cup {None}]
      BY <1>1 DEF ConsoleInv
    <2>. SUFFICES ASSUME NEW q \in Validator
                  PROVE  /\ pc'[q] # "idle" => line'[q] # None /\ ~HasUnbalancedQuotes(line'[q])
                         /\ answer'[q] \in Told \/ res'[q] \in Told => heard'[q] # None
                         /\ heard'[q] # None =>
                               /\ pc'[q] # "idle"
                               /\ Embeddable(line'[q]) => heard'[q].text = line'[q] /\ heard'[q].rest = <<>>
                               /\ heard'[q].out \in Echo(heard'[q].judged) \cup {<<>>}
      BY <2>7, <2>10 DEF ConsoleInv
    <2>11. CASE q = p
      BY <1>1, <2>5, <2>6, <2>8, <2>11 DEF ConsoleInv
    <2>12. CASE q # p
      BY <1>1, <2>8, <2>9, <2>12 DEF ConsoleInv
    <2>. QED BY <2>11, <2>12
  <1>5. ASSUME Scripted(p), NEW judged \in Judgement,
               NEW out \in IF answer'[p] = "text" THEN Echo(judged) ELSE {<<>>},
               heard' = [heard EXCEPT ![p] = Made(p, judged, out)]
        PROVE  ConsoleInv'
    BY <1>4, <1>5
  <1>. QED BY <1>3, <1>5 DEF SDevAnswer

\* Every step preserves the invariant.
LEMMA ConsoleStep ==
    ASSUME IInv, ConsoleInv, [NextSC]_varsSC PROVE ConsoleInv'
  <1>1. ASSUME NEW p \in Caller, ValidateCall(p) PROVE ConsoleInv'
    <2>1. p \in Validator /\ line[p] = None /\ UNCHANGED <<pc, answer, res, heard>>
      BY <1>1 DEF ValidateCall, Scripted, vars
    <2>2. PICK l \in Line : line' = [line EXCEPT ![p] = l]
      BY <1>1 DEF ValidateCall
    <2>3. pc[p] = "idle" /\ heard[p] = None
      BY <2>1 DEF ConsoleInv
    <2>4. line' \in [Validator -> Line \cup {None}] /\ \A q \in Validator \ {p} : line'[q] = line[q]
      BY <2>1, <2>2 DEF ConsoleInv
    <2>. QED BY <2>1, <2>3, <2>4 DEF ConsoleInv
  <1>2. ASSUME NEW p \in Caller, SRunCall(p) PROVE ConsoleInv'
    <2>1. /\ pc[p] = "idle" /\ Called(p) /\ UNCHANGED <<line, heard, answer>>
          /\ \E x \in PC : pc' = [pc EXCEPT ![p] = x] /\ x # "idle"
          /\ res' = res \/ res' = [res EXCEPT ![p] = "ctx"]
      BY <1>2 DEF SRunCall, RunCall, Return, PC
    <2>2. \A q \in Validator :
              /\ pc[q] = "idle" => pc'[q] = "idle" \/ (line[q] # None /\ ~HasUnbalancedQuotes(line[q]))
              /\ pc[q] # "idle" => pc'[q] # "idle"
              /\ res'[q] \in Told => res[q] \in Told
      BY <2>1, ConsoleAssumption DEF Called, Scripted, IInv, TypeOK, Told
    <2>. QED BY <2>1, <2>2, ConsoleKeeps
  <1>3. ASSUME NEW p \in Caller, SStep(p) PROVE ConsoleInv'
    <2>. DEFINE Moves == /\ UNCHANGED <<line, heard>>
                         /\ \A q \in Caller :
                              /\ pc'[q] = "idle" <=> pc[q] = "idle"
                              /\ answer'[q] \in Told => answer[q] \in Told
                              /\ res'[q] \in Told => answer[q] \in Told \/ res[q] \in Told
    <2>0. UNCHANGED <<line, heard>>
      BY <1>3 DEF SStep
    <2>1. ASSUME RunLock(p) \/ SessionOpens(p) \/ CtxEnd(p) PROVE Moves
      BY <2>0, <2>1 DEF RunLock, SessionOpens, CtxEnd, IInv, TypeOK
    <2>2. ASSUME OpenFails(p) \/ RunReap(p) PROVE Moves
      BY <2>0, <2>2 DEF OpenFails, RunReap, Return, IInv, TypeOK, Told
    <2>3. ASSUME RunCtx(p) \/ OutputEnds(p) \/ DevCloses(p) PROVE Moves
      BY <2>0, <2>3 DEF RunCtx, OutputEnds, DevCloses, IInv, TypeOK, Told
    <2>4. ASSUME RunAnswer(p) PROVE Moves
      BY <2>0, <2>4 DEF RunAnswer, Return, ResultOf, IInv, TypeOK, Told
    <2>5. Moves
      BY <1>3, <2>1, <2>2, <2>3, <2>4 DEF SStep
    <2>. QED BY <2>5, ConsoleKeeps, ConsoleAssumption
  <1>4. ASSUME NEW p \in Caller, SDevAnswer(p) PROVE ConsoleInv'
    BY <1>4, DeviceReads
  <1>5. CASE UNCHANGED <<line, heard, pc, answer, res>>
    BY <1>5, ConsoleKeeps
  <1>6. ASSUME NEW cfg \in Config, NEW k \in Key, Handshake(cfg, k)
        PROVE  UNCHANGED <<line, heard, pc, answer, res>>
    BY <1>6 DEF Handshake, vars
  <1>7. ASSUME NEW cfg \in Config, DialRefused(cfg) \/ DialFails(cfg)
        PROVE  UNCHANGED <<line, heard, pc, answer, res>>
    BY <1>7 DEF DialRefused, DialFails, vars
  <1>8. ASSUME SEnv \/ UNCHANGED varsSC PROVE UNCHANGED <<line, heard, pc, answer, res>>
    BY <1>8 DEF SEnv, Close, ConnBreak, varsSC, vars
  <1>9. ASSUME NEW k \in Key, Rekey(k) PROVE UNCHANGED <<line, heard, pc, answer, res>>
    BY <1>9 DEF Rekey
  <1>. QED BY <1>1, <1>2, <1>3, <1>4, <1>5, <1>6, <1>7, <1>8, <1>9 DEF NextSC

\* What the invariant says of verdicts.
LEMMA ConsoleVerdicts == IInv /\ ConsoleInv => VerdictTrue
  <1>. SUFFICES ASSUME IInv, ConsoleInv, NEW p \in Validator
                PROVE  LET h == heard[p] IN
                       /\ Verdict(p) = "ok" => h # None /\ (h.judged = "valid" \/ ~Recognised(h.out))
                       /\ Verdict(p) = "attribute" => h # None /\ h.judged = "parameter"
                       /\ Verdict(p) = "syntax" =>
                             IF h = None THEN HasUnbalancedQuotes(line[p]) ELSE h.judged # "valid"
                       /\ h # None /\ Embeddable(line[p]) => h.text = line[p] /\ h.rest = <<>>
    BY DEF VerdictTrue
  <1>1. res[p] \in {"none", "failed", "error", "ctx"} \cup Told
    BY ConsoleAssumption DEF IInv, TypeOK, Result, Told
  <1>2. CASE heard[p] = None
    <2>1. res[p] \notin Told
      BY <1>2 DEF ConsoleInv
    <2>. QED BY <1>1, <1>2, <2>1 DEF Verdict, Told
  <1>3. CASE heard[p] # None
    <2>1. /\ line[p] # None /\ ~HasUnbalancedQuotes(line[p])
          /\ Embeddable(line[p]) => heard[p].text = line[p] /\ heard[p].rest = <<>>
          /\ heard[p].judged \in Judgement
          /\ heard[p].out \in Echo(heard[p].judged) \cup {<<>>}
      BY <1>3 DEF ConsoleInv, Report
    <2>2. PICK c : c = Classify(CleanConsoleOutput(heard[p].out))
      OBVIOUS
    <2>3. /\ c = "ok" => heard[p].judged = "valid" \/ ~Recognised(heard[p].out)
          /\ c = "attribute" => heard[p].judged = "parameter"
          /\ c = "syntax" => heard[p].judged # "valid"
      <3>1. CASE heard[p].out = <<>>
        BY <2>2, <3>1, EmptyIsOk
      <3>2. CASE heard[p].out \in Echo(heard[p].judged)
        BY <2>1, <2>2, <3>2, EchoIsClassified
      <3>. QED BY <2>1, <3>1, <3>2
    <2>4. Verdict(p) = c \/ Verdict(p) \notin {"ok", "attribute", "syntax"}
      BY <1>1, <2>1, <2>2 DEF Verdict, Told
    <2>. QED BY <1>3, <2>1, <2>3, <2>4
  <1>. QED BY <1>2, <1>3

\* Validate tells what the device's parser made of its own line, for every line,
\* whoever else uses the connection: what passes was accepted by the device or
\* answered with nothing Gate 1 recognises, what is rejected was rejected, and
\* the device judged exactly the line, unless it has a variable or a newline
\* (Gate1.Run, consoleCommandTransport).
THEOREM VerdictsAreTrue == SpecSC => []VerdictTrue
  <1>1. IInv /\ ConsoleInv /\ [NextSC]_varsSC => ConsoleInv'
    BY ConsoleStep
  <1>. QED BY <1>1, ConsoleInit, ConsoleInvariance, ConsoleVerdicts, PTL DEF SpecSC
=============================================================================
