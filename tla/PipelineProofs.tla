---------------------------- MODULE PipelineProofs ----------------------------
(***************************************************************************)
(* TLAPS proofs about Orchestrator and Pipeline, for every number of       *)
(* callers and attributes of a command: IInv is inductive, a capability is *)
(* probed once, and no command slips past the gates; the pipeline keeps    *)
(* this when the callers share a schema, Gate 2 tells the truth about the  *)
(* device, and a login is what it says.                                    *)
(***************************************************************************)
EXTENDS Pipeline, TLAPS

-----------------------------------------------------------------------------
(* The pipeline without its schema: Orchestrator.                          *)

USE DEF world, runState, Goto, Return, Probe, Op, Kind, PC

\* The invariant holds before the first call.
LEMMA InitEstablishes == Init => IInv
<1> SUFFICES ASSUME Init PROVE IInv OBVIOUS
<1> USE DEF Init
<1>1. TypeOK BY DEF TypeOK
<1>2. LockInv BY OrchestratorAssumption DEF LockInv
<1>3. PipelineInv BY DEF PipelineInv
<1>4. CapabilityTrue BY DEF CapabilityTrue
<1>5. GatedRun BY DEF GatedRun
<1>. QED BY <1>1, <1>2, <1>3, <1>4, <1>5 DEF IInv

\* A step that only moves the program counter and the probe of one caller.
LEMMA CallStep ==
    ASSUME IInv, NEW p \in Caller, Call(p) PROVE IInv'
<1> USE DEF IInv, Call
<1>1. TypeOK' BY DEF TypeOK
<1>2. LockInv' BY OrchestratorAssumption DEF TypeOK, LockInv, InEnsure
<1>3. PipelineInv' BY DEF TypeOK, PipelineInv, LockInv, InEnsure
<1>4. CapabilityTrue' BY DEF CapabilityTrue
<1>5. GatedRun' BY DEF TypeOK, GatedRun
<1>. QED BY <1>1, <1>2, <1>3, <1>4, <1>5

\* ensureRun takes initMu, or finds the pipeline ready.
LEMMA EnsureStep ==
    ASSUME IInv, NEW p \in Caller, Ensure(p) PROVE IInv'
<1> USE DEF IInv, Ensure
<1>1. TypeOK' BY DEF TypeOK
<1>2. LockInv' BY OrchestratorAssumption DEF TypeOK, LockInv, PipelineInv, InEnsure
<1>3. PipelineInv'
  <2>1. \A q \in Caller : q # p => pc'[q] = pc[q] BY DEF TypeOK
  <2>2. InEnsure(p) /\ pc[p] = "ensure" BY DEF PipelineInv
  <2>3. op[p] \in {"Validate", "RunStructured", "Inspect"}
    BY <2>2 DEF InEnsure, TypeOK
  <2>4. CASE ready
    <3>1. pc'[p] = IF op[p] = "Inspect" THEN "discover" ELSE "gate"
      BY <2>4 DEF TypeOK
    <3>. QED BY <2>1, <2>3, <2>4, <3>1 DEF TypeOK, PipelineInv, InEnsure
  <2>5. CASE ~ready
    <3>1. pc'[p] = "probe" BY <2>5 DEF TypeOK
    <3>2. probing[p] = "inspect" BY <2>2 DEF PipelineInv
    <3>. QED BY <2>1, <2>3, <2>5, <3>1, <3>2 DEF TypeOK, PipelineInv, InEnsure
  <2>. QED BY <2>4, <2>5
<1>4. CapabilityTrue' BY DEF CapabilityTrue
<1>5. GatedRun' BY DEF TypeOK, GatedRun
<1>. QED BY <1>1, <1>2, <1>3, <1>4, <1>5

\* What AfterProbe can do, once the probe of p has been decided.
LEMMA ProbeLockStep ==
    ASSUME IInv, NEW p \in Caller, ProbeLock(p) PROVE IInv'
<1> USE DEF IInv, ProbeLock, AfterProbe
<1>1. TypeOK' BY DEF TypeOK
<1>2. LockInv' BY OrchestratorAssumption DEF TypeOK, LockInv, PipelineInv, InEnsure
<1>3. PipelineInv'
  <2>1. \A q \in Caller : q # p => pc'[q] = pc[q] /\ probing'[q] = probing[q]
    BY DEF TypeOK
  <2>2. CASE probed[probing[p]]
    BY <2>1, <2>2 DEF TypeOK, PipelineInv, InEnsure
  <2>3. CASE ~probed[probing[p]]
    BY <2>1, <2>3 DEF TypeOK, PipelineInv, InEnsure
  <2>. QED BY <2>2, <2>3
<1>4. CapabilityTrue' BY DEF CapabilityTrue
<1>5. GatedRun' BY DEF TypeOK, GatedRun, InEnsure
<1>. QED BY <1>1, <1>2, <1>3, <1>4, <1>5

\* A probe answers: its capability is decided, unless it failed.
LEMMA ProbeTripStep ==
    ASSUME IInv, NEW p \in Caller, NEW outcome \in {"ok", "trap", "cut", "failed"},
           ProbeTrip(p, outcome)
    PROVE  IInv'
<1> USE DEF IInv, ProbeTrip, AfterProbe, Decides, Release
<1>1. TypeOK' BY DEF TypeOK
<1>2. LockInv' BY OrchestratorAssumption DEF TypeOK, LockInv, PipelineInv, InEnsure
<1>3. PipelineInv'
  <2>1. \A q \in Caller : q # p => pc'[q] = pc[q] /\ probing'[q] = probing[q]
    BY DEF TypeOK
  <2>2. ~probed[probing[p]] BY DEF LockInv
  <2>3. \A x \in Probe : probed[x] => probed'[x] BY <2>2 DEF TypeOK
  <2>4. ready' => \A x \in Probe : probed'[x] BY <2>3 DEF PipelineInv
  <2>5. ASSUME NEW q \in Caller, q # p, InEnsure(q),
               pc[q] \in {"probe", "trip", "wire"}
        PROVE  ~InEnsure(p)
    BY <2>5 DEF LockInv
  <2>6. CASE Decides(outcome) /\ InEnsure(p) /\ probing[p] = "inspect"
    <3>1. pc'[p] = "probe" /\ probing'[p] = "parse" /\ probed'["inspect"]
      BY <2>6 DEF TypeOK
    <3>. QED BY <2>1, <2>3, <2>4, <2>5, <2>6, <3>1 DEF TypeOK, PipelineInv, InEnsure
  <2>7. CASE Decides(outcome) /\ InEnsure(p) /\ probing[p] = "parse"
    <3>1. pc'[p] = "wire" /\ probing'[p] = "parse" /\ \A x \in Probe : probed'[x]
      BY <2>2, <2>3, <2>7 DEF TypeOK, PipelineInv
    <3>. QED BY <2>1, <2>3, <2>4, <2>5, <2>7, <3>1 DEF TypeOK, PipelineInv, InEnsure
  <2>8. CASE ~Decides(outcome) \/ ~InEnsure(p)
    <3>1. pc'[p] = "returned" BY <2>8 DEF TypeOK
    <3>. QED BY <2>1, <2>3, <2>4, <3>1 DEF TypeOK, PipelineInv, InEnsure
  <2>. QED BY <2>6, <2>7, <2>8 DEF TypeOK
<1>4. CapabilityTrue' BY DEF TypeOK, LockInv, CapabilityTrue
<1>5. GatedRun' BY DEF TypeOK, GatedRun, InEnsure
<1>. QED BY <1>1, <1>2, <1>3, <1>4, <1>5

\* The pipeline is built.
LEMMA WireStep ==
    ASSUME IInv, NEW p \in Caller, Wire(p) PROVE IInv'
<1> USE DEF IInv, Wire, Release
<1>1. TypeOK' BY DEF TypeOK
<1>2. LockInv' BY OrchestratorAssumption DEF TypeOK, LockInv, PipelineInv, InEnsure
<1>3. PipelineInv'
  <2>1. \A q \in Caller : q # p => pc'[q] = pc[q] BY DEF TypeOK
  <2>2. InEnsure(p) /\ initMu = p /\ \A x \in Probe : probed[x]
    BY DEF PipelineInv, LockInv
  <2>3. op[p] \in {"Validate", "RunStructured", "Inspect"}
    BY <2>2 DEF InEnsure, TypeOK
  <2>. QED BY <2>1, <2>2, <2>3 DEF TypeOK, PipelineInv, LockInv, InEnsure
<1>4. CapabilityTrue' BY DEF CapabilityTrue
<1>5. GatedRun' BY DEF TypeOK, GatedRun
<1>. QED BY <1>1, <1>2, <1>3, <1>4, <1>5

\* A gate is skipped, when its capability is known to be absent, or consulted.
LEMMA GateStep ==
    ASSUME IInv, NEW p \in Caller, Gate(p) PROVE IInv'
<1> USE DEF IInv, Gate, Decided
<1>1. TypeOK' BY DEF TypeOK
<1>2. LockInv' BY OrchestratorAssumption DEF TypeOK, LockInv, PipelineInv, InEnsure
<1>3. PipelineInv' BY DEF TypeOK, PipelineInv, InEnsure
<1>4. CapabilityTrue' BY DEF CapabilityTrue
<1>5. GatedRun'
  <2>1. \A x \in Probe : probed[x] BY DEF PipelineInv
  <2>2. ~supports["parse"] => ~serves["parse"] \/ MayTrap
    BY <2>1, OrchestratorAssumption DEF TypeOK, CapabilityTrue
  <2>3. kind[p] = "structured" \/ GateProbe(p) = "parse"
    BY DEF TypeOK, GateProbe
  <2>. QED BY <2>2, <2>3 DEF TypeOK, GatedRun
<1>. QED BY <1>1, <1>2, <1>3, <1>4, <1>5

\* The gate has judged the command.
LEMMA GateTripStep ==
    ASSUME IInv, NEW p \in Caller, GateTrip(p) PROVE IInv'
<1> USE DEF IInv, GateTrip, Gate1Run, Gate2Validate, Decided
<1>1. TypeOK' BY DEF TypeOK
<1>2. LockInv' BY OrchestratorAssumption DEF TypeOK, LockInv, PipelineInv, InEnsure
<1>3. PipelineInv' BY DEF TypeOK, PipelineInv, InEnsure
<1>4. CapabilityTrue' BY DEF CapabilityTrue
<1>5. GatedRun' BY DEF TypeOK, GatedRun
<1>. QED BY <1>1, <1>2, <1>3, <1>4, <1>5

\* Discover and the command itself only return.
LEMMA ReturnStep ==
    ASSUME IInv, NEW p \in Caller, Discover(p) \/ Run(p) PROVE IInv'
<1> USE DEF IInv, Discover, Run
<1>1. TypeOK' BY DEF TypeOK
<1>2. LockInv' BY DEF TypeOK, LockInv, InEnsure
<1>3. PipelineInv' BY DEF TypeOK, PipelineInv, InEnsure
<1>4. CapabilityTrue' BY DEF CapabilityTrue
<1>5. GatedRun' BY DEF TypeOK, GatedRun, PipelineInv
<1>. QED BY <1>1, <1>2, <1>3, <1>4, <1>5

\* The client is closed.
LEMMA CloseStep ==
    ASSUME IInv, Close PROVE IInv'
<1> USE DEF IInv, Close
<1>1. TypeOK' BY DEF TypeOK
<1>2. LockInv' BY DEF LockInv, InEnsure
<1>3. PipelineInv' BY DEF PipelineInv, InEnsure
<1>4. CapabilityTrue' BY DEF CapabilityTrue
<1>5. GatedRun' BY DEF GatedRun
<1>. QED BY <1>1, <1>2, <1>3, <1>4, <1>5

\* Every step preserves the invariant.
LEMMA NextPreserves == IInv /\ [Next]_vars => IInv'
<1> SUFFICES ASSUME IInv, [Next]_vars PROVE IInv' OBVIOUS
<1>1. ASSUME NEW p \in Caller, Call(p) \/ Step(p) PROVE IInv'
  BY <1>1, CallStep, EnsureStep, ProbeLockStep, ProbeTripStep, WireStep,
     GateStep, GateTripStep, ReturnStep DEF Step
<1>2. CASE UNCHANGED vars
  BY <1>2 DEF vars, IInv, TypeOK, LockInv, PipelineInv, CapabilityTrue,
              GatedRun, InEnsure
<1>. QED BY <1>1, <1>2, CloseStep DEF Next

\* The invariant of the pipeline, for every number of callers: who holds
\* initMu and probeMu, how far ensureRun is, and what the gates concluded
\* (client_transport.go, orchestrate.go).
THEOREM PipelineInvariance == Spec => []IInv
<1>. QED BY InitEstablishes, NextPreserves, PTL DEF Spec

\* probeMu held across the probe: concurrent first calls do not double-probe
\* (ProbeInspect, ProbeParse).
THEOREM NoDoubleProbe == Spec => []ProbeOnce
<1>1. IInv => ProbeOnce BY OrchestratorAssumption DEF IInv, LockInv, ProbeOnce
<1>. QED BY <1>1, PipelineInvariance, PTL

\* A capability is what the device said (ProbeInspect, ProbeParse).
THEOREM CapabilitiesAreTrue == Spec => []CapabilityTrue
<1>1. IInv => CapabilityTrue BY DEF IInv
<1>. QED BY <1>1, PipelineInvariance, PTL

\* RunStructured never executes what its gate did not let pass (ensureRun,
\* validate, RunStructured).
THEOREM NothingSlipsPast == Spec => []GatedRun
<1>1. IInv => GatedRun BY DEF IInv
<1>. QED BY <1>1, PipelineInvariance, PTL

-----------------------------------------------------------------------------
(* The pipeline with its schema and the login.                             *)

\* What holds of the answers whatever fails, and what holds of them as long as the
\* device traps only what it does not serve.
Truthful == JudgedRight /\ (~MayTrap => VerdictRight)

\* The invariant holds before the login.
LEMMA PInitEstablishes == InitP => PInv /\ Truthful /\ LoginTells
<1> SUFFICES ASSUME InitP PROVE PInv /\ Truthful /\ LoginTells OBVIOUS
<1> USE DEF InitP
<1>1. IInv BY InitEstablishes
<1>2. PipelineTypeOK BY PipelineAssumption DEF PipelineTypeOK
<1>3. Undecided BY DEF Init, Undecided
<1>4. Base \subseteq has /\ SchemaTrue(entry) /\ \A p \in Caller : SchemaTrue(found[p])
  BY DEF SchemaTrue
<1>5. Truthful BY DEF Init, Truthful, JudgedRight, Checked, VerdictRight
<1>6. LoginTells BY DEF LoginTells, Init
<1>. QED BY <1>1, <1>2, <1>3, <1>4, <1>5, <1>6 DEF PInv

\* The pipeline with its schema takes only steps of the pipeline without it.
LEMMA StepsOfOrchestrator == [NextP]_varsP => [Next]_vars
<1> SUFFICES ASSUME [NextP]_varsP PROVE [Next]_vars OBVIOUS
<1>1. CASE LoginFirst \/ LoginSecond \/ Expire \/ Grow
  BY <1>1 DEF LoginFirst, LoginSecond, Expire, Grow
<1>6. CASE PClose BY <1>6 DEF PClose, Next
<1>2. ASSUME NEW p \in Caller, PCall(p) PROVE Call(p) BY <1>2 DEF PCall
<1>3. ASSUME NEW p \in Caller, PStep(p) PROVE Step(p) BY <1>3 DEF PStep
<1>4. ASSUME NEW p \in Caller, SchemaStep(p) PROVE Step(p) \/ UNCHANGED vars
  BY <1>4 DEF SchemaStep, Read, Store, Hit, Use, Step
<1>5. CASE UNCHANGED varsP BY <1>5 DEF varsP
<1>. QED BY <1>1, <1>2, <1>3, <1>4, <1>5, <1>6 DEF NextP, Next

\* Every step of the session keeps what the base pipeline guarantees.
LEMMA BasePreserved == IInv /\ [NextP]_varsP => IInv'
<1>. QED BY StepsOfOrchestrator, NextPreserves

\* The login, the clock and the device leave the pipeline alone, and a Close all
\* but the connection.
LEMMA OutsideStep ==
    ASSUME PInv, Truthful, LoginFirst \/ LoginSecond \/ PClose \/ Expire \/ Grow
    PROVE  (PipelineTypeOK /\ Undecided /\ Base \subseteq has /\ SchemaTrue(entry)
               /\ \A p \in Caller : SchemaTrue(found[p]))' /\ Truthful'
<1> USE DEF PInv
<1>1. CASE LoginFirst \/ LoginSecond
  <2> USE <1>1 DEF LoginFirst, LoginSecond, CloseFailed, AfterFirst, deviceVars, schemaVars, vars
  <2>1. PipelineTypeOK' BY DEF PipelineTypeOK, Schema
  <2>2. Undecided' BY DEF Undecided, NeedsSchema
  <2>3. Truthful' BY DEF Truthful, JudgedRight, Checked, VerdictRight
  <2>. QED BY <2>1, <2>2, <2>3 DEF SchemaTrue
<1>2. CASE Expire
  <2> USE <1>2 DEF Expire, deviceVars, loginVars, vars
  <2>1. PipelineTypeOK' BY DEF PipelineTypeOK, Schema
  <2>2. Undecided' BY DEF Undecided, NeedsSchema
  <2>3. Truthful' BY DEF Truthful, JudgedRight, Checked, VerdictRight
  <2>. QED BY <2>1, <2>2, <2>3 DEF SchemaTrue
<1>3. CASE Grow
  <2> USE <1>3 DEF Grow, loginVars, schemaVars, vars
  <2>1. PipelineTypeOK' BY DEF PipelineTypeOK, Schema
  <2>2. Undecided' BY DEF Undecided, NeedsSchema
  <2>3. has \subseteq has' BY DEF PipelineTypeOK
  <2>4. Truthful' BY <2>3 DEF Truthful, JudgedRight, Checked, VerdictRight
  <2>. QED BY <2>1, <2>2, <2>3, <2>4 DEF SchemaTrue
<1>4. CASE PClose
  <2> USE <1>4 DEF PClose, Close, deviceVars, schemaVars
  <2>1. PipelineTypeOK' BY DEF PipelineTypeOK, Schema
  <2>2. Undecided' BY DEF Undecided, NeedsSchema
  <2>3. Truthful' BY DEF Truthful, JudgedRight, Checked, VerdictRight
  <2>. QED BY <2>1, <2>2, <2>3 DEF SchemaTrue
<1>. QED BY <1>1, <1>2, <1>3, <1>4

\* A command gets its attributes before anything is said of it.
LEMMA CallKeeps ==
    ASSUME PInv, Truthful, NEW p \in Caller, PCall(p)
    PROVE  (PipelineTypeOK /\ Undecided /\ Base \subseteq has /\ SchemaTrue(entry)
               /\ \A q \in Caller : SchemaTrue(found[q]))' /\ Truthful'
<1> USE DEF PInv, PCall, Call, loginVars, deviceVars
<1>1. PipelineTypeOK' BY DEF PipelineTypeOK, Schema
<1>2. \A q \in Caller : q # p => pc'[q] = pc[q] /\ asked'[q] = asked[q]
  BY DEF IInv, TypeOK, PipelineTypeOK, Goto
<1>3. pc[p] = "idle" /\ verdict[p] = "none" BY DEF Undecided
<1>4. ~NeedsSchema(p) BY <1>3 DEF NeedsSchema
<1>5. Undecided' BY <1>2, <1>3, <1>4 DEF Undecided, NeedsSchema
<1>6. Truthful' BY <1>2, <1>3 DEF Truthful, JudgedRight, Checked, VerdictRight
<1>. QED BY <1>1, <1>5, <1>6 DEF SchemaTrue

\* A judged command is executed, or its caller returns.
LEMMA JudgedGoesOn ==
    ASSUME PInv, NEW p \in Caller, GateTrip(p)
    PROVE  pc'[p] = "returned" \/ (pc'[p] = "run" /\ res'[p] = res[p])
<1> USE DEF PInv, IInv, TypeOK, Return, Goto
<1>1. ASSUME NEW v, Decided(p, v)
      PROVE  pc'[p] = "returned" \/ (pc'[p] = "run" /\ res'[p] = res[p])
  BY <1>1 DEF Decided
<1>2. CASE Return(p, "error") BY <1>2
<1>. QED BY <1>1, <1>2 DEF GateTrip, Gate1Run, Gate2Validate

\* A step that needs no schema: Gate 2 is skipped only where it must be.
LEMMA StepKeeps ==
    ASSUME PInv, Truthful, NEW p \in Caller, PStep(p)
    PROVE  (PipelineTypeOK /\ Undecided /\ Base \subseteq has /\ SchemaTrue(entry)
               /\ \A q \in Caller : SchemaTrue(found[q]))' /\ Truthful'
<1> USE DEF PInv, PStep, loginVars, deviceVars, schemaVars
<1>1. PipelineTypeOK' BY DEF PipelineTypeOK, Schema
<1>2. Step(p) /\ ~NeedsSchema(p) /\ found[p] = None BY DEF Undecided
<1>3. UNCHANGED world /\ kind' = kind /\ op' = op
  BY <1>2 DEF Step, Ensure, ProbeLock, ProbeTrip, AfterProbe, Wire, Gate, GateTrip, Discover, Run
<1>4. \A q \in Caller : q # p =>
         pc'[q] = pc[q] /\ verdict'[q] = verdict[q] /\ res'[q] = res[q]
  BY <1>2 DEF IInv, TypeOK, Step, Ensure, ProbeLock, ProbeTrip, AfterProbe, Wire, Gate,
              GateTrip, Gate1Run, Gate2Validate, Decided, Discover, Run, Goto, Return
<1>5. CASE Gate(p)
  <2>1. ready /\ op[p] \in {"Validate", "RunStructured"} /\ verdict[p] = "none"
    BY <1>5 DEF Gate, IInv, PipelineInv, Undecided
  <2>2. kind[p] = "structured" /\ ~supports["inspect"] => ~serves["inspect"] \/ MayTrap
    BY <2>1, OrchestratorAssumption DEF IInv, PipelineInv, CapabilityTrue, TypeOK, Probe
  <2>3. \/ verdict'[p] = "none" /\ pc'[p] = "gateTrip" /\ res'[p] = res[p]
        \/ /\ ~supports[GateProbe(p)] /\ verdict'[p] = "skipped"
           /\ pc'[p] = "returned" \/ (pc'[p] = "run" /\ res'[p] = res[p])
    BY <1>5, <2>1 DEF Gate, Decided, Return, Goto, IInv, TypeOK
  <2>4. Undecided' BY <1>2, <1>3, <1>4, <1>5, <2>3 DEF Gate, Undecided, NeedsSchema
  <2>5. Truthful' BY <1>3, <1>4, <2>2, <2>3 DEF Truthful, JudgedRight, Checked, VerdictRight, GateProbe
  <2>. QED BY <1>1, <1>3, <2>4, <2>5 DEF SchemaTrue
<1>6. CASE GateTrip(p)
  <2>1. kind[p] # "structured" BY <1>2, <1>6 DEF NeedsSchema, GateTrip
  <2>2. pc'[p] = "returned" \/ (pc'[p] = "run" /\ res'[p] = res[p])
    BY <1>6, JudgedGoesOn
  <2>3. Undecided' BY <1>2, <1>3, <1>4, <1>6, <2>2 DEF GateTrip, Undecided, NeedsSchema
  <2>4. Truthful' BY <1>3, <1>4, <2>1 DEF Truthful, JudgedRight, Checked, VerdictRight
  <2>. QED BY <1>1, <1>3, <2>3, <2>4 DEF SchemaTrue
<1>7. CASE Discover(p) \/ Run(p)
  <2>1. verdict' = verdict /\ pc'[p] = "returned"
    BY <1>7 DEF Discover, Run, Return, Goto, IInv, TypeOK
  <2>2. Undecided' BY <1>2, <1>3, <1>4, <2>1 DEF Undecided, NeedsSchema
  <2>3. Truthful' BY <1>3, <2>1 DEF Truthful, JudgedRight, Checked, VerdictRight
  <2>. QED BY <1>1, <1>3, <2>2, <2>3 DEF SchemaTrue
<1>8. CASE \/ Ensure(p) \/ ProbeLock(p) \/ Wire(p)
           \/ \E outcome \in {"ok", "trap", "cut", "failed"} : ProbeTrip(p, outcome)
  <2>1. /\ verdict' = verdict /\ pc[p] \in {"ensure", "probe", "trip", "wire"}
        /\ pc'[p] # "returned" => res'[p] = res[p]
    BY <1>8 DEF Ensure, ProbeLock, Wire, ProbeTrip, AfterProbe, Return, Goto, IInv, TypeOK
  <2>2. verdict[p] = "none" BY <2>1 DEF Undecided
  <2>3. Undecided' BY <1>2, <1>3, <1>4, <2>1, <2>2 DEF Undecided, NeedsSchema
  <2>4. Truthful' BY <1>3, <2>1 DEF Truthful, JudgedRight, Checked, VerdictRight
  <2>. QED BY <1>1, <1>3, <2>3, <2>4 DEF SchemaTrue
<1>. QED BY <1>2, <1>5, <1>6, <1>7, <1>8 DEF Step

\* A failed discovery says nothing; one that did not fail finds what there is.
LEMMA ReadKeeps ==
    ASSUME PInv, Truthful, NEW p \in Caller, Read(p)
    PROVE  (PipelineTypeOK /\ Undecided /\ Base \subseteq has /\ SchemaTrue(entry)
               /\ \A q \in Caller : SchemaTrue(found[q]))' /\ Truthful'
<1> USE DEF PInv, loginVars, deviceVars
<1>. PICK outcome \in {"rows", "trap", "fatal", "network"} :
        /\ outcome = "rows" => serves["inspect"]
        /\ outcome = "trap" => ~menu \/ ~serves["inspect"] \/ MayTrap
        /\ \/ /\ closed /\ outcome = "rows" /\ menu
              /\ \E names \in SUBSET has :
                    found' = [found EXCEPT ![p] = [known |-> TRUE, names |-> names]]
              /\ UNCHANGED vars
           \/ /\ Discovered(outcome) # None
              /\ found' = [found EXCEPT ![p] = Discovered(outcome)]
              /\ UNCHANGED vars
           \/ /\ Discovered(outcome) = None
              /\ GateTrip(p) \/ Discover(p)
              /\ res'[p] = "error"
              /\ UNCHANGED found
  BY DEF Read
<1>1. NeedsSchema(p) /\ found[p] = None /\ UNCHANGED <<loginVars, deviceVars, asked, entry>>
  BY DEF Read
<1>2. ASSUME NEW s \in Schema, SchemaTrue(s), UNCHANGED vars,
             found' = [found EXCEPT ![p] = s]
      PROVE  (PipelineTypeOK /\ Undecided /\ Base \subseteq has /\ SchemaTrue(entry)
                 /\ \A q \in Caller : SchemaTrue(found[q]))' /\ Truthful'
  <2> USE <1>2 DEF vars
  <2>1. PipelineTypeOK' BY <1>1 DEF PipelineTypeOK, Schema
  <2>2. Undecided' BY <1>1 DEF Undecided, NeedsSchema, PipelineTypeOK
  <2>3. \A q \in Caller : SchemaTrue(found'[q]) BY DEF PipelineTypeOK
  <2>4. SchemaTrue(entry)' /\ (\A q \in Caller : SchemaTrue(found[q]))'
    BY <1>1, <2>3 DEF SchemaTrue
  <2>5. Truthful' BY <1>1 DEF Truthful, JudgedRight, Checked, VerdictRight
  <2>. QED BY <1>1, <2>1, <2>2, <2>4, <2>5
<1>4. CASE /\ Discovered(outcome) # None
           /\ found' = [found EXCEPT ![p] = Discovered(outcome)]
           /\ UNCHANGED vars
  <2>1. Discovered(outcome) \in Schema /\ SchemaTrue(Discovered(outcome))
    BY <1>4 DEF Discovered, Schema, SchemaTrue, PipelineTypeOK, Swallowed, TranslateError
  <2>. QED BY <1>2, <1>4, <2>1
<1>5. ASSUME closed, UNCHANGED vars, NEW names \in SUBSET has,
             found' = [found EXCEPT ![p] = [known |-> TRUE, names |-> names]]
      PROVE  (PipelineTypeOK /\ Undecided /\ Base \subseteq has /\ SchemaTrue(entry)
                 /\ \A q \in Caller : SchemaTrue(found[q]))' /\ Truthful'
  <2> DEFINE s == [known |-> TRUE, names |-> names]
  <2>1. s \in Schema /\ SchemaTrue(s) BY <1>5 DEF Schema, SchemaTrue, PipelineTypeOK
  <2>2. found' = [found EXCEPT ![p] = s] BY <1>5
  <2> HIDE DEF s
  <2>. QED BY <1>2, <1>5, <2>1, <2>2
<1>3. CASE /\ GateTrip(p) \/ Discover(p)
           /\ res'[p] = "error"
           /\ UNCHANGED found
  <2>1. (GateTrip(p) \/ Discover(p)) /\ res'[p] = "error" /\ found' = found BY <1>3
  <2>2. UNCHANGED world /\ kind' = kind /\ op' = op BY <2>1 DEF GateTrip, Discover
  <2>3. verdict' = verdict /\ pc'[p] = "returned"
    BY <1>1, <2>1 DEF Undecided, NeedsSchema, GateTrip, Discover, Gate1Run, Gate2Validate, Decided, Return, Goto, IInv, TypeOK
  <2>4. \A q \in Caller : q # p => pc'[q] = pc[q] /\ res'[q] = res[q]
    BY <2>1 DEF GateTrip, Discover, Gate1Run, Gate2Validate, Decided, Return, Goto, IInv, TypeOK
  <2>5. PipelineTypeOK' BY <1>1, <2>1 DEF PipelineTypeOK, Schema
  <2>6. Undecided' BY <1>1, <2>1, <2>2, <2>3, <2>4 DEF Undecided, NeedsSchema
  <2>7. Truthful' BY <1>1, <2>2, <2>3 DEF Truthful, JudgedRight, Checked, VerdictRight
  <2>. QED BY <1>1, <2>1, <2>2, <2>5, <2>6, <2>7 DEF SchemaTrue
<1>. QED BY <1>3, <1>4, <1>5

\* A true schema gives a true verdict.
LEMMA UseKeeps ==
    ASSUME PInv, Truthful, NEW p \in Caller, NeedsSchema(p),
           NEW s \in Schema, SchemaTrue(s), s # None, Use(p, s),
           UNCHANGED <<loginVars, deviceVars, asked>>
    PROVE  /\ Truthful' /\ UNCHANGED <<world, kind, op>>
           /\ pc'[p] = "returned" \/ (pc'[p] = "run" /\ res'[p] = res[p])
           /\ \A q \in Caller : q # p =>
                 pc'[q] = pc[q] /\ verdict'[q] = verdict[q] /\ res'[q] = res[q]
<1> USE DEF PInv, deviceVars
<1>1. GateTrip(p) \/ Discover(p) BY DEF Use
<1>2. UNCHANGED <<world, kind, op>> BY <1>1 DEF GateTrip, Discover
<1>3. pc'[p] = "returned" \/ (pc'[p] = "run" /\ res'[p] = res[p])
  BY <1>1, JudgedGoesOn DEF Discover, Return, Goto, IInv, TypeOK
<1>4. \A q \in Caller : q # p =>
         pc'[q] = pc[q] /\ verdict'[q] = verdict[q] /\ res'[q] = res[q]
  BY <1>1 DEF GateTrip, Discover, Gate1Run, Gate2Validate, Decided, Return, Goto, IInv, TypeOK
<1>5. Truthful'
  <2>1. CASE pc[p] = "gateTrip" /\ GateTrip(p) /\ verdict'[p] = Judge(p, s) /\ s.known
    <3>1. s.names \subseteq has /\ (closed \/ Base \subseteq s.names) BY <2>1 DEF SchemaTrue
    <3>2. verdict'[p] = IF asked[p] \subseteq s.names THEN "accepted" ELSE "rejected"
      BY <2>1 DEF Judge
    <3>. QED BY <1>2, <1>4, <3>1, <3>2 DEF Truthful, JudgedRight, Checked, VerdictRight
  <2>2. CASE pc[p] = "gateTrip" /\ GateTrip(p) /\ verdict'[p] = Judge(p, s) /\ ~s.known
    BY <1>2, <1>4, <2>2 DEF Truthful, JudgedRight, Checked, VerdictRight, Judge, SchemaTrue
  <2>3. CASE Discover(p) BY <1>2, <2>3 DEF Discover, Truthful, JudgedRight, Checked, VerdictRight
  <2>. QED BY <2>1, <2>2, <2>3 DEF Use
<1>. QED BY <1>2, <1>3, <1>4, <1>5

\* Storing a discovered schema, or finding one.
LEMMA StoreHitKeeps ==
    ASSUME PInv, Truthful, NEW p \in Caller, Store(p) \/ Hit(p)
    PROVE  (PipelineTypeOK /\ Undecided /\ Base \subseteq has /\ SchemaTrue(entry)
               /\ \A q \in Caller : SchemaTrue(found[q]))' /\ Truthful'
<1> USE DEF PInv
<1>1. CASE Store(p)
  <2> DEFINE s == found[p]
  <2>1. s \in Schema /\ SchemaTrue(s) /\ s # None BY <1>1 DEF Store, PipelineTypeOK
  <2>2. NeedsSchema(p) /\ Use(p, s) /\ UNCHANGED <<loginVars, deviceVars, asked>>
    BY <1>1 DEF Store
  <2>3. entry' = s /\ found' = [found EXCEPT ![p] = None] BY <1>1 DEF Store
  <2> HIDE DEF s
  <2>4. /\ Truthful' /\ UNCHANGED <<world, kind, op>>
        /\ pc'[p] = "returned" \/ (pc'[p] = "run" /\ res'[p] = res[p])
        /\ \A q \in Caller : q # p =>
              pc'[q] = pc[q] /\ verdict'[q] = verdict[q] /\ res'[q] = res[q]
    BY <2>1, <2>2, UseKeeps
  <2>5. PipelineTypeOK' BY <2>1, <2>2, <2>3 DEF PipelineTypeOK, Schema, loginVars, deviceVars
  <2>6. \A q \in Caller : found'[q] = IF q = p THEN None ELSE found[q]
    BY <2>3 DEF PipelineTypeOK
  <2>7. Undecided' BY <2>2, <2>4, <2>6 DEF Undecided, NeedsSchema
  <2>8. Base \subseteq has' BY <2>2 DEF deviceVars
  <2>9. SchemaTrue(entry)' /\ (\A q \in Caller : SchemaTrue(found[q]))'
    BY <2>1, <2>2, <2>3, <2>4, <2>6 DEF SchemaTrue, deviceVars
  <2>. QED BY <2>4, <2>5, <2>7, <2>8, <2>9
<1>2. CASE Hit(p)
  <2>1. entry \in Schema /\ entry # None /\ NeedsSchema(p) /\ found[p] = None
    BY <1>2 DEF Hit, PipelineTypeOK
  <2>2. Use(p, entry) /\ UNCHANGED <<loginVars, deviceVars, asked, entry, found>>
    BY <1>2 DEF Hit, schemaVars
  <2>3. /\ Truthful' /\ UNCHANGED <<world, kind, op>>
        /\ pc'[p] = "returned" \/ (pc'[p] = "run" /\ res'[p] = res[p])
        /\ \A q \in Caller : q # p =>
              pc'[q] = pc[q] /\ verdict'[q] = verdict[q] /\ res'[q] = res[q]
    BY <2>1, <2>2, UseKeeps
  <2>4. PipelineTypeOK' BY <2>2 DEF PipelineTypeOK, Schema, loginVars, deviceVars
  <2>5. Undecided' BY <2>1, <2>2, <2>3 DEF Undecided, NeedsSchema
  <2>6. (Base \subseteq has /\ SchemaTrue(entry) /\ \A q \in Caller : SchemaTrue(found[q]))'
    BY <2>2, <2>3 DEF SchemaTrue, deviceVars
  <2>. QED BY <2>3, <2>4, <2>5, <2>6
<1>. QED BY <1>1, <1>2

\* Every step preserves the invariant.
LEMMA PNextPreserves == PInv /\ Truthful /\ [NextP]_varsP => PInv' /\ Truthful'
<1> SUFFICES ASSUME PInv, Truthful, [NextP]_varsP PROVE PInv' /\ Truthful' OBVIOUS
<1>1. IInv' BY BasePreserved DEF PInv
<1>2. CASE UNCHANGED varsP
  <2> USE <1>2 DEF varsP, vars, loginVars, deviceVars, schemaVars
  <2>1. PipelineTypeOK' BY DEF PInv, PipelineTypeOK, Schema
  <2>2. Undecided' BY DEF PInv, Undecided, NeedsSchema
  <2>3. Truthful' BY DEF Truthful, JudgedRight, Checked, VerdictRight
  <2>. QED BY <1>1, <2>1, <2>2, <2>3 DEF PInv, SchemaTrue
<1>3. CASE NextP
  BY <1>1, <1>3, OutsideStep, CallKeeps, StepKeeps, ReadKeeps, StoreHitKeeps
  DEF NextP, SchemaStep, PInv
<1>. QED BY <1>2, <1>3

\* A session keeps the invariant of the pipeline whoever shares the schema
\* (Gate2.Validate, Store.Discover): a cached schema is true of the device.
THEOREM SchemasAreTrue == SpecP => []PInv
<1>1. InitP => PInv /\ Truthful BY PInitEstablishes
<1>. QED BY <1>1, PNextPreserves, PTL DEF SpecP

\* Gate 2 accepts only what the device knows and, until the client is closed,
\* rejects only what it lacked, whatever fails during a discovery (Gate2.Validate,
\* Store.Discover).
THEOREM JudgementsAreTrue == SpecP => []JudgedRight
<1>1. InitP => PInv /\ Truthful BY PInitEstablishes
<1>2. Truthful => JudgedRight BY DEF Truthful
<1>. QED BY <1>1, <1>2, PNextPreserves, PTL DEF SpecP

\* As long as a device traps only what it does not serve, hence no context ends
\* during a discovery, Gate 2 also lets a command pass unchecked only if the device
\* lacks /console/inspect or the command: a lost or closed session is not one of
\* the reasons (TranslateError).
THEOREM GateTwoTellsTheTruth ==
    ASSUME ~MayTrap PROVE SpecP => []VerdictRight
<1>1. InitP => PInv /\ Truthful BY PInitEstablishes
<1>2. Truthful => VerdictRight BY DEF Truthful
<1>. QED BY <1>1, <1>2, PNextPreserves, PTL DEF SpecP

\* No step of a call closes the client.
LEMMA StepsLeaveOpen == ASSUME NEW p \in Caller, Step(p) PROVE closed' = closed
<1> USE DEF world
<1>1. CASE Ensure(p) \/ ProbeLock(p) \/ Wire(p) BY <1>1 DEF Ensure, ProbeLock, Wire
<1>2. CASE Gate(p) \/ GateTrip(p) BY <1>2 DEF Gate, GateTrip
<1>3. CASE \E outcome \in {"ok", "trap", "cut", "failed"} : ProbeTrip(p, outcome)
  BY <1>3 DEF ProbeTrip
<1>4. CASE Discover(p) \/ Run(p) BY <1>4 DEF Discover, Run
<1>. QED BY <1>1, <1>2, <1>3, <1>4 DEF Step

\* A client is handed out only after the last stage of the login, and a failed
\* login closes its connection (newClientAndLogin, LoginContext).
THEOREM LoginIsTold == SpecP => []LoginTells
<1>1. LoginTells /\ [NextP]_varsP => LoginTells'
  <2> SUFFICES ASSUME LoginTells, [NextP]_varsP PROVE LoginTells' OBVIOUS
  <2>1. CASE LoginFirst
    BY <2>1 DEF LoginTells, CloseFailed, LoginFirst, AfterFirst, LoginReply, vars, world
  <2>2. CASE LoginSecond
    BY <2>2 DEF LoginTells, CloseFailed, LoginSecond, vars, world
  <2>3. CASE PClose BY <2>3 DEF LoginTells, PClose, Close
  <2>4. CASE UNCHANGED <<loginVars, closed>> BY <2>4 DEF LoginTells, loginVars
  <2>5. CASE UNCHANGED varsP \/ Expire \/ Grow
    BY <2>4, <2>5 DEF varsP, Expire, Grow, vars, world
  <2>6. ASSUME NEW p \in Caller, PCall(p) \/ PStep(p) \/ SchemaStep(p)
        PROVE  UNCHANGED <<loginVars, closed>>
    <3>1. CASE PCall(p) BY <3>1 DEF PCall, Call, world
    <3>2. CASE PStep(p) BY <3>2, StepsLeaveOpen DEF PStep
    <3>3. CASE SchemaStep(p)
      BY <3>3, StepsLeaveOpen DEF SchemaStep, Read, Store, Hit, Use, Step, vars, world
    <3>. QED BY <2>6, <3>1, <3>2, <3>3
  <2>. QED BY <2>1, <2>2, <2>3, <2>4, <2>5, <2>6 DEF NextP
<1>2. InitP => LoginTells BY PInitEstablishes
<1>. QED BY <1>1, <1>2, PTL DEF SpecP

\* The pipeline with its shared schema implements the pipeline without it.
THEOREM PipelineSafe == SpecP => Init /\ [][Next]_vars
<1>1. InitP => Init BY DEF InitP
<1>. QED BY <1>1, StepsOfOrchestrator, PTL DEF SpecP
=============================================================================
