---------------------------- MODULE Orchestrator ----------------------------
(***************************************************************************)
(* The validation pipeline of a Client (client_transport.go,               *)
(* orchestrate.go): Validate, RunStructured and Inspect called by several  *)
(* goroutines, the lazy ensureRun under initMu, the two capability probes  *)
(* under probeMu (also callable on their own), the routing to Gate 1 or    *)
(* Gate 2 (gate/gate1.go, gate2.go), and the execution of what passed.     *)
(*                                                                         *)
(* A round trip is one step whose outcome the device and the network       *)
(* choose; Close may cut it short.  Each goroutine makes one call.         *)
(***************************************************************************)
CONSTANTS Caller,         \* goroutines
          MayTrap,        \* what the device serves may end in a trap or !fatal all
                          \* the same: the context ended, or the device failed
          None

ASSUME OrchestratorAssumption ==
    /\ MayTrap \in BOOLEAN
    /\ None \notin Caller

Probe == {"inspect", "parse"}

\* The public methods; a command is structured or a script.
Op == {"Validate", "RunStructured", "Inspect", "ProbeInspect", "ProbeParse"}
Kind == {"structured", "script"}

VARIABLES
    serves,    \* what the device serves: /console/inspect, as-string scripts
    closed,    \* Client.Close was called
    initMu,    \* the caller that holds runState.initMu, or None
    probeMu,   \* the caller that holds runState.probeMu, or None
    probed,    \* inspectProbed and parseProbed
    supports,  \* supportsInspect and supportsParse
    ready,     \* runState.ready
    pc,        \* where a caller is
    op,        \* the method it called
    kind,      \* the command it called it with
    probing,   \* the probe it is in
    verdict,   \* what the gate said of its command
    res        \* "none", "ok", "rejected", or "error"

runState == <<initMu, probeMu, probed, supports, ready>>
world == <<serves, closed>>
vars == <<world, runState, pc, op, kind, probing, verdict, res>>

PC == {"idle", "ensure", "probe", "trip", "wire", "gate", "gateTrip",
       "discover", "run", "returned"}

TypeOK ==
    /\ serves \in [Probe -> BOOLEAN] /\ closed \in BOOLEAN
    /\ initMu \in Caller \cup {None} /\ probeMu \in Caller \cup {None}
    /\ probed \in [Probe -> BOOLEAN] /\ supports \in [Probe -> BOOLEAN]
    /\ ready \in BOOLEAN
    /\ pc \in [Caller -> PC]
    /\ op \in [Caller -> Op] /\ kind \in [Caller -> Kind]
    /\ probing \in [Caller -> Probe]
    /\ verdict \in [Caller -> {"none", "accepted", "rejected", "skipped"}]
    /\ res \in [Caller -> {"none", "ok", "rejected", "error"}]

Init ==
    /\ serves \in [Probe -> BOOLEAN] /\ closed = FALSE
    /\ initMu = None /\ probeMu = None
    /\ probed = [x \in Probe |-> FALSE] /\ supports = [x \in Probe |-> FALSE]
    /\ ready = FALSE
    /\ pc = [p \in Caller |-> "idle"]
    /\ op \in [Caller -> Op] /\ kind \in [Caller -> Kind]
    /\ probing = [p \in Caller |-> "inspect"]
    /\ verdict = [p \in Caller |-> "none"] /\ res = [p \in Caller |-> "none"]

Goto(p, where) == pc' = [pc EXCEPT ![p] = where]

Return(p, r) == Goto(p, "returned") /\ res' = [res EXCEPT ![p] = r]

\* Called by ensureRun, and not as a public method.
InEnsure(p) == op[p] \notin {"ProbeInspect", "ProbeParse"}

-----------------------------------------------------------------------------
(* ensureRun and the probes.                                               *)

Call(p) ==
    /\ pc[p] = "idle"
    /\ \/ InEnsure(p) /\ Goto(p, "ensure")
       \/ ~InEnsure(p) /\ Goto(p, "probe")
    /\ probing' = [probing EXCEPT ![p] =
                      IF op[p] = "ProbeParse" THEN "parse" ELSE "inspect"]
    /\ UNCHANGED <<world, runState, op, kind, verdict, res>>

\* Mutant: ready is read without initMu, and the pipeline taken for built.
Ensure_NoLock(p) ==
    /\ pc[p] = "ensure"
    /\ Goto(p, IF initMu # None THEN "gate" ELSE "probe")
    /\ initMu' = IF initMu # None THEN initMu ELSE p
    /\ UNCHANGED <<world, probeMu, probed, supports, ready, op, kind, probing, verdict, res>>

\* ensureRun: initMu is held until the pipeline is built or a probe failed.
Ensure(p) ==
    /\ pc[p] = "ensure"
    /\ initMu = None
    /\ \/ /\ ready
          /\ Goto(p, IF op[p] = "Inspect" THEN "discover" ELSE "gate")
          /\ UNCHANGED initMu
       \/ /\ ~ready
          /\ initMu' = p
          /\ Goto(p, "probe")
    /\ UNCHANGED <<world, probeMu, probed, supports, ready, op, kind, probing, verdict, res>>

\* Mutant: the error path of ensureRun keeps the lock.
Release_Never(p) == UNCHANGED initMu

\* The deferred Unlock of initMu.
Release(p) == initMu' = IF initMu = p THEN None ELSE initMu

\* What a caller does after a probe that did not fail: the other probe, the
\* rest of ensureRun, or return from the public method.
AfterProbe(p) ==
    \/ /\ InEnsure(p) /\ probing[p] = "inspect"
       /\ probing' = [probing EXCEPT ![p] = "parse"]
       /\ Goto(p, "probe")
       /\ UNCHANGED res
    \/ /\ InEnsure(p) /\ probing[p] = "parse"
       /\ Goto(p, "wire")
       /\ UNCHANGED <<probing, res>>
    \/ /\ ~InEnsure(p)
       /\ Return(p, "ok")
       /\ UNCHANGED probing

\* Mutant: probeMu is not taken.
ProbeLock_NoLock(p) ==
    /\ pc[p] = "probe"
    /\ \/ probed[probing[p]] /\ AfterProbe(p)
       \/ ~probed[probing[p]] /\ Goto(p, "trip") /\ UNCHANGED <<probing, res>>
    /\ UNCHANGED <<world, runState, op, kind, verdict>>

\* ProbeInspect, ProbeParse: probeMu is held across the round trip.
ProbeLock(p) ==
    /\ pc[p] = "probe"
    /\ probeMu = None
    /\ \/ /\ probed[probing[p]]
          /\ AfterProbe(p)
          /\ UNCHANGED probeMu
       \/ /\ ~probed[probing[p]]
          /\ probeMu' = p
          /\ Goto(p, "trip")
          /\ UNCHANGED <<probing, res>>
    /\ UNCHANGED <<world, initMu, probed, supports, ready, op, kind, verdict>>

\* Mutant: an error that is no trap decides the probe, too.
Decides_Any(outcome) == TRUE

\* Only an answer of the device decides what it supports: an error that is not
\* a DeviceError says nothing.
Decides(outcome) == outcome # "failed"

\* The round trip of a probe.  Any !trap or !fatal is a DeviceError; an answer of
\* the parse probe without a ret decides as one does.  A Close ends it with the
\* rows that have come and no error: none is as good as any for ProbeInspect, and
\* an error for Command.
ProbeTrip(p, outcome) ==
    LET x == probing[p]
    IN  /\ pc[p] = "trip"
        /\ outcome = "ok" => serves[x]
        /\ outcome = "trap" => ~serves[x] \/ MayTrap
        /\ outcome = "cut" => closed /\ x = "inspect"
        /\ probeMu' = None
        /\ probed' = [probed EXCEPT ![x] = Decides(outcome)]
        /\ supports' = [supports EXCEPT ![x] = outcome \in {"ok", "cut"}]
        /\ \/ Decides(outcome) /\ AfterProbe(p) /\ UNCHANGED initMu
           \/ /\ ~Decides(outcome)
              /\ Return(p, "error")
              /\ Release(p)
              /\ UNCHANGED probing
        /\ UNCHANGED <<world, ready, op, kind, verdict>>

\* The store and the gates are built.
Wire(p) ==
    /\ pc[p] = "wire"
    /\ ready' = TRUE
    /\ Release(p)
    /\ Goto(p, IF op[p] = "Inspect" THEN "discover" ELSE "gate")
    /\ UNCHANGED <<world, probeMu, probed, supports, op, kind, probing, verdict, res>>

-----------------------------------------------------------------------------
(* validate, and what follows.                                             *)

\* A script is checked by Gate 1 (:parse), a structured command by Gate 2.
GateProbe(p) == IF kind[p] = "script" THEN "parse" ELSE "inspect"

\* The end of Validate, and of RunStructured when it does not run.
Decided(p, v) ==
    /\ verdict' = [verdict EXCEPT ![p] = v]
    /\ \/ v = "rejected" /\ Return(p, "rejected")
       \/ v # "rejected" /\ op[p] = "Validate" /\ Return(p, "ok")
       \/ v # "rejected" /\ op[p] = "RunStructured" /\ Goto(p, "run") /\ UNCHANGED res

\* SupportsParse()/SupportsInspect() wait for a probe in progress.
Gate(p) ==
    /\ pc[p] = "gate"
    /\ probeMu = None
    /\ \/ ~supports[GateProbe(p)] /\ Decided(p, "skipped")
       \/ supports[GateProbe(p)] /\ Goto(p, "gateTrip") /\ UNCHANGED <<verdict, res>>
    /\ UNCHANGED <<world, runState, op, kind, probing>>

\* Gate 1: the answer of the device's parser, or unbalanced quotes, found
\* locally.
Gate1Run(p) ==
    /\ kind[p] = "script"
    /\ \/ \E v \in {"accepted", "rejected"} : Decided(p, v)
       \/ Return(p, "error") /\ UNCHANGED verdict

\* Gate 2: the discovered schema; a command of unknown category is skipped.
Gate2Validate(p) ==
    /\ kind[p] = "structured"
    /\ \/ \E v \in {"accepted", "rejected", "skipped"} : Decided(p, v)
       \/ Return(p, "error") /\ UNCHANGED verdict

GateTrip(p) ==
    /\ pc[p] = "gateTrip"
    /\ Gate1Run(p) \/ Gate2Validate(p)
    /\ UNCHANGED <<world, runState, op, kind, probing>>

\* Inspect: Store.Discover, whose result is a schema or an error.
Discover(p) ==
    /\ pc[p] = "discover"
    /\ \E r \in {"ok", "error"} : Return(p, r)
    /\ UNCHANGED <<world, runState, op, kind, probing, verdict>>

\* Command: the command itself is executed.
Run(p) ==
    /\ pc[p] = "run"
    /\ \E r \in {"ok", "error"} : Return(p, r)
    /\ UNCHANGED <<world, runState, op, kind, probing, verdict>>

Step(p) ==
    \/ Ensure(p) \/ ProbeLock(p) \/ Wire(p) \/ Gate(p) \/ GateTrip(p)
    \/ \E outcome \in {"ok", "trap", "cut", "failed"} : ProbeTrip(p, outcome)
    \/ Discover(p) \/ Run(p)

\* Client.Close, by the application.
Close ==
    /\ ~closed
    /\ closed' = TRUE
    /\ UNCHANGED <<serves, runState, pc, op, kind, probing, verdict, res>>

Next == (\E p \in Caller : Call(p) \/ Step(p)) \/ Close

\* Goroutines that can run do, and round trips end.
Spec == Init /\ [][Next]_vars /\ \A p \in Caller : WF_vars(Step(p))

-----------------------------------------------------------------------------
(* Properties.                                                             *)

\* Two concurrent first calls cannot double-probe: at most one probe is on the
\* wire, and its capability is not yet known (probeMu held across the probe).
ProbeOnce ==
    \A p, q \in Caller : pc[p] = "trip" /\ pc[q] = "trip" =>
        p = q /\ ~probed[probing[p]]

\* A capability is decided by an answer of the device only: what it serves
\* never counts as absent because the network failed or the client was closed,
\* and what it does not serve is never assumed, but for an inspect probe that was
\* cut short, whichever callers probe (ProbeInspect, ProbeParse, closeTags).
CapabilityTrue ==
    \A x \in Probe :
        /\ probed[x] /\ serves[x] /\ ~MayTrap => supports[x]
        /\ supports[x] => probed[x] /\ (serves[x] \/ (closed /\ x = "inspect"))

\* RunStructured executes a command only when its gate accepted it or cannot
\* judge it, and a gate is skipped on a device that has it only for a
\* structured command whose category is unknown: no caller ever slips past the
\* gates while another one is still probing (ensureRun, validate).
GatedRun ==
    \A p \in Caller : pc[p] = "run" \/ (op[p] = "RunStructured" /\ res[p] = "ok") =>
        \/ verdict[p] = "accepted"
        \/ verdict[p] = "skipped" /\
             (kind[p] = "structured" \/ ~serves["parse"] \/ MayTrap)

\* Every call returns: initMu and probeMu never lock callers out for ever.
AllReturn == \A p \in Caller : pc[p] = "ensure" \/ pc[p] = "probe" ~> pc[p] = "returned"

-----------------------------------------------------------------------------
(* The inductive invariant.                                                *)

\* Who holds the locks.
LockInv ==
    /\ \A p \in Caller : probeMu = p <=> pc[p] = "trip"
    /\ \A p \in Caller :
          initMu = p <=> InEnsure(p) /\ pc[p] \in {"probe", "trip", "wire"}
    /\ \A p \in Caller : pc[p] = "trip" => ~probed[probing[p]]

\* How far ensureRun is, and that nobody is past it before it is done.
PipelineInv ==
    /\ ready => \A x \in Probe : probed[x]
    /\ \A p \in Caller :
          /\ InEnsure(p) /\ pc[p] \in {"probe", "trip", "wire"} =>
                ~ready /\ (probing[p] = "parse" => probed["inspect"])
          /\ pc[p] = "wire" => InEnsure(p) /\ \A x \in Probe : probed[x]
          /\ pc[p] \in {"gate", "gateTrip", "run"} =>
                ready /\ op[p] \in {"Validate", "RunStructured"}
          /\ pc[p] = "ensure" => InEnsure(p) /\ probing[p] = "inspect"
          /\ pc[p] = "discover" => op[p] = "Inspect"
          /\ pc[p] = "run" => op[p] = "RunStructured"

\* Mutual exclusion, the order of the stages, and what the gates concluded.
IInv == TypeOK /\ LockInv /\ PipelineInv /\ CapabilityTrue /\ GatedRun

\* What client_transport.go says of a probe: a failure that is no missing
\* capability (a timeout) says nothing about the capability.
TimeoutSaysNothing == \A x \in Probe : probed[x] /\ serves[x] => supports[x]
=============================================================================
