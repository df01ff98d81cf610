------------------------------- MODULE Pipeline -------------------------------
(***************************************************************************)
(* A session from its login to the execution of commands: LoginContext     *)
(* with its two stages (client.go), the pipeline of Orchestrator, and what *)
(* its Gate 2 decides from the schema that the callers share: a lookup, a  *)
(* discovery if there is none, and the comparison with the attributes of   *)
(* the command (gate/gate2.go, schema/discover.go, client_transport.go).   *)
(*                                                                         *)
(* All structured commands are of one path and verb, so they meet in one   *)
(* cache entry.  A discovery reads the names in one step here; SchemaStore *)
(* has its round trips.                                                    *)
(***************************************************************************)
EXTENDS Orchestrator

CONSTANTS Attr, \* attributes of the command
          Base  \* those the device knows from the start; it may gain the others

ASSUME PipelineAssumption == Base \subseteq Attr

VARIABLES
    login,   \* LoginContext: "none", "challenged", "in" or "failed"
    authed,  \* the device has let the user in
    rwc,     \* the connection: "open", or "closed" by Client.Close
    menu,    \* the device has the command
    has,     \* the attributes it knows now
    asked,   \* the attributes of a caller's command
    entry,   \* the cached schema, or None
    found    \* the schema a caller has discovered and not stored yet, or None

deviceVars == <<menu, has>>
loginVars == <<login, authed, rwc>>
schemaVars == <<asked, entry, found>>
varsP == <<vars, loginVars, deviceVars, schemaVars>>

\* known: the category is not unknown.
Schema == [known : BOOLEAN, names : SUBSET Attr]

PipelineTypeOK ==
    /\ login \in {"none", "challenged", "in", "failed"} /\ authed \in BOOLEAN
    /\ rwc \in {"open", "closed"} /\ menu \in BOOLEAN /\ has \in SUBSET Attr
    /\ asked \in [Caller -> SUBSET Attr] /\ entry \in Schema \cup {None}
    /\ found \in [Caller -> Schema \cup {None}]

InitP ==
    /\ Init
    /\ login = "none" /\ authed = FALSE /\ rwc = "open"
    /\ menu \in BOOLEAN /\ has = Base
    /\ asked = [p \in Caller |-> {}]
    /\ entry = None /\ found = [p \in Caller |-> None]

-----------------------------------------------------------------------------
(* newClientAndLogin.                                                      *)

\* What LoginContext gets: !done, !done with a challenge that can or cannot be
\* decoded, or an error.
LoginReply == {"done", "challenge", "garbled", "error"}

\* Mutant: any !done of the first stage is taken for success.
AfterFirst_AnyDone(reply) == IF reply \in {"done", "challenge"} THEN "in" ELSE "failed"

\* A !done without ret ends the login of a device since 6.43.
AfterFirst(reply) ==
    CASE reply = "done"      -> "in"
      [] reply = "challenge" -> "challenged"
      [] OTHER               -> "failed"

\* newClientAndLogin closes what it opened.
CloseFailed == rwc' = IF login' = "failed" THEN "closed" ELSE rwc

\* /login with name and password.
LoginFirst ==
    /\ login = "none"
    /\ \E reply \in LoginReply :
          login' = AfterFirst(reply) /\ authed' = (reply = "done")
    /\ CloseFailed
    /\ UNCHANGED <<vars, deviceVars, schemaVars>>

\* /login with the response to the challenge; only an error is looked at.
LoginSecond ==
    /\ login = "challenged"
    /\ \E reply \in {"done", "error"} :
          /\ login' = IF reply = "error" THEN "failed" ELSE "in"
          /\ authed' = (reply = "done")
    /\ CloseFailed
    /\ UNCHANGED <<vars, deviceVars, schemaVars>>

-----------------------------------------------------------------------------
(* The schema behind Gate 2 and Inspect.                                   *)

\* A caller that needs the schema of the command.
NeedsSchema(p) ==
    \/ pc[p] = "discover"
    \/ pc[p] = "gateTrip" /\ kind[p] = "structured"

\* Mutant: a lost session is reported like a command the device lacks.
TranslateError_Failed(outcome) == IF outcome = "network" THEN "network" ELSE "command-failed"

\* TranslateError: !trap, !fatal, or an error that is no DeviceError.
TranslateError(outcome) ==
    CASE outcome = "trap"  -> "command-failed"
      [] outcome = "fatal" -> "session-closed"
      [] OTHER             -> outcome

\* isSwallowableInspectErr: such an error is stored as an unknown schema.
Swallowed(code) == code = "command-failed"

\* What Discover makes of the outcome: a schema, or None for an error.  A menu
\* without the verb gives a schema of unknown category.
Discovered(outcome) ==
    IF outcome = "rows" THEN [known |-> menu, names |-> IF menu THEN has ELSE {}]
    ELSE IF Swallowed(TranslateError(outcome)) THEN [known |-> FALSE, names |-> {}]
    ELSE None

\* The round trips of a discovery: the device shows what it has, or fails.  A
\* Close ends the last of them with the names that have come and no error; after
\* the others it makes the next one fail.
Read(p) ==
    /\ NeedsSchema(p) /\ entry = None /\ found[p] = None
    /\ \E outcome \in {"rows", "trap", "fatal", "network"} :
          /\ outcome = "rows" => serves["inspect"]
          /\ outcome = "trap" => ~menu \/ ~serves["inspect"] \/ MayTrap
          /\ \/ /\ closed /\ outcome = "rows" /\ menu
                /\ \E names \in SUBSET has :
                      found' = [found EXCEPT ![p] = [known |-> TRUE, names |-> names]]
                /\ UNCHANGED vars
             \/ /\ Discovered(outcome) # None
                /\ found' = [found EXCEPT ![p] = Discovered(outcome)]
                /\ UNCHANGED vars
             \/ /\ Discovered(outcome) = None
                /\ GateTrip(p) \/ Discover(p)
                /\ res'[p] = "error"
                /\ UNCHANGED found
    /\ UNCHANGED <<loginVars, deviceVars, asked, entry>>

\* Gate2.Validate: what it says of the command of p.
Judge(p, s) ==
    IF ~s.known THEN "skipped"
    ELSE IF asked[p] \subseteq s.names THEN "accepted" ELSE "rejected"

\* Gate 2 decides, or Inspect returns, from the schema s.
Use(p, s) ==
    \/ pc[p] = "gateTrip" /\ GateTrip(p) /\ verdict'[p] = Judge(p, s)
    \/ Discover(p) /\ res'[p] = "ok"

\* The discovered schema is stored and used.
Store(p) ==
    /\ NeedsSchema(p) /\ found[p] # None
    /\ entry' = found[p]
    /\ found' = [found EXCEPT ![p] = None]
    /\ Use(p, found[p])
    /\ UNCHANGED <<loginVars, deviceVars, asked>>

\* A live entry is used as it is.
Hit(p) ==
    /\ NeedsSchema(p) /\ found[p] = None /\ entry # None
    /\ Use(p, entry)
    /\ UNCHANGED <<loginVars, deviceVars, schemaVars>>

-----------------------------------------------------------------------------
PCall(p) ==
    /\ login = "in"
    /\ Call(p)
    /\ \E as \in SUBSET Attr :
          /\ as # {} => kind[p] = "structured" /\ op[p] \in {"Validate", "RunStructured"}
          /\ asked' = [asked EXCEPT ![p] = as]
    /\ UNCHANGED <<loginVars, deviceVars, entry, found>>

\* The application closes the client it was handed.
PClose ==
    /\ login = "in"
    /\ Close
    /\ rwc' = "closed"
    /\ UNCHANGED <<login, authed, deviceVars, schemaVars>>

\* The steps of Orchestrator that need no schema.
PStep(p) ==
    /\ Step(p) /\ ~NeedsSchema(p)
    /\ UNCHANGED <<loginVars, deviceVars, schemaVars>>

\* The TTL of the entry ends.
Expire ==
    /\ entry # None
    /\ entry' = None
    /\ UNCHANGED <<vars, loginVars, deviceVars, asked, found>>

\* The device gains attributes, as by an upgrade of a package (external).
Grow ==
    /\ has' = Attr /\ has # Attr
    /\ UNCHANGED <<vars, loginVars, menu, schemaVars>>

SchemaStep(p) == Read(p) \/ Store(p) \/ Hit(p)

NextP ==
    \/ LoginFirst \/ LoginSecond
    \/ \E p \in Caller : PCall(p) \/ PStep(p) \/ SchemaStep(p)
    \/ PClose \/ Expire \/ Grow

SpecP == InitP /\ [][NextP]_varsP /\ \A p \in Caller : WF_varsP(PStep(p) \/ SchemaStep(p))

-----------------------------------------------------------------------------
(* Properties.                                                             *)

Checked(p) == kind[p] = "structured" /\ op[p] \in {"Validate", "RunStructured"}

\* What Gate 2 decides: an accepted command has attributes that the device knows,
\* a rejected one has an attribute that it lacked when the session began (one
\* gained since may be rejected until the TTL ends), or is rejected by a client
\* that was closed during the discovery.
JudgedRight ==
    \A p \in Caller : Checked(p) =>
        /\ verdict[p] = "accepted" => asked[p] \subseteq has
        /\ verdict[p] = "rejected" => closed \/ ~(asked[p] \subseteq Base)

\* What Gate 2 says of a command is true of the device, whatever other callers
\* discover and store beside it: what it decides is, and a command passes
\* unchecked only if the device lacks /console/inspect or the command, never
\* because a discovery failed (Gate2.Validate, Store.Discover, TranslateError).
VerdictRight ==
    /\ JudgedRight
    /\ \A p \in Caller : Checked(p) =>
           (verdict[p] = "skipped" => ~serves["inspect"] \/ ~menu)

\* A client is handed out if and only if the device let the user in at the last
\* stage of the login, and its connection is closed if the login failed or the
\* application closed the client (newClientAndLogin, LoginContext).
LoginTells ==
    /\ login = "in" => authed
    /\ login = "failed" => ~authed
    /\ rwc = "closed" <=> login = "failed" \/ closed

-----------------------------------------------------------------------------
(* The inductive invariant.                                                *)

\* A schema that a caller holds or that is cached: it has what the device had at
\* some time of the session, or a part of it if the client was closed, or the
\* device has no such command.
SchemaTrue(s) ==
    s # None =>
        IF s.known THEN s.names \subseteq has /\ (closed \/ Base \subseteq s.names)
        ELSE ~menu \/ ~serves["inspect"] \/ MayTrap

\* Nobody has a verdict before a gate gave it, a schema before discovering, or a
\* result before returning.
Undecided ==
    \A p \in Caller :
        /\ pc[p] \notin {"run", "returned"} => verdict[p] = "none"
        /\ pc[p] # "returned" => res[p] = "none"
        /\ found[p] # None => NeedsSchema(p)

PInv ==
    /\ IInv /\ PipelineTypeOK /\ Undecided
    /\ Base \subseteq has /\ SchemaTrue(entry)
    /\ \A p \in Caller : SchemaTrue(found[p])
=============================================================================
