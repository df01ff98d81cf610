------------------------------ MODULE SSHConsole ------------------------------
(***************************************************************************)
(* An SSH connection from Dial to the verdicts of Gate 1: the choice of    *)
(* authentication and host keys and the errors of Dial                     *)
(* (transport/ssh/ssh.go, errors.go), the callers of SSHClient that share  *)
(* the connection, and Validate, which runs a `:parse` script as one of    *)
(* these callers (gate/console.go, gate/gate1.go).                         *)
(*                                                                         *)
(* The device may present another host key when the library re-exchanges   *)
(* keys (external); the library asks the callback and drops the connection *)
(* if it refuses.                                                          *)
(***************************************************************************)
EXTENDS SSHClient, Console

CONSTANTS Validator, \* the callers that validate a line; the others run one
          Line,      \* the lines they may have
          Key,       \* host keys
          Known      \* those listed in the known_hosts file

\* What a device made of a script: the text and the rest of its literal, its
\* judgement and the output.
Judgement == {"valid", "parameter", "syntax"}
Report == [text : Seq(Char), rest : Seq(Char), judged : Judgement, out : Seq(Form)]

ASSUME ConsoleAssumption ==
    /\ Validator \subseteq Caller
    /\ Line \subseteq Seq(Char) /\ None \notin Line /\ None \notin Report
    /\ Known \subseteq Key /\ None \notin Key

VARIABLES
    dial,     \* Dial: "none", "connected", or the code of its error
    callback, \* its host key callback, "none" before
    keys,     \* hostKeyStore: the key accepted first, or None
    peer,     \* the key the device presented last, or None
    trusted,  \* history: the keys the application meant to accept
    line,     \* the line a Validate was called with, or None
    heard     \* what the device made of its script and printed, or None

dialVars == <<dial, callback, keys, peer, trusted>>
varsSC == <<vars, dialVars, line, heard>>

\* The options of Dial: a password or a key file, if any; the policy; and a
\* known_hosts file, if any.
Config == [auth   : {"none", "password", "badkey", "nofile"},
           policy : {"tofu", "insecure"},
           file   : {"none", "listed", "unreadable"}]

InitSC ==
    /\ Init
    /\ dial = "none" /\ callback = "none"
    /\ keys = None /\ peer = None /\ trusted = {}
    /\ line = [p \in Validator |-> None] /\ heard = [p \in Validator |-> None]

-----------------------------------------------------------------------------
(* Dial.                                                                   *)

\* The patterns an error's text can match (external).
Pattern == {"hostkey", "auth", "refused", "timeout", "dns"}

\* mapSshError: the first pattern that matches, in the order of the code.
MapSshError(matched) ==
    IF "hostkey" \in matched THEN "host-key-mismatch"
    ELSE IF "auth" \in matched THEN "auth/failed"
    ELSE IF "refused" \in matched THEN "connection-refused"
    ELSE IF "timeout" \in matched THEN "timeout"
    ELSE IF "dns" \in matched THEN "dns" ELSE "network"

\* buildAuth: "ok" or the code of its error.
BuildAuth(cfg) ==
    CASE cfg.auth = "password" -> "ok"
      [] cfg.auth = "nofile"   -> MapSshError({})
      [] OTHER                 -> "auth/failed"

\* Mutant: the known_hosts file is read and not used.
HostKeyCallback_NoPin(cfg) ==
    IF cfg.policy = "insecure" THEN "insecure"
    ELSE IF cfg.file = "unreadable" THEN "network" ELSE "tofu"

\* hostKeyCallback: the callback, or the code of its error.
HostKeyCallback(cfg) ==
    IF cfg.policy = "insecure" THEN "insecure"
    ELSE CASE cfg.file = "none"       -> "tofu"
           [] cfg.file = "listed"     -> "known"
           [] cfg.file = "unreadable" -> "network"

Usable(cfg) == BuildAuth(cfg) = "ok" /\ HostKeyCallback(cfg) # "network"

\* What the callback cb says of k; hostKeyStore knows the first key.
Accepts(cb, k) ==
    CASE cb = "insecure" -> TRUE
      [] cb = "known"    -> k \in Known
      [] cb = "tofu"     -> keys \in {None, k}

\* hostKeyStore remembers the first key.
Remember(cb, k) == keys' = IF cb = "tofu" /\ keys = None THEN k ELSE keys

\* The address has no port, the context has ended, or the options cannot be
\* used.
DialRefused(cfg) ==
    /\ dial = "none"
    /\ \/ dial' \in {"ctx", MapSshError({})}
       \/ BuildAuth(cfg) # "ok" /\ dial' = BuildAuth(cfg)
       \/ BuildAuth(cfg) = "ok" /\ HostKeyCallback(cfg) = "network" /\ dial' = "network"
    /\ UNCHANGED <<vars, callback, keys, peer, trusted, line, heard>>

\* The device cannot be reached, or refuses the user.
DialFails(cfg) ==
    /\ dial = "none" /\ Usable(cfg)
    /\ \E matched \in SUBSET (Pattern \ {"hostkey"}) : dial' = MapSshError(matched)
    /\ UNCHANGED <<vars, callback, keys, peer, trusted, line, heard>>

\* The device presents its key.  knownhosts says "key mismatch" or "key is
\* unknown" when it refuses one, which is none of the patterns.
Handshake(cfg, k) ==
    /\ dial = "none" /\ Usable(cfg)
    /\ callback' = HostKeyCallback(cfg)
    /\ peer' = k
    /\ trusted' = IF cfg.policy = "insecure" THEN Key
                  ELSE IF cfg.file = "none" THEN {k} ELSE Known
    /\ Remember(callback', k)
    /\ dial' = IF Accepts(callback', k) THEN "connected" ELSE MapSshError({})
    /\ UNCHANGED <<vars, line, heard>>

\* Keys are exchanged again.
Rekey(k) ==
    /\ dial = "connected" /\ conn = "open" /\ k # peer
    /\ peer' = k
    /\ Remember(callback, k)
    /\ conn' = IF Accepts(callback, k) THEN conn ELSE "broken"
    /\ UNCHANGED <<mu, closes, ctxDone, pc, sess, output, answer, res,
                   dial, callback, trusted, line, heard>>

-----------------------------------------------------------------------------
(* Validate.                                                               *)

\* A Run whose line is a script, or any line.
Scripted(p) == p \in Validator

ValidateCall(p) ==
    /\ dial = "connected" /\ Scripted(p) /\ line[p] = None
    /\ \E l \in Line : line' = [line EXCEPT ![p] = l]
    /\ UNCHANGED <<vars, dialVars, heard>>

\* The Run of a Validate: not with unbalanced quotes.
Called(p) == Scripted(p) => line[p] # None /\ ~HasUnbalancedQuotes(line[p])

SRunCall(p) ==
    /\ dial = "connected" /\ Called(p)
    /\ RunCall(p)
    /\ UNCHANGED <<dialVars, line, heard>>

\* The rest of SSHClient.
SStep(p) ==
    /\ RunLock(p) \/ OpenFails(p) \/ RunCtx(p) \/ RunReap(p) \/ RunAnswer(p)
       \/ SessionOpens(p) \/ OutputEnds(p) \/ DevCloses(p) \/ CtxEnd(p)
    /\ dial = "connected"
    /\ UNCHANGED <<dialVars, line, heard>>

\* What the device makes of the script of p, with its judgement and output.
Made(p, judged, out) ==
    LET script == ReadLiteral(StringLiteral(line[p]))
    IN  [text |-> script.text, rest |-> script.rest, judged |-> judged, out |-> out]

\* The device executes the line of a session.  Of a script it reads the
\* literal, judges the text and prints its verdict or nothing, or fails.
SDevAnswer(p) ==
    /\ DevAnswer(p)
    /\ \/ /\ Scripted(p) /\ answer'[p] \in {"text", "empty"}
          /\ \E judged \in Judgement :
             \E out \in IF answer'[p] = "text" THEN Echo(judged) ELSE {<<>>} :
                heard' = [heard EXCEPT ![p] = Made(p, judged, out)]
       \/ (Scripted(p) => answer'[p] \in {"silent", "error"}) /\ UNCHANGED heard
    /\ UNCHANGED <<dialVars, line>>

SEnv == dial = "connected" /\ (Close \/ ConnBreak) /\ UNCHANGED <<dialVars, line, heard>>

\* Gate1.Run: what Validate returns, "none" before.
Verdict(p) ==
    CASE line[p] = None              -> "none"
      [] line[p] # None /\ HasUnbalancedQuotes(line[p]) -> "syntax"
      [] OTHER -> IF res[p] \in {"text", "empty"}
                  THEN Classify(CleanConsoleOutput(heard[p].out)) ELSE res[p]

-----------------------------------------------------------------------------
NextSC ==
    \/ \E cfg \in Config :
          DialRefused(cfg) \/ DialFails(cfg) \/ \E k \in Key : Handshake(cfg, k)
    \/ \E k \in Key : Rekey(k)
    \/ \E p \in Caller : ValidateCall(p) \/ SRunCall(p) \/ SStep(p) \/ SDevAnswer(p)
    \/ SEnv

\* As in SSHClient.
FairnessSC ==
    \A p \in Caller :
        /\ WF_varsSC(SRunCall(p))
        /\ WF_varsSC(Local(p) /\ SStep(p)) /\ SF_varsSC(RunLock(p) /\ SStep(p))
        /\ WF_varsSC(OutputEnds(p) /\ SStep(p))

SpecSC == InitSC /\ [][NextSC]_varsSC /\ FairnessSC

-----------------------------------------------------------------------------
(* Properties.                                                             *)

\* The rendering of commands does not depend on the state (ConsoleCLI).
Renders == dial = "none" => CommandReadsBack

\* The lines whose literal the device takes for them: StringLiteral escapes
\* neither a variable nor a newline.
Embeddable(l) == ~Contains(l, Dollar) /\ ~Contains(l, Newline)

\* Validate tells what the device's parser made of its own line, whoever else
\* uses the connection: a line passes only if the device was asked and accepts
\* it, or says nothing that Gate 1 recognises; it is rejected only if the device
\* rejects it, or for its quotes, and an attribute is named only if the device
\* did.  What the device judged is exactly the line and nothing else, unless
\* the line has a variable or a newline (Gate1.Run, consoleCommandTransport).
VerdictTrue ==
    \A p \in Validator :
        LET h == heard[p] IN
        /\ Verdict(p) = "ok" => h # None /\ (h.judged = "valid" \/ ~Recognised(h.out))
        /\ Verdict(p) = "attribute" => h # None /\ h.judged = "parameter"
        /\ Verdict(p) = "syntax" =>
              IF h = None THEN HasUnbalancedQuotes(line[p]) ELSE h.judged # "valid"
        /\ h # None /\ Embeddable(line[p]) => h.text = line[p] /\ h.rest = <<>>

\* The same of every line.
LiteralIsLine ==
    \A p \in Validator : heard[p] # None => heard[p].text = line[p]

\* While a connection is used, its peer is one the options allow: listed in the
\* known_hosts file, or else the one that was seen first, also after keys were
\* exchanged again; only the insecure policy allows any (hostKeyCallback).
PeerTrusted ==
    dial = "connected" /\ conn = "open" => peer \in trusted

\* What Dial documents: a refused host key is reported as such.
RefusedKeyIsNamed ==
    dial \notin {"none", "connected"} /\ peer # None => dial = "host-key-mismatch"
=============================================================================
