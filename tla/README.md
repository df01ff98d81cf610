# TLA+ specifications of goros

goros is a Go client for RouterOS devices. It speaks the native API protocol
over TCP/TLS (package `routeros` and `proto`), executes console lines over SSH
(`transport/ssh`), and validates commands before it executes them
(`orchestrate.go`, `gate`, `schema`). This directory holds TLA+ modules of the
parts whose correctness depends on the order in which goroutines, the device
and the network act, the TLC configurations that check them on small instances,
and proofs for TLAPS.

Run `tlc -config MCx_y.cfg MCx` to check a configuration, `tlapm XProofs.tla`
to check a proof. `PROJECT.json` lists the runs, relates every definition to
the source lines it models, and lists the hazards that the properties are about.

## The system

| Component | State | Operations | Interacts with |
|---|---|---|---|
| **Asynchronous client core** (`async.go`, `run.go`, `listen.go`, `cancel.go`, `reply.go`, `chan_reply.go`, `client.go`) | `c.async`, `c.closing`, `c.tags`, `c.nextTag`, `c.mu`; per call a reply channel, its error, `Done`, a listener's `stop` | `Run*`, `Listen*`, `Cancel`, `Async*`, `cancelTag`, `asyncLoop`, `closeTags`, `Close` | writes through the sentence writer, reads through the sentence reader |
| **Sentence codec** (`proto/writer.go`, `reader.go`, `sentence.go`) | bufio buffer, writer mutex, sticky error; the sentence being assembled | `BeginSentence`, `WriteWord`, `EndSentence`, `ReadSentence` | the connection |
| **Cancellable reader and writer** (`proto/io_context.go`) | `close` flag and `done` channel of each; one goroutine per `Read` and per `Write`, the latter on a shared `bufio.Writer` | `Read`, `Write`, `Flush`, `Cancel`, `Close` | `asyncLoop`'s context watcher, the sentence writer, `Client.Close` |
| **Validation pipeline** (`client_transport.go`, `orchestrate.go`) | capability flags, `ready`, `initMu`, `probeMu` | `Validate`, `RunStructured`, `Inspect`, `ProbeInspect`, `ProbeParse` | runs commands on the client; the gates; the schema store |
| **Gates** (`gate/`) | none | Gate 1 (`:parse` of a script that embeds the line, classification of its output), Gate 2 (schema) | pipeline, schema store, SSH |
| **Schema store** (`schema/`) | TTL cache, overrides | `Discover`, `RegisterCategory`, `Cache.Get/Put/Delete/Clear` | four inspect round trips |
| **SSH transport** (`transport/ssh`) | one connection, one mutex, the host key seen first | `Dial`, `Run`, `Close`, `Validate` over `Run` | golang.org/x/crypto/ssh |
| **Command rendering** (`transport/contract.go`) | none | `ConsoleCLI`, `CLI`, `Words`, quoting | both transports, Gate 1 |
| **Login and dial** (`client.go`) | none | two-stage login over `Run` | the core |
| Native adapter, errors, logging, mock, examples | none of their own | | |

### What is hard here

* **Goroutines share one connection.** Runs, listeners and cancels write
  sentences under the writer's mutex; `asyncLoop` reads every reply and finds its
  owner by tag under `c.mu`, then uses what it found after the unlock.
* **Channels are closed from several places**: a reply, a cancel, `Close`, the
  end of the loop. A second close, or a send after a close, stops the process.
* **Everything may end at once**: a context expires beside the answer, the
  connection breaks inside a registration, `Close` meets a `/cancel`.
* **Blocking is contagious**: the loop blocks in the channel of a listener that
  nobody reads; `EndSentence` writes to the network while `c.mu` is held.
* **Errors are sticky or are thrown away**: the writer keeps its first error,
  `cancelTag` drops its own, the probes and the schema store decide from the kind
  of an error what the device can do, and remember it.
* **State is read, a round trip happens, the state is used**: overrides, cached
  schemas, `IsAsync`.
* **Text is embedded in text**: a value in a line, the line in a literal of a
  script, its error in the form of a success.

### What makes each component correct

* core: sentences do not mix; no reply is lost, crossed, torn or written to after
  it was handed out; no waiter is left behind; nothing panics; no lost connection
  passes for a clean end; calls return;
* codec: what was accepted arrives, as it was written, once, in order;
* reader and writer: `Close` ends them, the context ends the reader, no byte goes
  astray, one goroutine at a time uses the buffer;
* pipeline: one probe at a time; a capability is what the device said; nothing
  is executed past its gate; the locks are released; a verdict is true of the
  device; a client is handed out only after the last stage of its login;
* schema store: a failed discovery leaves nothing partial behind; an override wins;
  growth is seen;
* SSH: one session at a time, answers to their callers, contexts honoured, the
  peer is one the options allow; a line reaches the parser as it was meant.

## The modules

### `AsyncClient` - the core against any device

One call per goroutine: each member of `Runners` makes a `RunArgsContext` call,
each of `Listeners` a `ListenArgsQueueContext` call. An *entry* is an object
that can be in `c.tags`: the reply of a call, or the throw-away reply that
`cancelTag` registers. A stage of `pc` (the caller), `cpc` (its `cancelTag`, run
by the caller of Run or by the listener's watcher goroutine) and `lpc`
(`asyncLoop`) is a place in the code between two steps that other goroutines can
tell apart; a step is atomic in the code because it is inside one critical
section of `c.mu`, or touches only what its goroutine owns, or is one channel
operation.

* `RunFlush` and `ListenFlush` hold `c.mu` across the network write (variable
  `mu`), so that whatever needs `c.mu` waits; the other critical sections are one
  step each and only need `mu = None`.
* `wlock` is the writer's mutex, held from `BeginSentence` to `EndSentence`.
  `RunRegister` returns without `EndSentence` when the loop has ended, as
  `run.go:54` does.
* The device is unrestricted: `LoopRead` and `SyncRead` may get any sentence or a
  read error at any time, also a tag that no request has. This includes what two
  goroutines that read the same connection at once can make of the bytes, so the
  module over-approximates a synchronous run that overlaps `Async`.
* A sentence is its tag and its word; `"fatal"` stands for `!fatal` and for every
  unknown word, which take the same path; rows are counted.

### `Session` - the core with a device that follows the protocol

Extends `AsyncClient` with two FIFO streams and a device (external: modelled
from what the client relies on): a request starts a command; a running command
sends `!re` rows and ends with `!done`, or `!trap` and `!done`; `/cancel`
interrupts its target, which answers with a category 2 trap and `!done`. Every
step of the client is an action of `AsyncClient` joined with its effect on the
streams, so Session implements AsyncClient by construction and everything proved
of `AsyncClient!Spec` holds of it. A read error drops what was not read. `CancelTarget` makes a runner the caller of
`ListenReply.Cancel`. Three constants choose the environment: `MayFail` (the
network breaks the connection), `MayStall` (an application stops receiving),
`Overlap` (an application overlaps calls while the client is synchronous).

### `Wire` - the codec

`EncodeLength` gives the bytes of `encodeLength` (the bits of prefix and length
are disjoint, so `|` is written `+`); `ReadFirst`/`ReadMore` undo it byte by
byte. The writer has its buffer and its sticky error; a write may stop after any
number of elements and the stream may go on afterwards. A word is its kind (what
`ReadSentence` makes of it) and its length; its payload is one element of the
stream. Words are not empty, and the reader stops at its first error, as
`asyncLoop` does. `MadeOf` says of a sentence that was returned what words it was
made of, without parsing; `Encodable` is the bound of the code's 32-bit length.

### `Runs` - what a Run promises

An abstract specification without tags, locks and loops: a reply grows while it
is open, is closed once, without an error only when it is complete or the
application has closed the client, does not change afterwards, and its caller is
told once what it says. `AnswersRuns` of `AsyncClient` is the refinement (a reply
counts as closed when its channel is, or when its caller has been told).

### `CtxReader`, `CtxWriter` - the cancellable reader and writer

`CtxReader` has one `asyncLoop` that reads, the goroutine of every `Read`
(`helper`, and those left behind as `strays`), the context watcher with the check
and the non-blocking send of `Cancel` as two steps, and `Client.Close` with the
check of the flag, its store, the close of `done` and `rwc.Close()` in turn.
`rwc.Close()` may hang.

`CtxWriter` extends it with the command that holds the sentence writer's mutex:
each `Write` starts a goroutine on the `bufio.Writer` (`whelper`) and waits for it
or for `done`, an interrupted one leaves its goroutine behind (`wstrays`), and
`Flush` uses the buffer directly. A write waits as long as the network likes.
`wmu` says that the command holds `c.mu` for its `EndSentence`, which `Client.Close`
then waits for; `Close` closes the reader, the writer and the connection in this
order. A command that finds the loop ended stops at `"kept"`, with the writer's
mutex. `ctxWriter.Cancel` is never called and is left out.

### `Orchestrator` - the validation pipeline

Each caller makes one of the public calls. `initMu` is held from `Ensure` to
`Wire` or to the failure of a probe; `probeMu` across the probe's round trip. A
round trip is one step whose outcome the device (`serves`) and the network
choose; `MayTrap` adds the traps that say nothing of a capability (a context
that ends is answered through `cancelTag` by the trap of the interruption, and a
device may fail). `Close` is `Client.Close` by the application: it ends a round trip
with the rows that have come and no error (`async.go:95`). `ProbeInspect` takes none
for an answer (outcome "cut"); `ProbeParse` finds no terminal reply in it and fails.
`Gate1Run` and `Gate2Validate` are when the gates accept, reject, skip or fail.

### `SchemaStore` - discovery, cache, overrides

Each round trip of `Discover` is a step. A command is a cache key. The device
serves `Served`, and gains the names `Late` when it `Grow`s. `RegisterCategory`
sets the override and evicts in two steps, at any time, beside any discovery; the
history variable `raced` has the commands whose last registration came between a
discovery's look at the overrides and its store. `MayTrap` lets a probe of a command
that the device has end in a trap, as a context that ends does; an error that is no
trap may end any probe. Time passes between discoveries only, because round trips are
short next to the TTL. The client below is not closed; `Pipeline` has that.

### `Pipeline` - login, pipeline and schema together

Extends `Orchestrator` with the login before it and the schema behind Gate 2 and
`Inspect`: the cached entry of one command, which all callers share, the device's
attributes (`has`), which may grow, and each caller's discovery, whose reading and
storing are two steps. A `Close` of the client cuts the last round trip of a
discovery short, with some of the names and no error. `TranslateError` and `isSwallowableInspectErr` decide
whether a failed discovery is an error or an unknown schema. The gate's verdict,
free in `Orchestrator`, is here computed from the schema (`Judge`), and every step
is a step of `Orchestrator` or leaves its variables alone (`PipelineSafe`, proved).
What the verdicts say of the device has two parts: `JudgedRight`, of commands that
were accepted or rejected, which holds whatever fails, and the rest of
`VerdictRight`, of commands that pass unchecked, which needs `MayTrap = FALSE`.

### `SSHClient`, `Turns` - turns on an SSH connection

`SSHClient` is `Run` with its mutex, its session, the goroutine that waits in
`Output`, the select and the wait for that goroutine; `Close`. The library is
external: closing a session only asks the device to close its channel, and `Output`
waits until it has (`DevCloses`) or the connection is gone (`OutputEnds`); closing the
connection ends everything. An answer is output, with any exit status, or none with
status 0, or none with another status, or the end of the channel without a status;
`ResultOf` tells which of them `Run` returns as an error. `Turns` says what it promises: a line is executed at most once and
alone, its caller is told once, after it has stopped. `TakesTurns` is the
refinement.

### `Console`, `SSHConsole` - from Dial to the verdict of Gate 1

`Console` holds the pure functions: `ConsoleCLI` with `quoteCLIValue`,
`StringLiteral`, `HasUnbalancedQuotes`, `CleanConsoleOutput` and the classifier of
Gate 1. Texts are sequences of the characters that quoting and splitting tell
apart: quote, backslash, single quote, `=`, a blank (space or tab, the whitespace
that `quoteCLIValue` looks for), any other whitespace (`Newline`), `$`, what ends or
evaluates a command (`Break`: `;`, `[` and their like), and plain characters. The
reader of literals and lines on the device is external and written independently
(`ReadLiteral`, `ReadLine`), as the reference that quoting must undo: a newline or an
unquoted `Break` ends the command, and a `$` is expanded, also between quotes.
A line of output is one of the forms that the regular expressions tell apart, or a
note, which none matches; the device may answer a script with notes only, or with
nothing, and Gate 1 lets both pass.

`SSHConsole` composes it with `SSHClient` and puts `Dial` before it: the options,
`buildAuth`, `hostKeyCallback`, the order of patterns in `mapSshError`, and the
handshake, after which the device may present another key whenever keys are
exchanged again. Some callers of `Run` are a `Validate` (`Validator`): they embed
their line in a script, and make a verdict of its output.

### Proofs and configurations

Each `XProofs` extends `X` with its theorems; the refinements of `Runs` and `Turns`
are proved in `AsyncClientProofs` and `SSHConsoleProofs`, what holds of `Orchestrator`
in `PipelineProofs`. `Induction` has the induction over naturals that proofs about
sequences use. Each `MCx` names the model values of the configurations `MCx_*.cfg`. The
operators named `X_Y` with a comment that starts "Mutant" are plausible mistakes
in the code; each shows that a property of a run would notice the mistake.

## The runs

| Run | Instance | Shows |
|---|---|---|
| `asyncclient_dispatch` | 1 run, 1 listener, queue 1, 3 tags, 1 row; 3.9 million states | `NoOrphan`, `NoCrossTalk`, `CleanEnd`, `NoPanic`, `ReplyFrozen`, and the inductive invariant `IInv` |
| `session_replies` | 1 run, 1 listener, queue 1, 4 tags, 1 row, connection loss; 2.8 million | `AllRows`: no row is lost or added; `CancelIsClean`: cancelling a listener by its context is no error; `NothingLeftRunning`: a call that is told of its context leaves no command on the device; `AnswersRuns`: the client implements `Runs` |
| `session_release` | a listener with an unbuffered channel, and a caller of `Cancel`, connection loss; 0.2 million | `RunAnswered`, `ListenerReleased`, `CloseReleases` (liveness) |
| `session_leak` | 2 runs | violation of `CtxReturns` |
| `wire_roundtrip` | 2 sentences of 9, with words at both sides of every bound of the length; 100 000 | `RoundTrip`, `NilVouches`, `AcceptedArrives` |
| `ctxreader_close` | 3 chunks, 2 calls of Close, 2 writes and the last; 187 000 | `CloseIdempotent`, `NothingEaten`, `BufferAlone`, `WriterTypeOK`, `CloseUnblocks` and `CloseReleasesWrite` (liveness) |
| `ctxreader_context` | 2 chunks, no Close | violation of `CtxEndsLoop` |
| `schemastore_cache` | 2 callers, one command the device has and one it lacks, TTL 1, time to 3, both commands overridden at any time; 2.5 million | `CacheWhole`, `OnlyAttributes`, `OverrideHolds`, `TypeOK`, `GrowthNoticed` |
| `schemastore_absent` | 1 caller, a command the device lacks | violation of `OverrideWins` |
| `orchestrator_gates` | `Pipeline`: 2 callers, any two calls, 2 attributes of which the device gains one, the client may be closed; 1.1 million | `CapabilityTrue`, `GatedRun`, `VerdictRight`, `LoginTells`, the inductive invariant `PInv`, `AllReturn` (liveness) |
| `orchestrator_timeout` | `Orchestrator`: 1 caller, contexts may end | violation of `TimeoutSaysNothing` |
| `sshclient_turns` | `SSHConsole`: 2 callers of Run and one Validate, 1 Close, 2 host keys, the context of the Validate may end; 3 lines to validate, with escapes, a variable, and a quote too many; all commands with safe values of up to 2 of 10 characters; 249 000 | `VerdictTrue`, `PeerTrusted`, `Renders`, the inductive invariant `IInv`, `TakesTurns` (it implements `Turns`), `CtxAborts`, `AllReturn` (liveness) |

Why the bounds are enough. A tag is drawn once per request: with a run, a
listener and one or two cancels, 3 or 4 tags let the cancels race with both. One
row is enough to be lost, crossed, late or in the way of a blocked loop: what a
row does to the loop does not depend on how many came before, except for a full
channel; the unbuffered channel of `session_release` blocks the loop until its
application receives, but no run has an application that stops receiving. The
invariants of `AsyncClient`, `Session`, `Wire`, `Orchestrator`, `Pipeline`,
`SchemaStore`, `CtxWriter` and `SSHConsole` are proved for every value of their
constants besides, some under hypotheses that the section on the proofs names. Two sentences show a splice of one into the next, and nine kinds of sentences include both sides of each bound. Time up to 3
with a TTL of 1 lets an entry be stored, looked up at its expiry and expire, with
the growth in between; a TTL of 0, which keeps entries for ever, is not exercised. One
category to register is enough to differ from what a discovery finds. Two discoveries show every race on one cache entry; a
mutex and its holder, its waiter and a third caller are all the roles in
`SSHClient`. Three writes reach a command interrupted at its first word, at a
later one and at the last. One attribute from the start and one gained tell a
true verdict from one that was true. Two characters of a value show a quote or a
blank next to any other character and at either end. One caller whose context ends,
at any stage, meets two that do not; any caller may break off by the connection.

Deadlock is not checked where calls that have all returned leave nothing to do;
liveness properties say what must return.

### Fairness

* `Session`: every goroutine that can run is scheduled (weak fairness of the
  steps of each run, listener, cancel and of the loop, which the Go scheduler
  provides), an application that has not stopped receives, the device takes
  requests and ends the commands of runs. Nobody has to call, cancel or close,
  and a listener's command need not end by itself. A `select` with two ready
  cases may take either for ever: only its progress is assumed, and `RunAnswered`
  and `ListenerReleased` do not rest on the choice.
* `CtxReader`, `CtxWriter`: goroutines that can run do. Nothing of `rwc.Close()`,
  the device or the network, hence nothing of the goroutine inside a `Write` and of
  `Flush`; nor does anybody have to call `Close`.
* `Orchestrator`, `Pipeline`: each caller's enabled steps are taken, so round trips
  end (each has a context or a connection that ends). Nothing of the login, the
  calls, the expiry of the entry and the growth of the device.
* `SSHClient`, `SSHConsole`: goroutines that can run do, the library ends the
  `Output` of a connection that is gone, and `sync.Mutex` starves nobody (its
  starvation mode hands it to the first in the queue). Nothing of the device: what a
  property needs of it is stated in the property. `CtxAborts` assumes that it closes
  the channels it is asked to close (`DeviceCloses`), `AllReturn` that it answers
  (`DeviceAnswers`).
* `Wire`: what is on the stream is read.

## Known divergences

Where the code does not do what the repository says of it. The first four are
runs; the others are reproduced by naming the property in a configuration with
the constants given (for `AsyncClient` and `Session`, the other set of calls is empty).

| Property | Reproduce | What happens |
|---|---|---|
| `CtxReturns` | run `session_leak` | `run.go:54` returns between `BeginSentence` and `EndSentence`: the writer's mutex stays locked, and a cancelled call blocks in `cancelTag`. When the mutex is released on that path the property holds on the same instance. |
| `CtxEndsLoop` | run `ctxreader_context` | `Cancel` is one non-blocking send, dropped when the loop is between two reads |
| `OverrideWins` | run `schemastore_absent` | the early return for a command that inspect cannot resolve ignores the override |
| `TimeoutSaysNothing` | run `orchestrator_timeout` | the interruption trap of a cancelled probe counts as "not supported" for the session |
| `OverrideWins` | `schemastore_cache` | besides the above, a discovery that looked the override up before `RegisterCategory` stores its schema after the eviction (`discover.go:31` promises that it takes effect immediately). `OverrideHolds` is what is left. |
| `CacheWhole` | `schemastore_cache` with `MayTrap = TRUE` | an interrupted probe is swallowed like an absent command and a partial schema is cached (`discover.go:53-55`) |
| `VerdictRight` | `orchestrator_gates` with `MayTrap = TRUE` | the same unknown schema makes Gate 2 let every command pass unchecked until the TTL ends. `JudgedRight` holds there, too. |
| `TerminalReply` | `AsyncClient`, a runner | `Close` ends a pending `Run` with its rows, no `Done` and no error; `Command` then returns a data row as the terminal reply (`client_transport.go:202`) |
| `DoneIsSet` | `AsyncClient`, a listener | a trap other than an interruption, or a fatal sentence, closes the channel with `Done` nil (`listen.go:20`) |
| `FatalFailsAll` | `asyncclient_dispatch` | a tagged `!fatal` ends one command and leaves the others pending (`transport/contract.go:28`) |
| `AllRows` | `Session`, a runner, `Overlap = TRUE` | `Listen` or `Async` starts the loop while a synchronous `Run` reads; the loop drops the run's rows |
| `CommandHonoursCtx` | `Session` under `SilentSpec`, a runner | a synchronous `Run` never looks at its context, an asynchronous one waits for the answer to its cancel (`transport/contract.go:214`) |
| `CancelCloses`, `CloseReleases` | `session_release` with `MayStall = TRUE` | the loop blocks in the channel of a listener nobody reads; neither `Cancel` nor `Close` closes it (`listen.go:30`, `docs/USAGE.md:178`). With `MayStall = FALSE` both hold. |
| `WhitespaceReadsBack` | `sshclient_turns` | values with whitespace are to be quoted (`transport/contract.go:71`, `:111`, `:179`); `:182` looks for a space, a tab or a quote only, so a value with a newline goes out as it is, and the line ends there |
| `AnyCommandReadsBack` | `sshclient_turns` | `quoteCLIValue` escapes quotes and not backslashes, so a quoted value that has one is read back as another; a value with one `'` is refused by `HasUnbalancedQuotes` although the console takes it (`gate/gate1.go:29`); `$` is expanded, quoted or not; and a value with `;` or `[` is not quoted for it. For the other values (`Safe`) `Renders` holds. |
| `LiteralIsLine` | `sshclient_turns` | `StringLiteral` renders "a safely-escaped RouterOS double-quoted literal" (`gate/gate1.go:19`) and leaves `$` and newlines alone: the device's parser judges another text than the line |
| `RefusedKeyIsNamed` | `sshclient_turns` | the texts of `knownhosts` ("key mismatch", "key is unknown") match none of the patterns of `mapSshError`: a refused key is reported as `transport/network` and not as the documented `host-key-mismatch` (`ssh.go:119`) |
| `RunHonoursCtx`, `TimeoutPerCommand` | `sshclient_turns` | the context is not looked at while `Run` waits for the mutex or for its session, nor once it has closed its session: `<-done` (`ssh.go:286`) waits, with the mutex held, until the device closes the channel or the connection ends, though `ssh.go:283` closes the session "to unblock Output" and a silent device does not (`CtxAborts` without `DeviceCloses`). `WithTimeout` bounds the dial only (`ssh.go:110`). |

Others were met and have no property:

* A `Close` during the inspect probe ends it without an error, and the capability is
  recorded as supported (`client_transport.go:81`), whatever the device serves;
  `CapabilityTrue` excuses it. A `Close` during the last round trip of a discovery
  leaves a schema with some of the names; `JudgedRight` excuses what it rejects. The
  connection is closed, so no later command reaches the device.
* Gate 1 lets a line pass when the device prints nothing, or nothing that it
  recognises (`gate/gate1.go:114`, `:145`, and its tests, where it is called a
  defensive pass); `VerdictTrue` says so.
* `CtxReader!CancelSend` can send on the channel that `Client.Close` has closed
  between the check and the send of `Cancel`, which stops the process.
  `CloseUnblocks` excuses it.
* A stalled `EndSentence` holds `c.mu` (`run.go:59`), so `Client.Close`, which
  would release it, waits for it. `CloseReleasesWrite` is about a `Close` that got
  the mutex.
* `Words` renders proplists as `.proplist=` (`transport/contract.go:164`), its
  documentation says `=.proplist=` (`:54`).
* A second `Close` of an SSH client returns the error of the closed connection,
  though documented as idempotent (`ssh.go:325`).
* The store of first-seen host keys is made by each `Dial`, so trust on first use
  starts afresh with every connection (`ssh.go:220`).

## The proofs

`tlapm` checks the eight modules with no obligation left. They assume only what
the modules assume of their constants: that sets which play different roles are
disjoint, that `None` is in none of them, that bounds are natural numbers, that
the device knows from the start some of the attributes, that the characters which
quoting and splitting tell apart are distinct. A hypothesis of a theorem that is more than this is named with it; where
it is about constants, TLC evaluates it in the runs.

**`AsyncClientProofs`.** `Invariance` is `Spec => []IInv`, for any sets of
runners and listeners, any capacity and bounds, and a device that sends anything.
`NoPanic` alone is not inductive: that `asyncLoop` may close the channel of the
entry it holds rests on that entry being open, hence on how it got into `c.tags`.
`IInv` therefore says that

* whoever writes a sentence holds the writer's lock, and whoever flushes a
  registration holds `c.mu` (`LockInv`);
* tags are distinct and never reused (`TagInv`);
* what is in `c.tags` is there under its own tag, is open, and its owner is at a
  stage where it waits (`RegInv`); the loop holds only such an entry, and its
  owner can no longer withdraw it on a write error, because the loop looked it up
  under `c.mu` after the owner had released it (`LoopInv`);
* a closed channel belongs to a caller that waits or has returned (`ClosedInv`),
  a listener's `stop` is closed once, on the way to the close of its channel
  (`StopInv`), cancels run only for calls that wait (`CancelInv`), and the map is
  nil exactly before the loop runs and after it ended (`PhaseInv`);
* what the loop is about to close without an error has its `Done` (`DoneInv`).

The proof has a lemma per action. Two lemmas carry the table of entries: one for
steps that leave it alone (`TableFrame`), one for registrations
(`TableRegister`); the steps of the loop are treated one by one. From `IInv`
follow `TypeCorrect`, `NeverPanics`, `WaitersReachable`, `CleanEndIsDone`,
`SentencesDoNotMix`, `RepliesDoNotCross`, and the action property `RepliesFrozen`.

`ImplementsRuns` shows that `AsyncClient` implements `Runs`: each
action is mapped to a step of `Runs` or to a stutter, from `IInv` and a few facts
about replies that are closed (a caller that was told is at its end, an entry the
loop holds belongs to a caller that was not told).

**`SessionProofs`.** Every step of `Session` is one of `AsyncClient` or leaves its
variables alone, so `IInv` carries over and `SessionImplementsRuns` follows. The
rest relates the client's state to two queues and to the device, and none of it
is inductive alone. `AllInv` says that

* a request is on its way once, before the device has seen it and after its call
  has flushed it (`ReqInv`); a connection that was lost stays lost, and without a
  loss no read or write fails (`ConnInv`);
* no sentence for a listener is a trap unless the device failed its command
  (`TrapInv`), which is all that a clean cancel needs;
* before `Async` at most one synchronous run is under way, and after it none
  (`ModeInv`); a cancel has its tag before it is written (`CancelTagInv`);
* every unread sentence, in the loop's hand or on the stream, has an owner: an
  entry that waits for it and whose command the device has started, and ended unless
  the sentence is a row; nothing of a command but one `!done` follows its end
  (`OwnInv`);
* the rows in the reply of a run that is still answered, and those for it that
  are unread, are together those the device has sent (`RowInv`, with `Grows`, which
  counts the rows of one tag along a stream), from none (`FreshInv`);
* a channel that is closed, and a run that was told of its end, belong to a command
  that the device has ended, unless the connection was lost or closed (`EndInv`).

`CancelsAreClean` needs no hypothesis. `RepliesAreWhole` (`AllRows`) and
`ReturnsAreFinal` (`NothingLeftRunning`) are under `~Overlap`; the known divergences
show what overlapping calls of a synchronous client do.

**`WireProofs`.** `SentencesArriveWhole` is `Spec => []RoundTrip` for any sentences,
buffer and stream, under `Encodable`: the reader returns the sentences that were
written, in order, however the writes are cut. A *cursor* is a sentence, a word of it
and an element of the code of that word. What is on the stream and in the buffer
are the elements of a *walk* of cursors, each the successor of the one before, that
starts where the reader is; it ends where the writer is unless a write has failed,
after which nothing is added (`StreamInv`). What the reader holds of a word is the
start of its code (`InWord`), what it holds of a sentence is made of the words before
(`WordsRead`). That the first byte of a code tells its form, and that the bytes that
follow give the length back, is arithmetic on the five forms. `NilVouchesForAll`
proves `NilVouches`: the error of a write stays. `WireTypeCorrect` is the type
invariant.

**`PipelineProofs`.** Of `Orchestrator`, `PipelineInvariance` is `Spec => []IInv` for any set of
callers: who holds which mutex follows from where it is (`LockInv`), and nobody
is past `ensureRun` before both probes have been decided (`PipelineInv`). From it
follow `NoDoubleProbe`, `CapabilitiesAreTrue` and `NothingSlipsPast`.
Every step of `Pipeline` is one of `Orchestrator` or leaves it
alone (`PipelineSafe`, and the lemma it rests on), so `IInv` carries over. `PInv` adds what
the verdicts rest on: a schema that is cached or that a caller holds has all
attributes the device had from the start and only such as it has now, only a
part of them if the client was closed, or the device lacks the command or
`/console/inspect`, or traps (`SchemaTrue`); and nobody has a
verdict, a result or a schema before the stage that gives it (`Undecided`). The
first part is needed for what was stored earlier by another caller, the second
for a verdict that is given later. `SchemasAreTrue` is `SpecP => []PInv`,
`JudgementsAreTrue` proves `JudgedRight` whatever fails, `GateTwoTellsTheTruth` proves
`VerdictRight` under `~MayTrap`, `LoginIsTold` proves `LoginTells`.

**`SchemaStoreProofs`.** `CachedSchemasWhole` proves `CacheWhole` under
`~MayTrap`; the known divergences show what happens without it. `OverridesInForce`
proves `OverrideHolds` without a hypothesis: registrations may come at any time and
any probe may fail. Its invariant (`OInv`) says of a discovery that is about to store
what `OverrideHolds` says of the cache: its schema obeys the override unless the
registration came after it had looked. The invariant of the whole schemas relates what a discovery has gathered to the
stage it is at: at each of the four round trips what was read so far is what the
device served, also if it has grown since. `OnlyAttributesCached` proves `OnlyAttributes`
under `HonestRows` (a device lists names where it is asked for names), `GrowthIsNoticed`
proves `GrowthNoticed` under `~MayTrap`, a TTL that is not 0 and `CompleteRows` (the
rows of a device are all it has): an entry that lacks what the device has
gained is as old as the growth, hence expires. `StoreTypeCorrect` is the type invariant.

**`CtxWriterProofs`.** `ClosedOnce`, `RepliesUntorn` and `WriterUnshared` for any
number of chunks, closes and writes. That one goroutine at a time uses the buffer
rests on the sticky error: a stray exists only after the error was set, and
nobody starts a goroutine or flushes after that.

**`SSHConsoleProofs`.** `TurnsInvariance` is the invariant of `SSHClient` that
who has a session holds the mutex and who has a goroutine in `Output` has not yet
returned; from it follow `SessionsAlternate`, `OutputIsOwn` and `ImplementsTurns`, the
refinement of `Turns`. `SSHConsole` only takes steps of `SSHClient` or loses the
connection, so the same holds of it (`ConsoleInvariance`, `ConsoleTakesTurns`), and
`PeerStaysTrusted` proves `PeerTrusted` for any keys and options: what the key
store remembers is what the peer showed first (`DialInv`).

`VerdictsAreTrue` proves `VerdictTrue` for any lines. It rests on `LiteralReadsBack`,
a fact about data: unless the line has a `$` or a newline (`Embeddable`), the device's
parser finds it in the literal that `StringLiteral` made, and nothing after it. `Escape` puts each character
at a place (`EscapeIs`); two passes compose to one that sets a backslash before
each backslash and each quote (`InnerIs`); then by induction the device reads
exactly those characters as escaped (`EscapedAt`), so no quote ends the
literal early and what is dropped is what was added (`UnescapeIs`). `ConsoleInv` adds
that a Run with a script starts with balanced quotes and the device has read the
script before its answer is returned, and `EchoIsClassified` that the order of Gate 1's
patterns tells apart what the device prints, as far as it is recognised at all.

`CommandIsReadBack` proves of every command, of any length and with any number of
attributes whose values are safe, that it is read back from its line: `Safe` values
have no whitespace but spaces and tabs, no backslash, no `'`, no `$`, and a `;` or `[`
only beside a character for which they are quoted; `CommandsReadBack`, hence `Renders`, is the case of the commands of the runs.
A value has quotes around it or none, and blanks only within them (`Neat`,
`ValueReadsBack`); where a word lies in the line, and that the same of its
characters are escaped there, follows from `JoinIs` and `EscapedWithin`; so the
unescaped quotes of a line come in pairs, one pair within a word (`LineQuotes`,
`LineParity`), the blanks outside quotes are those between words, and the line is cut
where it was joined (`CutIs`). The key ends at the first `=`, which no key has
(`ArgReadsBack`).

**What a proof about data looks like.** The induction theorems of the library take an
operator, which the provers cannot instantiate. `Induction` states induction for a set
of naturals (`NatSet`), and a proof applies it to the set of the lengths, or places,
for which its claim holds; that a recursive function exists is proved the same way.

**Only model-checked**: liveness, which is out of the prover's reach. Proved and not in a run of their own, because an inductive invariant of a run implies them:
`TypeCorrect`, `SentencesDoNotMix`, `NoDoubleProbe`, `SessionsAlternate`, `OutputIsOwn`;
and `WireTypeCorrect`, a type invariant.

## Not modelled

* Data races on plain fields (`ListenReply`'s fields, the map `s.overrides`):
  their logical effect is modelled where two steps can overlap, the stop of the
  process by a concurrent map access is not.
* What the bytes of a connection become when a synchronous client goes on
  reading after an error of the reader, and empty words in a command, which end
  its sentence early: `Wire` has non-empty words and stops at the first error, as
  `asyncLoop` does.
* Of command rendering, `Words`, `CLI`, queries and proplists: they differ from
  `ConsoleCLI` in separators and prefixes, and nothing is undone that a reference
  could be compared with.
* Of the errors, the constructors and formatting; the codes that steer control
  are in `TranslateError`, `Swallowed` and `MapSshError`.
* In `SchemaStore`, a client that is closed below a discovery: `Pipeline` has it. An
  answer of the parse probe without a `ret` (`client_transport.go:121`) decides as a
  trap does and is not told apart from one.
* What a RouterOS console makes of a variable or of `[...]`: the reference reader drops
  a `$` and ends the command at a `Break`, so a text that has one is another text.
* Of Gate 1, the positions in messages and the extraction of an attribute's name.
* Metrics counters, which nothing reads; logging; the native adapter, which
  delegates every call; the mock transport, a test helper; the examples.
* The dial helpers of the API transport, which differ in the dialer of the
  standard library they call; `ssh.Dial` looks at its context only before it starts.

## What is left

The four round trips of `SchemaStore` could replace the one step that
a discovery is in `Pipeline`. A device that stalls in `Session` would make the hold of
`c.mu` across the network part of its liveness, which the code does not provide.
