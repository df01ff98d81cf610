----------------------------- MODULE SchemaStore -----------------------------
(***************************************************************************)
(* schema.Store and its Cache: concurrent Discover calls that probe the    *)
(* device over several round trips, the TTL cache they share, and          *)
(* RegisterCategory, which overrides a category and evicts the cached      *)
(* schema (schema/cache.go, discover.go, inspect.go).                      *)
(*                                                                         *)
(* A command stands for a cache key (path, verb).  Names are sets: the     *)
(* order and the duplicates that mergeNames and sortedAttributes remove    *)
(* make no difference to HasAttribute.  The client below is not closed,    *)
(* which would end a probe early and without an error.                     *)
(***************************************************************************)
EXTENDS Naturals

CONSTANTS Caller,       \* goroutines that call Discover
          Cmd,          \* commands (path, verb)
          Served,       \* the commands the device has
          FieldVerb,    \* those whose verb is print or get
          Token,        \* what a field of a row can hold
          Structural,   \* the punctuation among the completions
          BeforeEq,     \* a token up to its "=", None when that is blank
          CmdVerb,      \* the verb of a command
          ChildNodes,   \* rows of request=child on the command
          PathNodes,    \* rows of request=child on its path
          ExtraRows,    \* rows of request=completion on the command
          FieldRows,    \* rows of request=completion on proplist/value-name
          Attrs,        \* the attributes the device takes for a command
          Late,         \* those it gains when its menus grow
          Overridable,  \* the commands the application overrides
          Registrable,  \* the categories it registers for them
          MayTrap,      \* a probe of a command the device has may end in a trap
          TTL, MaxTime, \* cache time to live, and the bound on the clock
          None

Category == {"table", "action", "unknown"}
Schema == [category : Category, names : SUBSET Token,
           source : {"inspect", "inspect-failed"}]

\* InspectNode: a row; which of the first two fields says what it is, and which
\* of the others are filled, depends on the build of the device.
Node == [type : {"arg", "cmd", "child", "completion"},
         nodeType : {"arg", "cmd", "none"},
         name : Token \cup {None}, completion : Token \cup {None},
         value : Token \cup {None}, text : Token \cup {None}]

ASSUME StoreAssumption ==
    /\ \A cs \in {Served, FieldVerb, Overridable} : cs \subseteq Cmd
    /\ \A f \in {ChildNodes, PathNodes, ExtraRows, FieldRows} :
          f \in [Cmd -> SUBSET Node]
    /\ Structural \subseteq Token /\ Late \subseteq Token
    /\ BeforeEq \in [Token -> Token \cup {None}]
    /\ CmdVerb \in [Cmd -> Token] /\ Attrs \in [Cmd -> SUBSET Token]
    /\ Registrable \subseteq Category
    /\ TTL \in Nat /\ MaxTime \in Nat
    /\ MayTrap \in BOOLEAN
ASSUME NoneAssumption == None \notin Schema \cup Category \cup Cmd \cup Nat \cup Token

VARIABLES
    entries,    \* Cache.entries: the schema of a command, or None
    expires,    \* when the entry expires
    now,        \* the clock
    grownAt,    \* when the device gained the names of Late, or None
    overrides,  \* Store.overrides
    rpc,        \* the command RegisterCategory is about to evict, or None
    raced,      \* commands whose last RegisterCategory came between a Discover's
                \* look at the overrides and its store (history)
    pc,         \* where a caller's Discover is
    cmd,        \* the command it discovers
    attrs,      \* the names found so far
    hasVerb,    \* the path's children contain the verb
    sch,        \* the schema it is about to store
    ret         \* what its last one returned: a schema, or None for an error

callVars == <<pc, cmd, attrs, hasVerb, sch, ret>>
timeVars == <<now, grownAt>>
regVars == <<overrides, rpc, raced>>
vars == <<entries, expires, timeVars, regVars, callVars>>

PC == {"idle", "child", "path", "completion", "field", "categorize", "put"}

TypeOK ==
    /\ entries \in [Cmd -> Schema \cup {None}]
    /\ expires \in [Cmd -> Nat] /\ now \in 0 .. MaxTime
    /\ grownAt \in Nat \cup {None}
    /\ overrides \in [Cmd -> Category \cup {None}]
    /\ rpc \in Cmd \cup {None} /\ raced \subseteq Cmd
    /\ pc \in [Caller -> PC]
    /\ cmd \in [Caller -> Cmd \cup {None}]
    /\ attrs \in [Caller -> SUBSET Token]
    /\ hasVerb \in [Caller -> BOOLEAN]
    /\ sch \in [Caller -> Schema \cup {None}]
    /\ ret \in [Caller -> Schema \cup {None}]

Init ==
    /\ entries = [c \in Cmd |-> None] /\ expires = [c \in Cmd |-> 0] /\ now = 0
    /\ grownAt = None
    /\ overrides = [c \in Cmd |-> None] /\ rpc = None /\ raced = {}
    /\ pc = [p \in Caller |-> "idle"]
    /\ cmd = [p \in Caller |-> None]
    /\ attrs = [p \in Caller |-> {}]
    /\ hasVerb = [p \in Caller |-> FALSE]
    /\ sch = [p \in Caller |-> None] /\ ret = [p \in Caller |-> None]

-----------------------------------------------------------------------------
(* Helpers.                                                                *)

\* Mutant: the TTL is never looked at.
Expired_Never(c) == FALSE

\* Cache.Get: an entry is live up to and including its expiry; 0 disables it.
Expired(c) == TTL > 0 /\ now > expires[c]

\* Cache.Put.
Store(c, s) ==
    /\ entries' = [entries EXCEPT ![c] = s]
    /\ expires' = [expires EXCEPT ![c] = now + TTL]

\* Mutant: the entry stays.
Evict_Nothing(c) == entries

\* Cache.Delete.
Evict(c) == [entries EXCEPT ![c] = None]

\* Discover ends; its locals are dead.
Finish(p, result) ==
    /\ pc' = [pc EXCEPT ![p] = "idle"]
    /\ cmd' = [cmd EXCEPT ![p] = None]
    /\ attrs' = [attrs EXCEPT ![p] = {}]
    /\ hasVerb' = [hasVerb EXCEPT ![p] = FALSE]
    /\ sch' = [sch EXCEPT ![p] = None]
    /\ ret' = [ret EXCEPT ![p] = result]

Advance(p, next) == pc' = [pc EXCEPT ![p] = next]

\* IsArgumentNode: both fields are looked at.
IsArgumentNode(n) == n.type = "arg" \/ n.nodeType = "arg"

IsCommandNode(n, verb) == n.name = verb /\ (n.type = "cmd" \/ n.nodeType = "cmd")

\* namesOfArgumentNodes.
ArgumentNames(nodes) == {n.name : n \in {m \in nodes : IsArgumentNode(m)}} \ {None}

\* Mutant: the description of a row is taken for a name.
Picked_WithText(row) == {row.completion, row.name, row.value, row.text} \ {None}

\* The fields of a row that hold names; the text only if there are none.
Picked(row) ==
    LET fields == {row.completion, row.name, row.value} \ {None}
    IN  IF fields # {} THEN fields ELSE {row.text} \ {None}

\* ExtractCompletionNames: values are cut at the first "=".
ExtractCompletionNames(rows) ==
    {BeforeEq[v] : v \in UNION {Picked(r) : r \in rows}} \ {None}

\* usableCompletionNames.
UsableNames(rows) == ExtractCompletionNames(rows) \ Structural

\* What the device has of the attributes ns of c now (external).
Shown(c, ns) ==
    IF c \notin Served THEN {} ELSE IF grownAt = None THEN ns \ Late ELSE ns

\* isSwallowableInspectErr, which swallows any trap: that of a command the device
\* lacks, and with MayTrap any other, such as that of a context which ends.
Swallowed(c) == c \notin Served \/ MayTrap

\* mergeNames: the union of what was found and what the probe returned.
MergeNames(p, names) == [attrs EXCEPT ![p] = @ \cup names]

\* fieldDiscoveryArgument: fields are probed for a print or get the path has.
HasFields(p) == cmd[p] \in FieldVerb /\ hasVerb[p]

\* The category derived from the path's children.
Derived(p) == IF ~hasVerb[p] THEN "unknown"
              ELSE IF cmd[p] \in FieldVerb THEN "table" ELSE "action"

\* Mutant: the zero value of a missing map key is taken for an override.
Categorized_ZeroValue(p) == overrides[cmd[p]]

\* A registered override wins over discovery.
Categorized(p) ==
    IF overrides[cmd[p]] = None THEN Derived(p) ELSE overrides[cmd[p]]

Discovering == \E p \in Caller : pc[p] # "idle"

-----------------------------------------------------------------------------
(* Discover.                                                               *)

\* Cache.Get: a live entry is the answer, an expired one is dropped.
DiscoverStart(p, c) ==
    /\ pc[p] = "idle"
    /\ \/ /\ entries[c] # None /\ ~Expired(c)
          /\ Finish(p, entries[c])
          /\ UNCHANGED entries
       \/ /\ entries[c] = None \/ Expired(c)
          /\ entries' = Evict(c)
          /\ cmd' = [cmd EXCEPT ![p] = c]
          /\ ret' = [ret EXCEPT ![p] = None]
          /\ Advance(p, "child")
          /\ UNCHANGED <<attrs, hasVerb, sch>>
    /\ UNCHANGED <<expires, timeVars, regVars>>

\* request=child on path+verb.  A swallowed error stores an unknown schema.
ProbeChild(p) ==
    LET c == cmd[p]
        failed == [category |-> "unknown", names |-> {},
                   source |-> "inspect-failed"]
    IN  /\ pc[p] = "child"
        /\ \/ /\ attrs' = MergeNames(p, Shown(c, ArgumentNames(ChildNodes[c])))
              /\ Advance(p, "path")
              /\ UNCHANGED <<cmd, hasVerb, sch, ret>>
           \/ /\ Swallowed(c)
              /\ sch' = [sch EXCEPT ![p] = failed]
              /\ Advance(p, "put")
              /\ UNCHANGED <<cmd, attrs, hasVerb, ret>>
        /\ UNCHANGED <<entries, expires, timeVars, regVars>>

\* hasCommandNode.
HasCommandNode(nodes, verb) == \E n \in nodes : IsCommandNode(n, verb)

\* The device shows the commands it has in the menu of their path (external).
ASSUME MenuAssumption == \A c \in Served : HasCommandNode(PathNodes[c], CmdVerb[c])

\* request=child on the path: does it have the verb?
ProbePath(p) ==
    LET c == cmd[p]
    IN  /\ pc[p] = "path"
        /\ \/ hasVerb' = [hasVerb EXCEPT ![p] = HasCommandNode(PathNodes[c], CmdVerb[c])]
           \/ Swallowed(c) /\ UNCHANGED hasVerb
        /\ Advance(p, "completion")
        /\ UNCHANGED <<entries, expires, timeVars, regVars, cmd, attrs, sch, ret>>

ProbeCompletion(p) ==
    LET c == cmd[p]
    IN  /\ pc[p] = "completion"
        /\ \/ attrs' = MergeNames(p, Shown(c, UsableNames(ExtraRows[c])))
           \/ Swallowed(c) /\ UNCHANGED attrs
        /\ Advance(p, IF HasFields(p) THEN "field" ELSE "categorize")
        /\ UNCHANGED <<entries, expires, timeVars, regVars, cmd, hasVerb, sch, ret>>

ProbeField(p) ==
    /\ pc[p] = "field"
    /\ \/ attrs' = MergeNames(p, Shown(cmd[p], UsableNames(FieldRows[cmd[p]])))
       \/ Swallowed(cmd[p]) /\ UNCHANGED attrs
    /\ Advance(p, "categorize")
    /\ UNCHANGED <<entries, expires, timeVars, regVars, cmd, hasVerb, sch, ret>>

\* Mutant: a probe that failed counts as an empty answer.
ProbeFails_Swallowed(p) ==
    /\ pc[p] \in {"path", "completion", "field"}
    /\ Advance(p, "categorize")
    /\ UNCHANGED <<entries, expires, timeVars, regVars, cmd, attrs, hasVerb, sch, ret>>

\* Any other failure of a probe is returned, and nothing is stored.
ProbeFails(p) ==
    /\ pc[p] \in {"child", "path", "completion", "field"}
    /\ Finish(p, None)
    /\ UNCHANGED <<entries, expires, timeVars, regVars>>

Categorize(p) ==
    /\ pc[p] = "categorize"
    /\ sch' = [sch EXCEPT ![p] = [category |-> Categorized(p),
                                  names |-> attrs[p], source |-> "inspect"]]
    /\ Advance(p, "put")
    /\ UNCHANGED <<entries, expires, timeVars, regVars, cmd, attrs, hasVerb, ret>>

DiscoverPut(p) ==
    /\ pc[p] = "put"
    /\ Store(cmd[p], sch[p])
    /\ Finish(p, sch[p])
    /\ UNCHANGED <<timeVars, regVars>>

-----------------------------------------------------------------------------
(* RegisterCategory: the override is set, then the cached schema evicted.  *)

RegisterCategory(c, category) ==
    /\ rpc = None
    /\ overrides' = [overrides EXCEPT ![c] = category]
    /\ rpc' = c
    /\ raced' = IF \E p \in Caller : pc[p] = "put" /\ cmd[p] = c
                THEN raced \cup {c} ELSE raced \ {c}
    /\ UNCHANGED <<entries, expires, timeVars, callVars>>

RegisterEvict ==
    /\ rpc # None
    /\ entries' = Evict(rpc)
    /\ rpc' = None
    /\ UNCHANGED <<expires, timeVars, overrides, raced, callVars>>

\* Cache.Delete and Cache.Clear, called by the application.
CacheClear(cs) ==
    /\ entries' = [c \in Cmd |-> IF c \in cs THEN None ELSE entries[c]]
    /\ UNCHANGED <<expires, timeVars, regVars, callVars>>

\* Time passes between discoveries: their round trips are short next to TTL.
Tick ==
    /\ now < MaxTime /\ ~Discovering
    /\ now' = now + 1
    /\ UNCHANGED <<entries, expires, grownAt, regVars, callVars>>

\* The device gains the names of Late (external).
Grow ==
    /\ grownAt = None
    /\ grownAt' = now
    /\ UNCHANGED <<entries, expires, now, regVars, callVars>>

Next ==
    \/ \E p \in Caller :
          \/ \E c \in Cmd : DiscoverStart(p, c)
          \/ ProbeChild(p) \/ ProbePath(p) \/ ProbeCompletion(p)
          \/ ProbeField(p) \/ ProbeFails(p)
          \/ Categorize(p) \/ DiscoverPut(p)
    \/ \E c \in Overridable, category \in Registrable : RegisterCategory(c, category)
    \/ RegisterEvict
    \/ \E cs \in {{c} : c \in Cmd} \cup {Cmd} : CacheClear(cs)
    \/ Tick \/ Grow

Spec == Init /\ [][Next]_vars

-----------------------------------------------------------------------------
(* Properties.                                                             *)

\* The names of a complete discovery.
AllNames(c) == ArgumentNames(ChildNodes[c]) \cup UsableNames(ExtraRows[c]) \cup
               (IF c \in FieldVerb THEN UsableNames(FieldRows[c]) ELSE {})

\* The rows of the device (external).  An argument row is named by an attribute;
\* what a row of completions fills, its text when it fills nothing else, is an
\* attribute once it is cut at "=", or punctuation: a text beside a name is its
\* description and may be anything.
HonestRow(c, r) ==
    LET attribute(v) == v # None =>
            BeforeEq[v] \in Attrs[c] \cup Structural \cup {None}
        bare == r.completion = None /\ r.name = None /\ r.value = None
    IN  /\ attribute(r.completion) /\ attribute(r.name) /\ attribute(r.value)
        /\ bare => attribute(r.text)
HonestRows ==
    \A c \in Served :
        /\ \A n \in ChildNodes[c] : IsArgumentNode(n) => n.name \in Attrs[c] \cup {None}
        /\ \A r \in ExtraRows[c] \cup FieldRows[c] : HonestRow(c, r)

\* Its rows show every attribute somewhere (external).
CompleteRows == \A c \in Served : Attrs[c] \subseteq AllNames(c)

\* A cached schema of a command the device has is whole: a discovery that was
\* cut short by an error never leaves a partial schema behind, on which Gate 2
\* would reject valid attributes until the TTL ends (Discover, Cache.Put).
CacheWhole ==
    \A c \in Served : entries[c] # None =>
        /\ entries[c].source = "inspect"
        /\ entries[c].names \cup Late = AllNames(c) \cup Late

\* Only attributes of the command are cached: neither the description of a row,
\* nor punctuation, nor the name of a command on the way, whatever fields the
\* build fills (IsArgumentNode, ExtractCompletionNames, usableCompletionNames).
OnlyAttributes ==
    \A c \in Cmd : entries[c] # None => entries[c].names \subseteq Attrs[c]

\* The override wins over discovery, and at once: when RegisterCategory has
\* returned, no cached schema of the command shows another category.
OverrideWins ==
    \A c \in Cmd :
        entries[c] # None /\ overrides[c] # None /\ rpc # c =>
            entries[c].category = overrides[c]

\* What the code keeps of it, with RegisterCategory beside any Discover: a
\* schema of another category is one stored for a command inspect could not
\* resolve, or that of a Discover which had looked at the overrides before the
\* registration and stored after it; every Discover that looks later, however
\* early it began, and every earlier entry gives way (RegisterCategory, Discover,
\* Cache.Delete).
OverrideHolds ==
    \A c \in Cmd \ raced :
        entries[c] # None /\ overrides[c] # None /\ rpc # c =>
            \/ entries[c].category = overrides[c]
            \/ entries[c].source = "inspect-failed"

\* Fields added to the device are noticed without an invalidation: whoever asks
\* more than TTL after they appeared is not answered from an older schema,
\* however often the command was asked for in between (DefaultSchemaTTL).
GrowthNoticed ==
    [][\A p \in Caller, c \in Served :
          /\ DiscoverStart(p, c) /\ pc'[p] = "idle"
          /\ grownAt # None /\ now > grownAt + TTL
          /\ ret'[p].source = "inspect"
          => Attrs[c] \subseteq ret'[p].names]_vars
=============================================================================
