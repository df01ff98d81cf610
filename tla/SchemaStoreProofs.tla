-------------------------- MODULE SchemaStoreProofs --------------------------
(***************************************************************************)
(* SchemaStore for any number of callers and commands, whatever rows the   *)
(* device's build shows: the types; that the cache holds whole schemas of  *)
(* the commands the device has, as long as no context ends in a probe; how *)
(* far a registered category wins, registered at any time; that nothing    *)
(* but attributes is cached; and that growth of the device is noticed.     *)
(***************************************************************************)
EXTENDS SchemaStore, TLAPS

-----------------------------------------------------------------------------
(* What the rows of a probe give are tokens.                               *)

\* The fields of a row are tokens or empty.
LEMMA NodeFields ==
    ASSUME NEW n \in Node
    PROVE  /\ n.name \in Token \cup {None} /\ n.completion \in Token \cup {None}
           /\ n.value \in Token \cup {None} /\ n.text \in Token \cup {None}
  BY DEF Node

\* namesOfArgumentNodes returns names.
LEMMA ArgumentNamesType ==
    ASSUME NEW nodes \in SUBSET Node PROVE ArgumentNames(nodes) \subseteq Token
  <1>1. SUFFICES ASSUME NEW t \in ArgumentNames(nodes) PROVE t \in Token
    OBVIOUS
  <1>2. PICK n \in nodes : t = n.name /\ t # None
    BY <1>1 DEF ArgumentNames
  <1>. QED BY <1>2, NodeFields

\* ExtractCompletionNames returns names, and so does usableCompletionNames.
LEMMA UsableNamesType ==
    ASSUME NEW rows \in SUBSET Node PROVE UsableNames(rows) \subseteq Token
  <1>1. SUFFICES ASSUME NEW t \in ExtractCompletionNames(rows) PROVE t \in Token
    BY DEF UsableNames
  <1>2. PICK v \in UNION {Picked(r) : r \in rows} : t = BeforeEq[v] /\ t # None
    BY <1>1 DEF ExtractCompletionNames
  <1>3. PICK r \in rows : v \in Picked(r)
    BY <1>2
  <1>4. v \in {r.completion, r.name, r.value, r.text} \ {None}
    BY <1>3 DEF Picked
  <1>5. v \in Token
    BY <1>4, NodeFields
  <1>. QED BY <1>2, <1>5, StoreAssumption

\* The device shows some of the names, and all but those it has yet to gain.
LEMMA ShownNames ==
    ASSUME NEW c, NEW ns
    PROVE  /\ Shown(c, ns) \subseteq ns
           /\ c \in Served => Shown(c, ns) \cup Late = ns \cup Late
  BY DEF Shown

-----------------------------------------------------------------------------
(* Types.  A Discover has a command while it runs, and a schema to store   *)
(* when it stores one.                                                     *)

TInv ==
    /\ TypeOK
    /\ \A p \in Caller : /\ pc[p] # "idle" => cmd[p] \in Cmd
                         /\ pc[p] = "put" => sch[p] \in Schema

LEMMA InitTypes == Init => TInv
  BY StoreAssumption DEF Init, TInv, TypeOK, PC

\* Every step keeps the types.
LEMMA StepTypes == TInv /\ [Next]_vars => TInv'
  <1>. SUFFICES ASSUME TInv, [Next]_vars PROVE TInv'
    OBVIOUS
  <1>. USE DEF TInv, TypeOK, PC
  <1>1. ASSUME NEW p \in Caller, NEW c \in Cmd, DiscoverStart(p, c) PROVE TInv'
    <2>1. CASE entries[c] # None /\ Finish(p, entries[c]) /\ UNCHANGED entries
      <3>1. entries[c] \in Schema
        BY <2>1
      <3>. QED BY <1>1, <2>1, <3>1 DEF DiscoverStart, Finish, timeVars, regVars
    <2>2. CASE /\ entries' = Evict(c) /\ cmd' = [cmd EXCEPT ![p] = c]
               /\ ret' = [ret EXCEPT ![p] = None]
               /\ Advance(p, "child") /\ UNCHANGED <<attrs, hasVerb, sch>>
      BY <1>1, <2>2 DEF DiscoverStart, Evict, Advance, timeVars, regVars
    <2>. QED BY <1>1, <2>1, <2>2 DEF DiscoverStart
  <1>2. ASSUME NEW p \in Caller, ProbeChild(p) PROVE TInv'
    <2>1. Shown(cmd[p], ArgumentNames(ChildNodes[cmd[p]])) \subseteq Token
      BY <1>2, ArgumentNamesType, ShownNames, StoreAssumption DEF ProbeChild
    <2>2. [category |-> "unknown", names |-> {}, source |-> "inspect-failed"] \in Schema
      BY DEF Schema, Category
    <2>. QED BY <1>2, <2>1, <2>2 DEF ProbeChild, MergeNames, Advance, timeVars, regVars
  <1>3. ASSUME NEW p \in Caller, ProbePath(p) PROVE TInv'
    <2>1. HasCommandNode(PathNodes[cmd[p]], CmdVerb[cmd[p]]) \in BOOLEAN
      BY DEF HasCommandNode
    <2>. QED BY <1>3, <2>1 DEF ProbePath, Advance, timeVars, regVars
  <1>4. ASSUME NEW p \in Caller, ProbeCompletion(p) PROVE TInv'
    <2>1. Shown(cmd[p], UsableNames(ExtraRows[cmd[p]])) \subseteq Token
      BY <1>4, UsableNamesType, ShownNames, StoreAssumption DEF ProbeCompletion
    <2>. QED BY <1>4, <2>1 DEF ProbeCompletion, MergeNames, Advance, timeVars, regVars
  <1>5. ASSUME NEW p \in Caller, ProbeField(p) PROVE TInv'
    <2>1. Shown(cmd[p], UsableNames(FieldRows[cmd[p]])) \subseteq Token
      BY <1>5, UsableNamesType, ShownNames, StoreAssumption DEF ProbeField
    <2>. QED BY <1>5, <2>1 DEF ProbeField, MergeNames, Advance, timeVars, regVars
  <1>6. ASSUME NEW p \in Caller, ProbeFails(p) PROVE TInv'
    BY <1>6 DEF ProbeFails, Finish, timeVars, regVars
  <1>7. ASSUME NEW p \in Caller, Categorize(p) PROVE TInv'
    <2>1. Categorized(p) \in Category
      BY <1>7 DEF Categorize, Categorized, Derived, Category
    <2>2. sch'[p] \in Schema
      BY <1>7, <2>1 DEF Categorize, Schema
    <2>. QED BY <1>7, <2>2 DEF Categorize, Advance, timeVars, regVars
  <1>8. ASSUME NEW p \in Caller, DiscoverPut(p) PROVE TInv'
    <2>1. now + TTL \in Nat
      BY StoreAssumption
    <2>. QED BY <1>8, <2>1 DEF DiscoverPut, Store, Finish, timeVars, regVars
  <1>9. ASSUME NEW c \in Overridable, NEW category \in Registrable,
               RegisterCategory(c, category) PROVE TInv'
    BY <1>9, StoreAssumption DEF RegisterCategory, callVars, timeVars, regVars
  <1>10. CASE RegisterEvict
    BY <1>10 DEF RegisterEvict, Evict, callVars, timeVars, regVars
  <1>11. ASSUME NEW cs, CacheClear(cs) PROVE TInv'
    BY <1>11 DEF CacheClear, callVars, timeVars, regVars
  <1>12. CASE Tick
    BY <1>12, StoreAssumption DEF Tick, callVars, regVars
  <1>13. CASE Grow
    BY <1>13 DEF Grow, callVars, regVars
  <1>14. CASE UNCHANGED vars
    BY <1>14 DEF vars, callVars, timeVars, regVars
  <1>. QED BY <1>1, <1>2, <1>3, <1>4, <1>5, <1>6, <1>7, <1>8, <1>9, <1>10, <1>11,
              <1>12, <1>13, <1>14 DEF Next

\* Type correctness of the store, its cache and every Discover.
THEOREM StoreTypeCorrect == Spec => []TypeOK
  <1>1. TInv => TypeOK
    BY DEF TInv
  <1>. QED BY <1>1, InitTypes, StepTypes, PTL DEF Spec

-----------------------------------------------------------------------------
(* The cache is whole.  Names agree when they differ in what the device    *)
(* gains later at most, and a Discover of a command the device has holds,  *)
(* at each stage, all that the probes before it had to find.               *)

Agree(found, names) == found \cup Late = names \cup Late

Gathered(p) ==
    LET c == cmd[p]
        args == ArgumentNames(ChildNodes[c])
        extra == args \cup UsableNames(ExtraRows[c])
    IN  /\ pc[p] = "child" => attrs[p] = {}
        /\ pc[p] \in {"path", "completion"} => Agree(attrs[p], args)
        /\ pc[p] \in {"completion", "field", "categorize"} => hasVerb[p]
        /\ pc[p] = "field" => c \in FieldVerb /\ Agree(attrs[p], extra)
        /\ pc[p] = "categorize" => Agree(attrs[p], AllNames(c))
        /\ pc[p] = "put" => /\ sch[p].source = "inspect"
                            /\ Agree(sch[p].names, AllNames(c))

\* A Discover that has not begun has found nothing.
Fresh(p) == pc[p] = "idle" => attrs[p] = {}

WInv ==
    /\ TInv
    /\ CacheWhole
    /\ \A p \in Caller : Fresh(p) /\ (cmd[p] \in Served => Gathered(p))

LEMMA InitWhole == Init => WInv
  <1>. SUFFICES ASSUME Init PROVE WInv
    OBVIOUS
  <1>1. CacheWhole
    BY StoreAssumption DEF Init, CacheWhole
  <1>2. \A p \in Caller : pc[p] = "idle" /\ attrs[p] = {}
    BY DEF Init
  <1>3. \A p \in Caller : Fresh(p) /\ Gathered(p)
    BY <1>2 DEF Fresh, Gathered
  <1>. QED BY <1>1, <1>3, InitTypes DEF WInv

\* A step within a Discover: only that caller's view changes.
Moved(p) ==
    /\ UNCHANGED <<entries, cmd>>
    /\ pc'[p] # "idle"
    /\ \A q \in Caller : q # p => /\ pc'[q] = pc[q] /\ attrs'[q] = attrs[q]
                                  /\ hasVerb'[q] = hasVerb[q] /\ sch'[q] = sch[q]

\* Such a step is right if that view is.
LEMMA ProbeWhole ==
    ASSUME WInv, TInv', NEW p \in Caller, Moved(p),
           cmd[p] \in Served => Gathered(p)'
    PROVE  WInv'
  <1>1. CacheWhole'
    BY DEF Moved, WInv, CacheWhole
  <1>2. ASSUME NEW q \in Caller PROVE Fresh(q)' /\ (cmd'[q] \in Served => Gathered(q)')
    <2>1. CASE q = p
      BY <2>1 DEF Moved, Fresh
    <2>2. CASE q # p
      BY <2>2 DEF Moved, WInv, Fresh, Gathered
    <2>. QED BY <2>1, <2>2
  <1>. QED BY <1>1, <1>2 DEF WInv

\* The end of a Discover keeps the views, whatever it returns.
LEMMA FinishWhole ==
    ASSUME WInv, TInv', CacheWhole', NEW p \in Caller, NEW result, Finish(p, result)
    PROVE  WInv'
  <1>1. ASSUME NEW q \in Caller PROVE Fresh(q)' /\ (cmd'[q] \in Served => Gathered(q)')
    <2>1. CASE q = p
      BY <2>1 DEF Finish, WInv, TInv, TypeOK, Fresh, Gathered
    <2>2. CASE q # p
      BY <2>2 DEF Finish, WInv, TInv, TypeOK, Fresh, Gathered
    <2>. QED BY <2>1, <2>2
  <1>. QED BY <1>1 DEF WInv

\* Every step keeps the cache whole, when no context ends within a probe.
LEMMA StepWhole ==
    ASSUME ~MayTrap PROVE WInv /\ [Next]_vars => WInv'
  <1>. SUFFICES ASSUME WInv, [Next]_vars PROVE WInv'
    OBVIOUS
  <1>0. TInv'
    BY StepTypes DEF WInv
  <1>. USE DEF TInv, TypeOK, PC
  <1>1. ASSUME NEW p \in Caller, NEW c \in Cmd, DiscoverStart(p, c) PROVE WInv'
    <2>1. CASE Finish(p, entries[c]) /\ UNCHANGED entries
      <3>1. CacheWhole'
        BY <2>1 DEF WInv, CacheWhole
      <3>. QED BY <1>0, <2>1, <3>1, FinishWhole
    <2>2. CASE /\ entries' = Evict(c) /\ cmd' = [cmd EXCEPT ![p] = c]
               /\ ret' = [ret EXCEPT ![p] = None]
               /\ Advance(p, "child") /\ UNCHANGED <<attrs, hasVerb, sch>>
      <3>1. CacheWhole'
        BY <2>2 DEF WInv, CacheWhole, Evict
      <3>2. ASSUME NEW q \in Caller
            PROVE  Fresh(q)' /\ (cmd'[q] \in Served => Gathered(q)')
        <4>1. CASE q = p
          BY <1>1, <2>2, <4>1 DEF DiscoverStart, Advance, WInv, Fresh, Gathered
        <4>2. CASE q # p
          BY <2>2, <4>2 DEF Advance, WInv, Fresh, Gathered
        <4>. QED BY <4>1, <4>2
      <3>. QED BY <1>0, <3>1, <3>2 DEF WInv
    <2>. QED BY <1>1, <2>1, <2>2 DEF DiscoverStart
  <1>2. ASSUME NEW p \in Caller, ProbeChild(p) PROVE WInv'
    <2>1. cmd[p] \in Served => Gathered(p)'
      <3>. SUFFICES ASSUME cmd[p] \in Served PROVE Gathered(p)'
        OBVIOUS
      <3>. DEFINE args == ArgumentNames(ChildNodes[cmd[p]])
      <3>1. attrs[p] = {}
        BY <1>2 DEF ProbeChild, WInv, Gathered
      <3>2. /\ cmd'[p] = cmd[p] /\ pc'[p] = "path"
            /\ attrs'[p] = attrs[p] \cup Shown(cmd[p], args)
        BY <1>2 DEF ProbeChild, Swallowed, MergeNames, Advance, WInv
      <3>3. Agree(attrs'[p], args)
        BY <3>1, <3>2, ShownNames DEF Agree
      <3>. QED BY <3>2, <3>3 DEF Gathered
    <2>2. Moved(p)
      BY <1>2 DEF WInv, ProbeChild, MergeNames, Advance, Moved
    <2>. QED BY <1>0, <2>1, <2>2, ProbeWhole
  <1>3. ASSUME NEW p \in Caller, ProbePath(p) PROVE WInv'
    <2>1. cmd[p] \in Served => Gathered(p)'
      <3>. SUFFICES ASSUME cmd[p] \in Served PROVE Gathered(p)'
        OBVIOUS
      <3>1. /\ cmd'[p] = cmd[p] /\ pc'[p] = "completion" /\ attrs'[p] = attrs[p]
            /\ hasVerb'[p]
        BY <1>3, MenuAssumption DEF ProbePath, Swallowed, Advance, WInv
      <3>2. Agree(attrs[p], ArgumentNames(ChildNodes[cmd[p]]))
        BY <1>3 DEF ProbePath, WInv, Gathered
      <3>. QED BY <3>1, <3>2 DEF Gathered
    <2>2. Moved(p)
      BY <1>3 DEF WInv, ProbePath, Advance, Moved
    <2>. QED BY <1>0, <2>1, <2>2, ProbeWhole
  <1>4. ASSUME NEW p \in Caller, ProbeCompletion(p) PROVE WInv'
    <2>1. cmd[p] \in Served => Gathered(p)'
      <3>. SUFFICES ASSUME cmd[p] \in Served PROVE Gathered(p)'
        OBVIOUS
      <3>. DEFINE args == ArgumentNames(ChildNodes[cmd[p]])
                  extra == UsableNames(ExtraRows[cmd[p]])
      <3>1. Agree(attrs[p], args) /\ hasVerb[p]
        BY <1>4 DEF ProbeCompletion, WInv, Gathered
      <3>2. /\ cmd'[p] = cmd[p] /\ hasVerb'[p]
            /\ pc'[p] = IF cmd[p] \in FieldVerb THEN "field" ELSE "categorize"
            /\ attrs'[p] = attrs[p] \cup Shown(cmd[p], extra)
        BY <1>4, <3>1 DEF ProbeCompletion, Swallowed, MergeNames, Advance,
                             HasFields, WInv
      <3>3. Agree(attrs'[p], args \cup extra)
        BY <3>1, <3>2, ShownNames DEF Agree
      <3>. QED BY <3>2, <3>3 DEF Gathered, AllNames
    <2>2. Moved(p)
      BY <1>4 DEF WInv, ProbeCompletion, MergeNames, Advance, Moved
    <2>. QED BY <1>0, <2>1, <2>2, ProbeWhole
  <1>5. ASSUME NEW p \in Caller, ProbeField(p) PROVE WInv'
    <2>1. cmd[p] \in Served => Gathered(p)'
      <3>. SUFFICES ASSUME cmd[p] \in Served PROVE Gathered(p)'
        OBVIOUS
      <3>. DEFINE found == ArgumentNames(ChildNodes[cmd[p]])
                           \cup UsableNames(ExtraRows[cmd[p]])
                  fields == UsableNames(FieldRows[cmd[p]])
      <3>1. Agree(attrs[p], found) /\ hasVerb[p] /\ cmd[p] \in FieldVerb
        BY <1>5 DEF ProbeField, WInv, Gathered
      <3>2. /\ cmd'[p] = cmd[p] /\ hasVerb'[p] /\ pc'[p] = "categorize"
            /\ attrs'[p] = attrs[p] \cup Shown(cmd[p], fields)
        BY <1>5, <3>1 DEF ProbeField, Swallowed, MergeNames, Advance, WInv
      <3>3. Agree(attrs'[p], found \cup fields)
        BY <3>1, <3>2, ShownNames DEF Agree
      <3>4. AllNames(cmd[p]) = found \cup fields
        BY <3>1 DEF AllNames
      <3>. QED BY <3>2, <3>3, <3>4 DEF Gathered
    <2>2. Moved(p)
      BY <1>5 DEF WInv, ProbeField, MergeNames, Advance, Moved
    <2>. QED BY <1>0, <2>1, <2>2, ProbeWhole
  <1>6. ASSUME NEW p \in Caller, ProbeFails(p) PROVE WInv'
    <2>1. CacheWhole'
      BY <1>6 DEF ProbeFails, WInv, CacheWhole
    <2>. QED BY <1>0, <1>6, <2>1, FinishWhole DEF ProbeFails
  <1>7. ASSUME NEW p \in Caller, Categorize(p) PROVE WInv'
    <2>1. cmd[p] \in Served => Gathered(p)'
      <3>. SUFFICES ASSUME cmd[p] \in Served PROVE Gathered(p)'
        OBVIOUS
      <3>1. Agree(attrs[p], AllNames(cmd[p]))
        BY <1>7 DEF Categorize, WInv, Gathered
      <3>2. /\ cmd'[p] = cmd[p] /\ pc'[p] = "put"
            /\ sch'[p].names = attrs[p] /\ sch'[p].source = "inspect"
        BY <1>7 DEF Categorize, Advance, WInv
      <3>. QED BY <3>1, <3>2 DEF Gathered
    <2>2. Moved(p)
      BY <1>7 DEF WInv, Categorize, Advance, Moved
    <2>. QED BY <1>0, <2>1, <2>2, ProbeWhole
  <1>8. ASSUME NEW p \in Caller, DiscoverPut(p) PROVE WInv'
    <2>1. CacheWhole'
      <3>1. cmd[p] \in Served => /\ sch[p].source = "inspect"
                                 /\ Agree(sch[p].names, AllNames(cmd[p]))
        BY <1>8 DEF DiscoverPut, WInv, Gathered
      <3>. QED BY <1>8, <3>1 DEF DiscoverPut, Store, WInv, CacheWhole, Agree
    <2>. QED BY <1>0, <1>8, <2>1, FinishWhole DEF DiscoverPut
  <1>9. ASSUME UNCHANGED callVars, CacheWhole' PROVE WInv'
    BY <1>0, <1>9 DEF callVars, WInv, Fresh, Gathered
  <1>10. ASSUME NEW c, NEW category, RegisterCategory(c, category) PROVE WInv'
    <2>1. CacheWhole'
      BY <1>10 DEF RegisterCategory, WInv, CacheWhole
    <2>. QED BY <1>9, <1>10, <2>1 DEF RegisterCategory
  <1>11. CASE RegisterEvict
    <2>1. CacheWhole'
      BY <1>11 DEF RegisterEvict, Evict, WInv, CacheWhole
    <2>. QED BY <1>9, <1>11, <2>1 DEF RegisterEvict
  <1>12. ASSUME NEW cs, CacheClear(cs) PROVE WInv'
    <2>1. CacheWhole'
      BY <1>12, StoreAssumption DEF CacheClear, WInv, CacheWhole
    <2>. QED BY <1>9, <1>12, <2>1 DEF CacheClear
  <1>13. CASE Tick \/ Grow \/ UNCHANGED vars
    <2>1. UNCHANGED entries /\ UNCHANGED callVars
      BY <1>13 DEF Tick, Grow, vars
    <2>2. CacheWhole'
      BY <2>1 DEF WInv, CacheWhole
    <2>. QED BY <1>9, <2>1, <2>2
  <1>. QED BY <1>1, <1>2, <1>3, <1>4, <1>5, <1>6, <1>7, <1>8, <1>10, <1>11, <1>12,
              <1>13 DEF Next

\* Whatever fails on the way, what the cache holds of a command the device has
\* is complete, so that Gate 2 rejects no attribute for a probe that failed.
THEOREM CachedSchemasWhole ==
    ASSUME ~MayTrap PROVE Spec => []CacheWhole
  <1>1. WInv => CacheWhole
    BY DEF WInv
  <1>. QED BY <1>1, InitWhole, StepWhole, PTL DEF Spec

-----------------------------------------------------------------------------
(* Overrides hold, with no condition on when they are registered.  What is *)
(* about to be stored obeys them, unless it was chosen before the last     *)
(* RegisterCategory of the command, or inspect could not resolve it.       *)

\* A schema of c obeys the override of c.
Obeys(s, c) == overrides[c] # None =>
                   s.category = overrides[c] \/ s.source = "inspect-failed"

OInv ==
    /\ TInv
    /\ OverrideHolds
    /\ \A p \in Caller : pc[p] = "put" /\ cmd[p] \notin raced => Obeys(sch[p], cmd[p])

LEMMA InitOverrides == Init => OInv
  <1>. SUFFICES ASSUME Init PROVE OInv
    OBVIOUS
  <1>1. /\ \A c \in Cmd : overrides[c] = None
        /\ \A p \in Caller : pc[p] = "idle"
    BY DEF Init
  <1>. QED BY <1>1, InitTypes DEF OInv, OverrideHolds

\* A step within a Discover that leaves it with an obedient schema, if with any.
LEMMA ProbeObeys ==
    ASSUME OInv, TInv', NEW p \in Caller, UNCHANGED <<entries, regVars, cmd>>,
           \A q \in Caller : q # p => pc'[q] = pc[q] /\ sch'[q] = sch[q],
           pc'[p] = "put" => Obeys(sch[p], cmd[p])'
    PROVE  OInv'
  <1>1. OverrideHolds'
    BY DEF OInv, OverrideHolds, regVars
  <1>2. ASSUME NEW q \in Caller, pc'[q] = "put", cmd'[q] \notin raced'
        PROVE  Obeys(sch[q], cmd[q])'
    <2>1. CASE q = p
      BY <1>2, <2>1
    <2>2. CASE q # p
      BY <1>2, <2>2 DEF OInv, Obeys, regVars
    <2>. QED BY <2>1, <2>2
  <1>. QED BY <1>1, <1>2 DEF OInv

\* So does a step that stores nothing and registers nothing.
LEMMA DropObeys ==
    ASSUME OInv, TInv', UNCHANGED regVars,
           \A c \in Cmd : entries'[c] = None \/ entries'[c] = entries[c],
           \A q \in Caller : pc'[q] = "put" =>
               pc[q] = "put" /\ sch'[q] = sch[q] /\ cmd'[q] = cmd[q]
    PROVE  OInv'
  BY DEF OInv, OverrideHolds, Obeys, regVars

\* Every step keeps the overrides in force.
LEMMA StepOverrides == OInv /\ [Next]_vars => OInv'
  <1>. SUFFICES ASSUME OInv, [Next]_vars PROVE OInv'
    OBVIOUS
  <1>0. TInv'
    BY StepTypes DEF OInv
  <1>. USE DEF TInv, TypeOK, PC
  <1>1. ASSUME NEW p \in Caller, NEW c \in Cmd, DiscoverStart(p, c) PROVE OInv'
    <2>1. \A d \in Cmd : entries'[d] = None \/ entries'[d] = entries[d]
      BY <1>1 DEF DiscoverStart, Evict, OInv
    <2>2. \A q \in Caller : pc'[q] = "put" =>
              pc[q] = "put" /\ sch'[q] = sch[q] /\ cmd'[q] = cmd[q]
      BY <1>1 DEF DiscoverStart, Finish, Advance, OInv
    <2>3. UNCHANGED regVars
      BY <1>1 DEF DiscoverStart
    <2>. QED BY <1>0, <2>1, <2>2, <2>3, DropObeys
  <1>2. ASSUME NEW p \in Caller, ProbeChild(p) PROVE OInv'
    <2>1. pc'[p] = "put" => sch'[p].source = "inspect-failed"
      BY <1>2 DEF ProbeChild, Advance, OInv
    <2>2. \A q \in Caller : q # p => pc'[q] = pc[q] /\ sch'[q] = sch[q]
      BY <1>2 DEF ProbeChild, Advance, OInv
    <2>3. UNCHANGED <<entries, regVars, cmd>>
      BY <1>2 DEF ProbeChild
    <2>. QED BY <1>0, <2>1, <2>2, <2>3, ProbeObeys DEF Obeys
  <1>3. ASSUME NEW p \in Caller, ProbePath(p) \/ ProbeCompletion(p) \/ ProbeField(p)
        PROVE  OInv'
    <2>1. pc'[p] # "put" /\ UNCHANGED <<entries, regVars, cmd, sch>>
      BY <1>3 DEF ProbePath, ProbeCompletion, ProbeField, Advance, OInv
    <2>2. \A q \in Caller : q # p => pc'[q] = pc[q]
      BY <1>3 DEF ProbePath, ProbeCompletion, ProbeField, Advance, OInv
    <2>. QED BY <1>0, <2>1, <2>2, ProbeObeys
  <1>4. ASSUME NEW p \in Caller, ProbeFails(p) PROVE OInv'
    <2>1. \A q \in Caller : pc'[q] = "put" =>
              pc[q] = "put" /\ sch'[q] = sch[q] /\ cmd'[q] = cmd[q]
      BY <1>4 DEF ProbeFails, Finish, OInv
    <2>. QED BY <1>0, <1>4, <2>1, DropObeys DEF ProbeFails
  <1>5. ASSUME NEW p \in Caller, Categorize(p) PROVE OInv'
    <2>1. overrides[cmd[p]] # None => sch'[p].category = overrides[cmd[p]]
      BY <1>5 DEF Categorize, Categorized, OInv
    <2>2. \A q \in Caller : q # p => pc'[q] = pc[q] /\ sch'[q] = sch[q]
      BY <1>5 DEF Categorize, Advance, OInv
    <2>3. UNCHANGED <<entries, regVars, cmd>>
      BY <1>5 DEF Categorize
    <2>4. Obeys(sch[p], cmd[p])'
      BY <2>1, <2>3 DEF Obeys, regVars
    <2>. QED BY <1>0, <2>2, <2>3, <2>4, ProbeObeys
  <1>6. ASSUME NEW p \in Caller, DiscoverPut(p) PROVE OInv'
    <2>1. OverrideHolds'
      <3>1. cmd[p] \notin raced => Obeys(sch[p], cmd[p])
        BY <1>6 DEF DiscoverPut, OInv
      <3>. QED BY <1>6, <3>1 DEF DiscoverPut, Store, OInv, OverrideHolds, Obeys, regVars
    <2>2. \A q \in Caller : pc'[q] = "put" =>
              pc[q] = "put" /\ sch'[q] = sch[q] /\ cmd'[q] = cmd[q]
      BY <1>6 DEF DiscoverPut, Finish, OInv
    <2>3. UNCHANGED regVars
      BY <1>6 DEF DiscoverPut
    <2>. QED BY <1>0, <2>1, <2>2, <2>3 DEF OInv, Obeys, regVars
  <1>7. ASSUME NEW c \in Overridable, NEW category \in Registrable,
               RegisterCategory(c, category)
        PROVE  OInv'
    <2>1. /\ overrides' = [overrides EXCEPT ![c] = category] /\ rpc' = c
          /\ rpc = None /\ UNCHANGED <<entries, pc, cmd, sch>>
      BY <1>7 DEF RegisterCategory, callVars
    <2>2. raced' = IF \E p \in Caller : pc[p] = "put" /\ cmd[p] = c
                   THEN raced \cup {c} ELSE raced \ {c}
      BY <1>7 DEF RegisterCategory
    <2>3. \A d \in Cmd : d # c =>
              overrides'[d] = overrides[d] /\ (d \in raced' <=> d \in raced)
      BY <2>1, <2>2 DEF OInv
    <2>4. OverrideHolds'
      BY <2>1, <2>3, NoneAssumption DEF OInv, OverrideHolds
    <2>5. ASSUME NEW q \in Caller, pc'[q] = "put", cmd'[q] \notin raced'
          PROVE  Obeys(sch[q], cmd[q])'
      <3>1. pc[q] = "put" /\ cmd[q] \in Cmd /\ cmd[q] # c
        BY <2>1, <2>2, <2>5 DEF OInv
      <3>. QED BY <2>1, <2>3, <2>5, <3>1 DEF OInv, Obeys
    <2>. QED BY <1>0, <2>4, <2>5 DEF OInv
  <1>8. CASE RegisterEvict
    <2>1. /\ entries' = [entries EXCEPT ![rpc] = None]
          /\ UNCHANGED <<overrides, raced, pc, cmd, sch>>
      BY <1>8 DEF RegisterEvict, Evict, callVars
    <2>2. OverrideHolds'
      BY <1>8, <2>1 DEF RegisterEvict, OInv, OverrideHolds
    <2>. QED BY <1>0, <2>1, <2>2 DEF OInv, Obeys
  <1>9. ASSUME NEW cs, CacheClear(cs) PROVE OInv'
    <2>1. \A c \in Cmd : entries'[c] = None \/ entries'[c] = entries[c]
      BY <1>9 DEF CacheClear
    <2>. QED BY <1>0, <1>9, <2>1, DropObeys DEF CacheClear, callVars
  <1>10. CASE Tick \/ Grow \/ UNCHANGED vars
    <2>1. UNCHANGED <<entries, regVars, callVars>>
      BY <1>10 DEF Tick, Grow, vars
    <2>. QED BY <1>0, <2>1, DropObeys DEF callVars
  <1>. QED BY <1>1, <1>2, <1>3, <1>4, <1>5, <1>6, <1>7, <1>8, <1>9, <1>10 DEF Next

\* RegisterCategory takes effect when it returns, for every caller, command and
\* moment of registration: what the cache holds then and later shows the
\* registered category, save what inspect could not resolve and what a Discover
\* stores that had already looked at the overrides.
THEOREM OverridesInForce == Spec => []OverrideHolds
  <1>1. OInv => OverrideHolds
    BY DEF OInv
  <1>. QED BY <1>1, InitOverrides, StepOverrides, PTL DEF Spec

-----------------------------------------------------------------------------
(* Only attributes are cached, whatever fields the build fills, as long as *)
(* a text beside a name is a description.                                  *)

\* namesOfArgumentNodes finds attributes.
LEMMA ArgumentNamesHonest ==
    ASSUME HonestRows, NEW c \in Served
    PROVE  ArgumentNames(ChildNodes[c]) \subseteq Attrs[c]
  BY DEF HonestRows, ArgumentNames

\* So does usableCompletionNames.
LEMMA UsableNamesHonest ==
    ASSUME HonestRows, NEW c \in Served, NEW rows,
           rows = ExtraRows[c] \/ rows = FieldRows[c]
    PROVE  UsableNames(rows) \subseteq Attrs[c]
  <1>1. SUFFICES ASSUME NEW t \in ExtractCompletionNames(rows), t \notin Structural
                 PROVE  t \in Attrs[c]
    BY DEF UsableNames
  <1>2. PICK v \in UNION {Picked(r) : r \in rows} : t = BeforeEq[v] /\ t # None
    BY <1>1 DEF ExtractCompletionNames
  <1>3. PICK r \in rows : v \in Picked(r)
    BY <1>2
  <1>4. HonestRow(c, r)
    BY <1>3 DEF HonestRows
  <1>5. BeforeEq[v] \in Attrs[c] \cup Structural \cup {None}
    <2>1. CASE {r.completion, r.name, r.value} \ {None} # {}
      BY <1>3, <1>4, <2>1 DEF Picked, HonestRow
    <2>2. CASE {r.completion, r.name, r.value} \ {None} = {}
      BY <1>3, <1>4, <2>2 DEF Picked, HonestRow
    <2>. QED BY <2>1, <2>2
  <1>. QED BY <1>1, <1>2, <1>5

\* A probe of a command finds some of its attributes.
LEMMA ProbesHonest ==
    ASSUME HonestRows, NEW c \in Cmd
    PROVE  /\ Shown(c, ArgumentNames(ChildNodes[c])) \subseteq Attrs[c]
           /\ Shown(c, UsableNames(ExtraRows[c])) \subseteq Attrs[c]
           /\ Shown(c, UsableNames(FieldRows[c])) \subseteq Attrs[c]
  <1>1. CASE c \in Served
    BY <1>1, ArgumentNamesHonest, UsableNamesHonest, ShownNames
  <1>2. CASE c \notin Served
    BY <1>2 DEF Shown
  <1>. QED BY <1>1, <1>2

\* What a Discover has found, and what it is about to store, are attributes.
Honest(p) == /\ attrs[p] \subseteq (IF pc[p] = "idle" THEN {} ELSE Attrs[cmd[p]])
             /\ pc[p] = "put" => sch[p].names \subseteq Attrs[cmd[p]]

AInv == TInv /\ OnlyAttributes /\ \A p \in Caller : Honest(p)

LEMMA InitAttributes == Init => AInv
  BY InitTypes DEF Init, AInv, OnlyAttributes, Honest

\* Every step keeps what is not an attribute out.
LEMMA StepAttributes ==
    ASSUME HonestRows PROVE AInv /\ [Next]_vars => AInv'
  <1>. SUFFICES ASSUME AInv, [Next]_vars PROVE AInv'
    OBVIOUS
  <1>0. TInv'
    BY StepTypes DEF AInv
  <1>. USE DEF AInv, TInv, TypeOK, PC
  <1>1. ASSUME NEW p \in Caller, NEW c \in Cmd, DiscoverStart(p, c) PROVE AInv'
    <2>1. OnlyAttributes'
      BY <1>1 DEF DiscoverStart, Evict, OnlyAttributes
    <2>2. ASSUME NEW q \in Caller PROVE Honest(q)'
      <3>1. CASE q = p
        BY <1>1, <3>1 DEF DiscoverStart, Finish, Advance, Honest
      <3>2. CASE q # p
        BY <1>1, <3>2 DEF DiscoverStart, Finish, Advance, Honest
      <3>. QED BY <3>1, <3>2
    <2>. QED BY <1>0, <2>1, <2>2
  <1>2. ASSUME NEW p \in Caller, Moved(p), Honest(p)' PROVE AInv'
    BY <1>0, <1>2 DEF Moved, OnlyAttributes, Honest
  <1>3. ASSUME NEW p \in Caller, ProbeChild(p) PROVE AInv'
    <2>1. Moved(p)
      BY <1>3 DEF ProbeChild, MergeNames, Advance, Moved
    <2>2. Honest(p)'
      BY <1>3, ProbesHonest DEF ProbeChild, MergeNames, Advance, Honest
    <2>. QED BY <1>2, <2>1, <2>2
  <1>4. ASSUME NEW p \in Caller, ProbePath(p) PROVE AInv'
    BY <1>2, <1>4 DEF ProbePath, Advance, Moved, Honest
  <1>5. ASSUME NEW p \in Caller, ProbeCompletion(p) PROVE AInv'
    <2>1. Moved(p)
      BY <1>5 DEF ProbeCompletion, MergeNames, Advance, Moved
    <2>2. Honest(p)'
      BY <1>5, ProbesHonest DEF ProbeCompletion, MergeNames, Advance, Honest
    <2>. QED BY <1>2, <2>1, <2>2
  <1>6. ASSUME NEW p \in Caller, ProbeField(p) PROVE AInv'
    <2>1. Moved(p)
      BY <1>6 DEF ProbeField, MergeNames, Advance, Moved
    <2>2. Honest(p)'
      BY <1>6, ProbesHonest DEF ProbeField, MergeNames, Advance, Honest
    <2>. QED BY <1>2, <2>1, <2>2
  <1>7. ASSUME NEW p \in Caller, ProbeFails(p) PROVE AInv'
    BY <1>0, <1>7 DEF ProbeFails, Finish, OnlyAttributes, Honest
  <1>8. ASSUME NEW p \in Caller, Categorize(p) PROVE AInv'
    <2>1. Moved(p)
      BY <1>8 DEF Categorize, Advance, Moved
    <2>2. Honest(p)'
      BY <1>8 DEF Categorize, Advance, Honest
    <2>. QED BY <1>2, <2>1, <2>2
  <1>9. ASSUME NEW p \in Caller, DiscoverPut(p) PROVE AInv'
    <2>1. OnlyAttributes'
      BY <1>9 DEF DiscoverPut, Store, OnlyAttributes, Honest
    <2>2. ASSUME NEW q \in Caller PROVE Honest(q)'
      BY <1>9 DEF DiscoverPut, Finish, Honest
    <2>. QED BY <1>0, <2>1, <2>2
  <1>10. ASSUME UNCHANGED callVars,
                \A c \in Cmd : entries'[c] = None \/ entries'[c] = entries[c]
         PROVE  AInv'
    BY <1>0, <1>10 DEF callVars, OnlyAttributes, Honest
  <1>11. ASSUME NEW c, NEW category, RegisterCategory(c, category) PROVE AInv'
    BY <1>10, <1>11 DEF RegisterCategory
  <1>12. CASE RegisterEvict
    BY <1>10, <1>12 DEF RegisterEvict, Evict
  <1>13. ASSUME NEW cs, CacheClear(cs) PROVE AInv'
    BY <1>10, <1>13 DEF CacheClear
  <1>14. CASE Tick \/ Grow \/ UNCHANGED vars
    BY <1>10, <1>14 DEF Tick, Grow, vars
  <1>. QED BY <1>1, <1>3, <1>4, <1>5, <1>6, <1>7, <1>8, <1>9, <1>11, <1>12, <1>13,
              <1>14 DEF Next

\* Gate 2 takes every name of a cached schema for an attribute, and it is one:
\* neither a description, nor punctuation, nor a command on the way is cached.
THEOREM OnlyAttributesCached ==
    ASSUME HonestRows PROVE Spec => []OnlyAttributes
  <1>1. AInv => OnlyAttributes
    BY DEF AInv
  <1>. QED BY <1>1, InitAttributes, StepAttributes, PTL DEF Spec

-----------------------------------------------------------------------------
(* Growth is noticed.  A cached schema either has all the attributes, or   *)
(* expires at the latest TTL after the device gained what it lacks; a      *)
(* Discover that began before, and may have missed it, ends at that time.  *)

\* The device shows all it has since it has grown.
Current(p) ==
    LET c == cmd[p]
        args == ArgumentNames(ChildNodes[c])
        extra == args \cup UsableNames(ExtraRows[c])
    IN  /\ pc[p] \in {"path", "completion"} => args \subseteq attrs[p]
        /\ pc[p] = "field" => extra \subseteq attrs[p]
        /\ pc[p] = "categorize" => AllNames(c) \subseteq attrs[p]
        /\ pc[p] = "put" => AllNames(c) \subseteq sch[p].names

Lasts(c) == \/ AllNames(c) \subseteq entries[c].names
            \/ grownAt = None /\ expires[c] <= now + TTL
            \/ grownAt # None /\ expires[c] <= grownAt + TTL

Noticed ==
    /\ grownAt # None => grownAt <= now
    /\ \A c \in Served : entries[c] # None => Lasts(c)
    /\ \A p \in Caller : cmd[p] \in Served =>
           \/ grownAt = None
           \/ grownAt = now
           \/ Current(p)

NInv == WInv /\ Noticed

\* A step within a Discover: what it has found since the growth is complete.
LEMMA ProbeNoticed ==
    ASSUME NInv, WInv', NEW p \in Caller, Moved(p), UNCHANGED <<expires, timeVars>>,
           cmd[p] \in Served /\ grownAt # None /\ grownAt # now /\ Current(p)
               => Current(p)'
    PROVE  NInv'
  <1>1. \A c \in Served : Lasts(c)' <=> Lasts(c)
    BY DEF Moved, Lasts, timeVars
  <1>2. ASSUME NEW q \in Caller, cmd'[q] \in Served, grownAt' # None, grownAt' # now'
        PROVE  Current(q)'
    <2>1. cmd'[q] = cmd[q] /\ Current(q)
      BY <1>2 DEF Moved, NInv, Noticed, timeVars
    <2>2. CASE q = p
      BY <1>2, <2>1, <2>2 DEF timeVars
    <2>3. CASE q # p
      BY <2>1, <2>3 DEF Moved, Current
    <2>. QED BY <2>2, <2>3
  <1>. QED BY <1>1, <1>2 DEF NInv, Noticed, Moved, timeVars

\* Every step keeps what lacks the gained names from living on.
LEMMA StepNoticed ==
    ASSUME ~MayTrap PROVE NInv /\ [Next]_vars => NInv'
  <1>. SUFFICES ASSUME NInv, [Next]_vars PROVE NInv'
    OBVIOUS
  <1>0. WInv'
    BY StepWhole DEF NInv
  <1>. USE DEF WInv, TInv, TypeOK, PC, timeVars
  <1>a. \A c \in Served : c \in Cmd /\ c # None /\ ~Swallowed(c)
    BY StoreAssumption, NoneAssumption DEF Swallowed
  <1>b. TTL \in Nat /\ now \in Nat /\ (grownAt # None => grownAt \in Nat)
    BY StoreAssumption DEF NInv
  <1>c. ASSUME NEW c \in Served, NEW ns, grownAt # None PROVE Shown(c, ns) = ns
    BY <1>c DEF Shown
  <1>1. ASSUME NEW p \in Caller, NEW c \in Cmd, DiscoverStart(p, c) PROVE NInv'
    <2>1. \A d \in Served : entries'[d] # None => entries[d] # None /\ (Lasts(d)' <=> Lasts(d))
      <3>1. ASSUME NEW d \in Served, entries'[d] # None PROVE entries'[d] = entries[d]
        BY <1>1, <1>a, <3>1 DEF DiscoverStart, Evict, NInv
      <3>. QED BY <1>1, <3>1 DEF DiscoverStart, Lasts
    <2>2. ASSUME NEW q \in Caller, cmd'[q] \in Served, grownAt # None, grownAt # now
          PROVE  Current(q)'
      <3>1. CASE q = p
        BY <1>1, <2>2, <3>1, <1>a DEF DiscoverStart, Finish, Advance, Current, NInv
      <3>2. CASE q # p
        BY <1>1, <2>2, <3>2 DEF DiscoverStart, Finish, Advance, Current, NInv, Noticed
      <3>. QED BY <3>1, <3>2
    <2>. QED BY <1>0, <1>1, <2>1, <2>2 DEF DiscoverStart, NInv, Noticed
  <1>2. ASSUME NEW p \in Caller, ProbeChild(p) PROVE NInv'
    <2>1. Moved(p) /\ UNCHANGED <<expires, timeVars>>
      BY <1>2 DEF NInv, ProbeChild, MergeNames, Advance, Moved
    <2>2. ASSUME cmd[p] \in Served, grownAt # None PROVE Current(p)'
      BY <1>2, <1>a, <1>c, <2>2 DEF NInv, ProbeChild, MergeNames, Advance, Current
    <2>. QED BY <1>0, <2>1, <2>2, ProbeNoticed
  <1>3. ASSUME NEW p \in Caller, ProbePath(p) PROVE NInv'
    <2>1. Moved(p) /\ UNCHANGED <<expires, timeVars>>
      BY <1>3 DEF NInv, ProbePath, Advance, Moved
    <2>2. ASSUME Current(p) PROVE Current(p)'
      BY <1>3, <2>2 DEF NInv, ProbePath, Advance, Current
    <2>. QED BY <1>0, <2>1, <2>2, ProbeNoticed
  <1>4. ASSUME NEW p \in Caller, ProbeCompletion(p) PROVE NInv'
    <2>1. Moved(p) /\ UNCHANGED <<expires, timeVars>>
      BY <1>4 DEF NInv, ProbeCompletion, MergeNames, Advance, Moved
    <2>2. ASSUME cmd[p] \in Served, grownAt # None, Current(p) PROVE Current(p)'
      <3>1. hasVerb[p]
        BY <1>4, <2>2 DEF ProbeCompletion, NInv, Gathered
      <3>2. /\ cmd'[p] = cmd[p]
            /\ pc'[p] = IF cmd[p] \in FieldVerb THEN "field" ELSE "categorize"
            /\ attrs'[p] = attrs[p] \cup UsableNames(ExtraRows[cmd[p]])
        BY <1>4, <1>a, <1>c, <2>2, <3>1
        DEF ProbeCompletion, MergeNames, Advance, HasFields, NInv
      <3>3. ArgumentNames(ChildNodes[cmd[p]]) \subseteq attrs[p]
        BY <1>4, <2>2 DEF ProbeCompletion, Current
      <3>. QED BY <3>2, <3>3 DEF Current, AllNames
    <2>. QED BY <1>0, <2>1, <2>2, ProbeNoticed
  <1>5. ASSUME NEW p \in Caller, ProbeField(p) PROVE NInv'
    <2>1. Moved(p) /\ UNCHANGED <<expires, timeVars>>
      BY <1>5 DEF NInv, ProbeField, MergeNames, Advance, Moved
    <2>2. ASSUME cmd[p] \in Served, grownAt # None, Current(p) PROVE Current(p)'
      <3>1. /\ cmd'[p] = cmd[p] /\ pc'[p] = "categorize"
            /\ attrs'[p] = attrs[p] \cup UsableNames(FieldRows[cmd[p]])
        BY <1>5, <1>a, <1>c, <2>2 DEF ProbeField, MergeNames, Advance, NInv
      <3>. QED BY <1>5, <2>2, <3>1 DEF ProbeField, Current, AllNames
    <2>. QED BY <1>0, <2>1, <2>2, ProbeNoticed
  <1>6. ASSUME NEW p \in Caller, NEW result, Finish(p, result), UNCHANGED timeVars,
               \A c \in Served : entries'[c] # None => Lasts(c)'
        PROVE  NInv'
    <2>1. ASSUME NEW q \in Caller, cmd'[q] \in Served, grownAt # None, grownAt # now
          PROVE  Current(q)'
      <3>1. CASE q = p
        BY <1>6, <2>1, <3>1, <1>a DEF Finish, NInv
      <3>2. CASE q # p
        BY <1>6, <2>1, <3>2 DEF Finish, Current, NInv, Noticed
      <3>. QED BY <3>1, <3>2
    <2>. QED BY <1>0, <1>6, <2>1 DEF NInv, Noticed
  <1>7. ASSUME NEW p \in Caller, ProbeFails(p) PROVE NInv'
    BY <1>6, <1>7 DEF ProbeFails, NInv, Noticed, Lasts
  <1>8. ASSUME NEW p \in Caller, Categorize(p) PROVE NInv'
    <2>1. Moved(p) /\ UNCHANGED <<expires, timeVars>>
      BY <1>8 DEF NInv, Categorize, Advance, Moved
    <2>2. ASSUME Current(p) PROVE Current(p)'
      BY <1>8, <2>2 DEF NInv, Categorize, Advance, Current
    <2>. QED BY <1>0, <2>1, <2>2, ProbeNoticed
  <1>9. ASSUME NEW p \in Caller, DiscoverPut(p) PROVE NInv'
    <2>1. ASSUME NEW c \in Served, entries'[c] # None PROVE Lasts(c)'
      <3>1. CASE c = cmd[p]
        <4>1. entries'[c] = sch[p] /\ expires'[c] = now + TTL /\ UNCHANGED timeVars
          BY <1>9, <3>1, <1>a DEF DiscoverPut, Store, NInv
        <4>2. grownAt = None \/ grownAt = now \/ AllNames(c) \subseteq sch[p].names
          BY <1>9, <3>1 DEF DiscoverPut, NInv, Noticed, Current
        <4>. QED BY <4>1, <4>2, <1>b DEF Lasts
      <3>2. CASE c # cmd[p]
        BY <1>9, <2>1, <3>2 DEF DiscoverPut, Store, NInv, Noticed, Lasts
      <3>. QED BY <3>1, <3>2
    <2>. QED BY <1>6, <1>9, <2>1 DEF DiscoverPut
  <1>10. ASSUME UNCHANGED <<callVars, expires, timeVars>>,
                \A c \in Cmd : entries'[c] = None \/ entries'[c] = entries[c]
         PROVE  NInv'
    BY <1>0, <1>10, <1>a DEF callVars, NInv, Noticed, Lasts, Current
  <1>11. ASSUME NEW c, NEW category, RegisterCategory(c, category) PROVE NInv'
    BY <1>10, <1>11 DEF RegisterCategory
  <1>12. CASE RegisterEvict
    BY <1>10, <1>12 DEF RegisterEvict, Evict, NInv
  <1>13. ASSUME NEW cs, CacheClear(cs) PROVE NInv'
    BY <1>10, <1>13 DEF CacheClear
  <1>14. CASE Tick
    <2>1. \A p \in Caller : Current(p)'
      BY <1>14 DEF Tick, Discovering, Current, callVars
    <2>2. \A c \in Served : entries[c] # None => Lasts(c)'
      BY <1>14, <1>a, <1>b DEF Tick, NInv, Noticed, Lasts
    <2>. QED BY <1>0, <1>14, <1>b, <2>1, <2>2 DEF Tick, NInv, Noticed
  <1>15. CASE Grow
    <2>1. grownAt' # None
      BY <1>15, <1>b, NoneAssumption DEF Grow
    <2>2. \A c \in Served : entries[c] # None => Lasts(c)'
      BY <1>15, <2>1 DEF Grow, NInv, Noticed, Lasts
    <2>. QED BY <1>0, <1>15, <1>b, <2>1, <2>2 DEF Grow, NInv, Noticed
  <1>16. CASE UNCHANGED vars
    BY <1>10, <1>16 DEF vars
  <1>. QED BY <1>1, <1>2, <1>3, <1>4, <1>5, <1>7, <1>8, <1>9, <1>11, <1>12, <1>13,
              <1>14, <1>15, <1>16 DEF Next

\* Whoever asks more than TTL after the device has gained attributes gets a
\* schema that has them, as long as entries expire at all and no context ends
\* within a probe.
THEOREM GrowthIsNoticed ==
    ASSUME ~MayTrap, TTL > 0, CompleteRows PROVE Spec => GrowthNoticed
  <1>1. Init => NInv
    <2>1. Init => \A p \in Caller : cmd[p] = None
      BY DEF Init
    <2>2. Init => grownAt = None /\ \A c \in Cmd : entries[c] = None
      BY DEF Init
    <2>. QED BY <2>1, <2>2, InitWhole, StoreAssumption, NoneAssumption DEF NInv, Noticed
  <1>2. ASSUME NInv, NEW p \in Caller, NEW c \in Served,
               DiscoverStart(p, c), pc'[p] = "idle",
               grownAt # None, now > grownAt + TTL
        PROVE  Attrs[c] \subseteq ret'[p].names
    <2>1. entries[c] # None /\ ~Expired(c) /\ ret'[p] = entries[c]
      BY <1>2 DEF DiscoverStart, Finish, Advance, NInv, WInv, TInv, TypeOK
    <2>2. now <= expires[c]
      BY <1>2, <2>1, StoreAssumption DEF Expired, NInv, WInv, TInv, TypeOK
    <2>3. AllNames(c) \subseteq entries[c].names
      BY <1>2, <2>1, <2>2, StoreAssumption
      DEF NInv, Noticed, Lasts, WInv, TInv, TypeOK
    <2>. QED BY <2>1, <2>3 DEF CompleteRows
  <1>3. NInv =>
            [\A p \in Caller, c \in Served :
                /\ DiscoverStart(p, c) /\ pc'[p] = "idle"
                /\ grownAt # None /\ now > grownAt + TTL
                /\ ret'[p].source = "inspect"
                => Attrs[c] \subseteq ret'[p].names]_vars
    BY <1>2
  <1>. QED BY <1>1, <1>3, StepNoticed, PTL DEF Spec, GrowthNoticed
=============================================================================
