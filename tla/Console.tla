-------------------------------- MODULE Console --------------------------------
(***************************************************************************)
(* How a command becomes a console line, how Gate 1 embeds the line in a   *)
(* `:put [:parse "..."]` script, and what it makes of the output           *)
(* (transport/contract.go, gate/gate1.go, transport/ssh/output.go).        *)
(*                                                                         *)
(* A text is a sequence of characters; only those that quoting and         *)
(* splitting tell apart are distinguished.  What the device's parser makes *)
(* of a literal and of a line is external.                                 *)
(***************************************************************************)
EXTENDS Naturals, FiniteSets, SequencesExt

CONSTANTS Quote, Backslash, Tick, Equals, \* the characters that matter
          Blank,   \* a space or a tab
          Newline, \* any other whitespace
          Dollar,  \* `$`, with which the name of a variable starts
          Break,   \* `;`, `[` and the others that end or evaluate a command
          Plain,   \* others
          MaxValue \* bound on the length of the values that are rendered

ASSUME CharAssumption ==
    /\ Quote \notin {Backslash, Tick, Equals, Blank, Newline, Dollar, Break}
    /\ Backslash \notin {Tick, Equals, Blank, Newline, Dollar, Break}
    /\ Tick \notin {Equals, Blank, Newline, Dollar, Break}
    /\ Equals \notin {Blank, Newline, Dollar, Break}
    /\ Blank \notin {Newline, Dollar, Break} /\ Newline \notin {Dollar, Break} /\ Dollar # Break
    /\ Plain \cap {Quote, Backslash, Tick, Equals, Blank, Newline, Dollar, Break} = {}
    /\ IsFiniteSet(Plain) /\ MaxValue \in Nat

Char == {Quote, Backslash, Tick, Equals, Blank, Newline, Dollar, Break} \cup Plain

-----------------------------------------------------------------------------
(* Quoting.                                                                *)

\* strings.ReplaceAll(s, c, "\" + c).
Escape(s, c) ==
    FlattenSeq([i \in DOMAIN s |-> IF s[i] = c THEN <<Backslash, c>> ELSE <<s[i]>>])

Quoted(s) == <<Quote>> \o s \o <<Quote>>

\* Backslashes are escaped first, then quotes.
StringLiteral(s) == Quoted(Escape(Escape(s, Backslash), Quote))

\* Whether the character at i is escaped by the one before it.
Escaped(s) ==
    LET esc[i \in DOMAIN s] == i > 1 /\ s[i-1] = Backslash /\ ~esc[i-1] IN esc

\* The places of c in s that are not escaped.
Unescaped(s, c) ==
    LET esc == Escaped(s) IN {i \in DOMAIN s : s[i] = c /\ ~esc[i]}

Odd(S) == Cardinality(S) % 2 = 1

\* The local check of Gate 1.
HasUnbalancedQuotes(s) == Odd(Unescaped(s, Quote)) \/ Odd(Unescaped(s, Tick))

\* Mutant: a value is quoted for a blank only.
QuoteCLIValue_BlankOnly(v) ==
    IF Contains(v, Blank) THEN Quoted(Escape(v, Quote)) ELSE v

\* A value with a blank or a quote is quoted, and its quotes escaped; any other
\* is left as it is, whatever ends or evaluates a command in it.
QuoteCLIValue(v) ==
    IF Contains(v, Blank) \/ Contains(v, Quote) THEN Quoted(Escape(v, Quote)) ELSE v

-----------------------------------------------------------------------------
(* ConsoleCLI: a command has the words of its menu path and its verb, and  *)
(* its attributes, a function from keys to values.                         *)

Join(words) == FlattenSeq([i \in DOMAIN words |-> IF i = 1 THEN words[i] ELSE <<Blank>> \o words[i]])

\* The code sorts the keys; the device takes them in any order.
ConsoleCLI(c) ==
    LET keys == SetToSeq(DOMAIN c.attrs)
    IN  Join(c.path \o [i \in DOMAIN keys |->
                            keys[i] \o <<Equals>> \o QuoteCLIValue(c.attrs[keys[i]])])

-----------------------------------------------------------------------------
(* The device's parser (external).  A newline ends the input; a `$` stands *)
(* for the value of a variable, also in a literal, and is not kept.        *)

\* Places in order.
InOrder(S) == [n \in 1 .. Cardinality(S) |-> CHOOSE i \in S : Cardinality({j \in S : j <= i}) = n]

\* A text without the characters at the places in drop.
Without(s, drop) ==
    LET kept == InOrder(DOMAIN s \ drop) IN [i \in DOMAIN kept |-> s[kept[i]]]

\* What a text between quotes stands for.
Unescape(s) == Without(s, Unescaped(s, Backslash) \cup Unescaped(s, Dollar))

\* A literal ends at the next quote that is not escaped.
ReadLiteral(s) ==
    LET ends == Unescaped(s, Quote) \ {1}
        end  == CHOOSE i \in ends : \A j \in ends : i <= j
    IN  IF ends = {} \/ Contains(s, Newline) THEN [text |-> <<>>, rest |-> s]
        ELSE [text |-> Unescape(SubSeq(s, 2, end - 1)), rest |-> SubSeq(s, end + 1, Len(s))]

\* The places of c in s outside quotes.
Outside(s, c) ==
    LET quotes == Unescaped(s, Quote)
    IN  {i \in DOMAIN s : s[i] = c /\ ~Odd({q \in quotes : q < i})}

\* The command that a line starts with.
FirstCommand(s) ==
    LET ends == Outside(s, Break) \cup {i \in DOMAIN s : s[i] = Newline}
        end  == CHOOSE i \in ends : \A j \in ends : i <= j
    IN  IF ends = {} THEN s ELSE SubSeq(s, 1, end - 1)

\* The words of a command: it is cut at the blanks outside quotes.
Cut(s) ==
    LET bounds == InOrder(Outside(s, Blank) \cup {0, Len(s) + 1})
    IN  [n \in 1 .. Len(bounds) - 1 |-> SubSeq(s, bounds[n] + 1, bounds[n+1] - 1)]

\* A value is a literal and nothing else, or taken as it is but for variables.
ReadValue(v) ==
    IF v # <<>> /\ v[1] = Quote THEN ReadLiteral(v).text
    ELSE Without(v, {i \in DOMAIN v : v[i] = Dollar})

ReadLine(s) ==
    LET words == Cut(FirstCommand(s))
        isArg(w) == Contains(w, Equals)
        eq(w) == SelectInSeq(w, LAMBDA ch : ch = Equals)
        args == {words[i] : i \in {j \in DOMAIN words : isArg(words[j])}}
        key(w) == SubSeq(w, 1, eq(w) - 1)
        path == InOrder({j \in DOMAIN words : ~isArg(words[j])})
    IN  [path  |-> [i \in DOMAIN path |-> words[path[i]]],
         attrs |-> [k \in {key(w) : w \in args} |->
                       LET w == CHOOSE w \in args : key(w) = k
                       IN  ReadValue(SubSeq(w, eq(w) + 1, Len(w)))]]

-----------------------------------------------------------------------------
(* The output of a script.  Of a line of output only its form matters.     *)

Form == {"blank", "note", "evl", "evl bad parameter", "<% error", "bad parameter", "error"}

\* CleanConsoleOutput drops the blank lines around the others.
CleanConsoleOutput(out) ==
    LET shown == {i \in DOMAIN out : out[i] # "blank"}
    IN  IF shown = {} THEN <<>>
        ELSE SubSeq(out, CHOOSE i \in shown : \A j \in shown : i <= j,
                         CHOOSE i \in shown : \A j \in shown : i >= j)

\* Mutant: "(evl ...)" passes before the errors that are wrapped in it.
Classify_EvlFirst(out) ==
    IF Contains(out, "evl bad parameter") THEN "ok"
    ELSE IF Contains(out, "bad parameter") THEN "attribute"
    ELSE IF Contains(out, "<% error") \/ Contains(out, "error") THEN "syntax" ELSE "ok"

\* The order of the code: wrapped errors first, and what is left is valid.  A
\* pattern is looked for at the start of any line.
Classify(out) ==
    IF Contains(out, "evl bad parameter") THEN "attribute"
    ELSE IF Contains(out, "<% error") THEN "syntax"
    ELSE IF Contains(out, "bad parameter") THEN "attribute"
    ELSE IF Contains(out, "error") THEN "syntax" ELSE "ok"

\* Whether some line of an output says in one of the forms what was parsed.
Recognised(out) == \E i \in DOMAIN out : out[i] \notin {"blank", "note"}

\* What the device prints of a line it has parsed (external): the forms of the
\* builds or something else, with what a console adds.
Echo(judged) ==
    LET forms == CASE judged = "valid"     -> {"evl"}
                   [] judged = "parameter" -> {"evl bad parameter", "bad parameter", "error"}
                   [] judged = "syntax"    -> {"<% error", "error"}
    IN  {<<"blank", "note", f, "blank">> : f \in forms \cup {"note"}}

-----------------------------------------------------------------------------
(* Properties.                                                             *)

ReadsBack(c) ==
    LET line == ConsoleCLI(c)
    IN  /\ ~HasUnbalancedQuotes(line)
        /\ ReadLiteral(StringLiteral(line)) = [text |-> line, rest |-> <<>>]
        /\ ReadLine(line) = c

\* Commands with two attributes, one of them of one character.
CommandsOf(values) ==
    LET key == SeqOf(Plain, 1)
    IN  {c \in [path : {<<k>> : k \in key}, attrs : [key -> values]] :
            \E k \in key : Len(c.attrs[k]) = 1}

\* The values that quoting takes care of: no whitespace but spaces and tabs, no
\* backslash, tick or variable, and what ends or evaluates a command only beside
\* a space, a tab or a quote, for which the value is quoted.
Safe(v) ==
    /\ \A ch \in {Backslash, Tick, Newline, Dollar} : ~Contains(v, ch)
    /\ Contains(v, Break) => Contains(v, Blank) \/ Contains(v, Quote)

\* A command with safe values reaches the parser as it was meant: Gate 1 does
\* not refuse its line, the device reads the literal of the script back as that
\* line, up to its end, and finds in the line the path, the keys and the values
\* of the command, however many of them are quoted (ConsoleCLI, quoteCLIValue,
\* HasUnbalancedQuotes, StringLiteral).
CommandReadsBack ==
    \A c \in CommandsOf({v \in BoundedSeq(Char, MaxValue) : Safe(v)}) : ReadsBack(c)

\* The same of values with any whitespace, which contract.go says are quoted.
WhitespaceReadsBack ==
    \A c \in CommandsOf(BoundedSeq({Blank, Newline, Quote} \cup Plain, MaxValue)) : ReadsBack(c)

\* The same of all values.
AnyCommandReadsBack == \A c \in CommandsOf(BoundedSeq(Char, MaxValue)) : ReadsBack(c)
=============================================================================
