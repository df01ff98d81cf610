-------------------------------- MODULE Wire --------------------------------
(***************************************************************************)
(* The RouterOS wire format of package proto: sentences of words, each     *)
(* word after a length of one to five bytes, an empty word at the end      *)
(* (proto/writer.go, proto/reader.go).  A writer with its buffer and its   *)
(* sticky error feeds a reader through a stream that may fail a write and  *)
(* go on.                                                                  *)
(*                                                                         *)
(* A word is its kind and its length; on the stream its payload is one     *)
(* element, after the bytes of its length.                                 *)
(***************************************************************************)
EXTENDS Naturals, Sequences

CONSTANTS Sentences,    \* the sentences that are written, sequences of words
          MaxSentences, \* bound on their number
          MayFail,      \* a write to the stream may fail
          None

\* "query" stands for every word that is neither a tag nor a pair.
Kind == {"bang", "tag", "pair", "query"}
Word == [kind : Kind, len : Nat \ {0}]

\* What a length of five bytes can say: less than 2^32.
Encodable == \A s \in Sentences : \A i \in DOMAIN s : s[i].len \div 65536 < 65536

ASSUME WireAssumption ==
    /\ \A s \in Sentences : s \in Seq(Word) /\ s # <<>>
    /\ MaxSentences \in Nat /\ MayFail \in BOOLEAN
    /\ None \notin Word

VARIABLES
    todo,      \* the words of the current sentence still to be written
    buf,       \* the writer's bufio buffer
    werr,      \* writer.err # nil
    wire,      \* bytes and payloads on the stream
    begun,     \* the sentences given to the writer
    result,    \* what EndSentence returned for them: TRUE for nil
    phase,     \* what the reader reads: "first", "more" or "payload"
    need,      \* length bytes still to come
    acc,       \* the length so far
    sen,       \* the sentence being assembled
    received,  \* the sentences ReadSentence has returned
    rerr       \* ReadSentence has returned an error

writerVars == <<todo, buf, werr, begun, result>>
readerVars == <<phase, need, acc, sen, received, rerr>>
vars == <<writerVars, wire, readerVars>>

Byte == [kind : {"byte"}, len : 0 .. 255]
Bytes(s) == [i \in DOMAIN s |-> [kind |-> "byte", len |-> s[i]]]
NoSentence == [word |-> None, tag |-> None, list |-> <<>>]
Sentence == [word : Word \cup {None}, tag : Word \cup {None}, list : Seq(Word)]

TypeOK ==
    /\ todo \in Seq(Word) /\ werr \in BOOLEAN
    /\ buf \in Seq(Byte \cup Word) /\ wire \in Seq(Byte \cup Word)
    /\ begun \in Seq(Sentences) /\ result \in Seq(BOOLEAN)
    /\ Len(result) \in {Len(begun), Len(begun) - 1}
    /\ phase \in {"first", "more", "payload"}
    /\ need \in 0 .. 4 /\ acc \in Nat
    /\ sen \in Sentence /\ received \in Seq(Sentence)
    /\ rerr \in BOOLEAN

Init ==
    /\ todo = <<>> /\ buf = <<>> /\ werr = FALSE /\ wire = <<>>
    /\ begun = <<>> /\ result = <<>>
    /\ phase = "first" /\ need = 0 /\ acc = 0
    /\ sen = NoSentence /\ received = <<>> /\ rerr = FALSE

-----------------------------------------------------------------------------
(* The writer.                                                             *)

\* byte(l >> n), where place is 2^n.
ByteOf(l, place) == (l \div place) % 256

\* The bits of the prefix and of the length are disjoint, so | is +.
EncodeLength(l) ==
    IF l < 128 THEN <<l>>
    ELSE IF l < 16384 THEN <<128 + ByteOf(l, 256), ByteOf(l, 1)>>
    ELSE IF l < 2097152
         THEN <<192 + ByteOf(l, 65536), ByteOf(l, 256), ByteOf(l, 1)>>
    ELSE IF l < 268435456
         THEN <<224 + ByteOf(l, 16777216), ByteOf(l, 65536), ByteOf(l, 256), ByteOf(l, 1)>>
         ELSE <<240, ByteOf(l, 16777216), ByteOf(l, 65536), ByteOf(l, 256), ByteOf(l, 1)>>

\* BeginSentence.
BeginSentence(s) ==
    /\ Len(begun) = Len(result) /\ Len(begun) < MaxSentences
    /\ begun' = Append(begun, s)
    /\ todo' = s
    /\ UNCHANGED <<buf, werr, wire, result, readerVars>>

\* The buffer with more behind it gives its first n elements to the stream,
\* which accepts them (ok) or fails after them.
Push(more, n, ok) ==
    LET all == buf \o more
    IN  /\ n \in 0 .. Len(all)
        /\ wire' = wire \o SubSeq(all, 1, n)
        /\ buf' = SubSeq(all, n + 1, Len(all))
        /\ werr' = ~ok
        /\ ~ok => MayFail

\* Mutant: an error is forgotten with the sentence that met it.
KeepErr_Forgets == werr /\ todo # <<>>

\* Writes are dropped once an error has been kept.
KeepErr == werr

\* WriteWord: bufio passes on what does not fit, and fails if that fails.
WriteWord ==
    LET w == Head(todo)
    IN  /\ todo # <<>>
        /\ todo' = Tail(todo)
        /\ \/ KeepErr /\ UNCHANGED <<buf, wire, werr>>
           \/ /\ ~KeepErr
              /\ \E n \in 0 .. Len(buf) + 6, ok \in BOOLEAN :
                    Push(Append(Bytes(EncodeLength(w.len)), w), n, ok)
        /\ UNCHANGED <<begun, result, readerVars>>

\* Mutant: the sentence stays in the buffer.
Flushed_Never(n) == n = 0

\* Flush passes on everything.
Flushed(n) == n = Len(buf) + 1

\* EndSentence: the empty word, and the flush.
EndSentence ==
    /\ todo = <<>> /\ Len(begun) > Len(result)
    /\ \/ KeepErr /\ UNCHANGED <<buf, wire, werr>>
       \/ /\ ~KeepErr
          /\ \E n \in 0 .. Len(buf) + 1, ok \in BOOLEAN :
                Push(Bytes(EncodeLength(0)), n, ok) /\ (ok => Flushed(n))
    /\ result' = Append(result, ~werr')
    /\ UNCHANGED <<todo, begun, readerVars>>

-----------------------------------------------------------------------------
(* The reader.                                                             *)

\* The length n is known: a word of that length follows, or the sentence ends.
HaveLength(n) ==
    /\ need' = 0 /\ acc' = n
    /\ \/ /\ n = 0
          /\ received' = Append(received, sen)
          /\ sen' = NoSentence
          /\ phase' = "first"
       \/ /\ n > 0
          /\ phase' = "payload"
          /\ UNCHANGED <<received, sen>>

WantMore(n, high) ==
    /\ need' = n /\ acc' = high
    /\ phase' = "more"
    /\ UNCHANGED <<received, sen>>

\* readLength, the first byte.  One above 0xF7 is taken for the length.
ReadFirst ==
    LET b == Head(wire).len
    IN  /\ phase = "first" /\ ~rerr
        /\ wire # <<>> /\ Head(wire) \in Byte
        /\ wire' = Tail(wire)
        /\ \/ (b < 128 \/ b > 247) /\ HaveLength(b)
           \/ b \in 128 .. 191 /\ WantMore(1, b % 64)
           \/ b \in 192 .. 223 /\ WantMore(2, b % 32)
           \/ b \in 224 .. 239 /\ WantMore(3, b % 16)
           \/ b \in 240 .. 247 /\ WantMore(4, 0)
        /\ UNCHANGED <<rerr, writerVars>>

\* readNumber, one byte at a time.
ReadMore ==
    LET n == acc * 256 + Head(wire).len
    IN  /\ phase = "more" /\ ~rerr
        /\ wire # <<>> /\ Head(wire) \in Byte
        /\ wire' = Tail(wire)
        /\ \/ need > 1 /\ WantMore(need - 1, n)
           \/ need = 1 /\ HaveLength(n)
        /\ UNCHANGED <<rerr, writerVars>>

\* Mutant: the reply word is not looked for before the tag and the pairs.
Assembled_TagFirst(s, w) ==
    IF w.kind = "tag" THEN [s EXCEPT !.tag = w]
    ELSE IF w.kind = "pair" THEN [s EXCEPT !.list = Append(@, w)]
    ELSE [s EXCEPT !.word = w]

\* What ReadSentence makes of the next word: the first is the reply word, a
\* tag replaces the one before, pairs are collected, any other is invalid.
Assembled(s, w) ==
    IF s.word = None THEN [s EXCEPT !.word = w]
    ELSE IF w.kind = "tag" THEN [s EXCEPT !.tag = w]
    ELSE IF w.kind = "pair" THEN [s EXCEPT !.list = Append(@, w)]
    ELSE None

\* readWord, and its place in the sentence.
ReadPayload ==
    LET w == Head(wire)
        s == Assembled(sen, w)
    IN  /\ phase = "payload" /\ ~rerr
        /\ wire # <<>> /\ w \in Word /\ w.len = acc
        /\ wire' = Tail(wire)
        /\ phase' = "first" /\ acc' = 0
        /\ sen' = IF s = None THEN NoSentence ELSE s
        /\ rerr' = (s = None)
        /\ UNCHANGED <<need, received, writerVars>>

Read == ReadFirst \/ ReadMore \/ ReadPayload

Next ==
    \/ \E s \in Sentences : BeginSentence(s)
    \/ WriteWord \/ EndSentence \/ Read

\* What is on the stream is read.
Spec == Init /\ [][Next]_vars /\ WF_vars(Read)

-----------------------------------------------------------------------------
(* Properties.                                                             *)

\* The sentence s is made up of the words ws: the first is its reply word, the
\* others are tags and pairs, of which it has the last tag and all the pairs in
\* their order.
MadeOf(ws, s) ==
    LET At(kind) == {i \in 2 .. Len(ws) : ws[i].kind = kind}
    IN  /\ s.word = ws[1]
        /\ 2 .. Len(ws) = At("tag") \cup At("pair")
        /\ \/ At("tag") = {} /\ s.tag = None
           \/ \E i \in At("tag") : s.tag = ws[i] /\ \A j \in At("tag") : j <= i
        /\ \E pos \in [DOMAIN s.list -> At("pair")] :
              /\ \A j, k \in DOMAIN s.list : j < k => pos[j] < pos[k]
              /\ \A i \in At("pair") : \E j \in DOMAIN s.list : pos[j] = i
              /\ \A j \in DOMAIN s.list : s.list[j] = ws[pos[j]]

\* What ReadSentence returns are the sentences written, whole and in order,
\* whatever the lengths of their words: a write that failed half-way is never
\* completed by the words of a later sentence (writer.err, readLength).
RoundTrip ==
    /\ Len(received) <= Len(begun)
    /\ \A i \in DOMAIN received : MadeOf(begun[i], received[i])

\* An EndSentence that returns nil vouches for all sentences before it as well.
NilVouches == \A i, j \in DOMAIN result : i < j /\ result[j] => result[i]

\* A sentence whose EndSentence returned nil arrives, unless the reader met an
\* invalid word (flush, readLength).
AcceptedArrives ==
    \A i \in 1 .. MaxSentences :
        (i \in DOMAIN result /\ result[i]) ~> (Len(received) >= i \/ rerr)
=============================================================================
