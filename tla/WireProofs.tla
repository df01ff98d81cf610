------------------------------ MODULE WireProofs ------------------------------
(***************************************************************************)
(* That the reader returns the sentences that were written, and that an    *)
(* answer of nil vouches for the sentences before it.                      *)
(*                                                                         *)
(* A cursor <<i, k, o>> is a place in what the writer is to put on the     *)
(* stream: element o of the code of word k of sentence i.  The elements    *)
(* between the reader and the writer are the ones on a walk from the       *)
(* cursor of the one to the cursor of the other.                           *)
(***************************************************************************)
EXTENDS Wire, Integers, TLAPS

-----------------------------------------------------------------------------
(* The length of a word, and its bytes.                                    *)

\* 2^(8n), in the number of bytes that are still to come.
Place(n) ==
    IF n = 0 THEN 1
    ELSE IF n = 1 THEN 256
    ELSE IF n = 2 THEN 65536
    ELSE IF n = 3 THEN 16777216
    ELSE 4294967296

LEMMA ByteFact == \A l, p \in Nat : p > 0 => ByteOf(l, p) \in Nat /\ ByteOf(l, p) < 256
  BY SMT DEF ByteOf

Octet == 0 .. 255

\* What encodeLength makes are bytes.
LEMMA EncodeType ==
    ASSUME NEW l \in Nat
    PROVE  /\ EncodeLength(l) \in Seq(Octet)
           /\ Len(EncodeLength(l)) \in 1 .. 5
  <1>. DEFINE D == Octet
  <1>1. \A x \in Nat : x < 256 => x \in D
    BY SMT DEF Octet
  <1>2. /\ ByteOf(l, 16777216) \in D /\ ByteOf(l, 65536) \in D
        /\ ByteOf(l, 256) \in D /\ ByteOf(l, 1) \in D
    <2>1. \A p \in {16777216, 65536, 256, 1} : ByteOf(l, p) \in D
      <3>. SUFFICES ASSUME NEW p \in {16777216, 65536, 256, 1} PROVE ByteOf(l, p) \in D
        OBVIOUS
      <3>1. p \in Nat /\ p > 0
        BY SMT
      <3>2. ByteOf(l, p) \in Nat /\ ByteOf(l, p) < 256
        BY <3>1, ByteFact, SMT
      <3>. QED BY <3>2, <1>1, SMT
    <2>. QED BY <2>1, SMT
  <1>3. l < 128 => l \in D
    BY SMT DEF Octet
  <1>4. l < 16384 => 128 + ByteOf(l, 256) \in D
    BY SMT DEF ByteOf, Octet
  <1>5. l < 2097152 => 192 + ByteOf(l, 65536) \in D
    BY SMT DEF ByteOf, Octet
  <1>6. l < 268435456 => 224 + ByteOf(l, 16777216) \in D
    BY SMT DEF ByteOf, Octet
  <1>7. 240 \in D
    BY SMT DEF Octet
  <1>. HIDE DEF D
  <1>8. CASE l < 128
    BY <1>3, <1>8, SMT DEF EncodeLength, D
  <1>9. CASE l >= 128 /\ l < 16384
    <2>1. EncodeLength(l) = <<128 + ByteOf(l, 256), ByteOf(l, 1)>>
      BY <1>9, SMT DEF EncodeLength
    <2>2. EncodeLength(l) \in Seq(D)
      BY <1>2, <1>4, <1>9, <2>1
    <2>. QED BY <2>1, <2>2 DEF D
  <1>10. CASE l >= 16384 /\ l < 2097152
    <2>1. EncodeLength(l) = <<192 + ByteOf(l, 65536), ByteOf(l, 256), ByteOf(l, 1)>>
      BY <1>10, SMT DEF EncodeLength
    <2>2. EncodeLength(l) \in Seq(D)
      BY <1>2, <1>5, <1>10, <2>1
    <2>. QED BY <2>1, <2>2 DEF D
  <1>11. CASE l >= 2097152 /\ l < 268435456
    <2>1. EncodeLength(l) = <<224 + ByteOf(l, 16777216), ByteOf(l, 65536), ByteOf(l, 256), ByteOf(l, 1)>>
      BY <1>11, SMT DEF EncodeLength
    <2>2. EncodeLength(l) \in Seq(D)
      BY <1>2, <1>6, <1>11, <2>1
    <2>. QED BY <2>1, <2>2 DEF D
  <1>12. CASE l >= 268435456
    <2>1. EncodeLength(l) = <<240, ByteOf(l, 16777216), ByteOf(l, 65536), ByteOf(l, 256), ByteOf(l, 1)>>
      BY <1>12, SMT DEF EncodeLength
    <2>2. EncodeLength(l) \in Seq(D)
      BY <1>2, <1>7, <2>1
    <2>. QED BY <2>1, <2>2 DEF D
  <1>. QED BY <1>8, <1>9, <1>10, <1>11, <1>12, SMT

\* What the first byte says of the number of bytes, and of the length.
FirstSays(l, c, b) ==
    \/ (b < 128 \/ b > 247) /\ c = 1 /\ b = l
    \/ b \in 128 .. 191 /\ c = 2 /\ b % 64 = l \div Place(1)
    \/ b \in 192 .. 223 /\ c = 3 /\ b % 32 = l \div Place(2)
    \/ b \in 224 .. 239 /\ c = 4 /\ b % 16 = l \div Place(3)
    \/ b \in 240 .. 247 /\ c = 5 /\ 0 = l \div Place(4)

LEMMA FirstByte ==
    ASSUME NEW l \in Nat, l \div 65536 < 65536
    PROVE  FirstSays(l, Len(EncodeLength(l)), EncodeLength(l)[1])
  <1>1. CASE l < 128
    BY <1>1 DEF EncodeLength, FirstSays
  <1>2. CASE l >= 128 /\ l < 16384
    <2>1. /\ 128 + ByteOf(l, 256) \in 128 .. 191
          /\ (128 + ByteOf(l, 256)) % 64 = l \div Place(1)
      BY <1>2 DEF ByteOf, Place
    <2>. QED BY <1>2, <2>1 DEF EncodeLength, FirstSays
  <1>3. CASE l >= 16384 /\ l < 2097152
    <2>1. /\ 192 + ByteOf(l, 65536) \in 192 .. 223
          /\ (192 + ByteOf(l, 65536)) % 32 = l \div Place(2)
      BY <1>3 DEF ByteOf, Place
    <2>. QED BY <1>3, <2>1 DEF EncodeLength, FirstSays
  <1>4. CASE l >= 2097152 /\ l < 268435456
    <2>1. /\ 224 + ByteOf(l, 16777216) \in 224 .. 239
          /\ (224 + ByteOf(l, 16777216)) % 16 = l \div Place(3)
      BY <1>4 DEF ByteOf, Place
    <2>. QED BY <1>4, <2>1 DEF EncodeLength, FirstSays
  <1>5. CASE l >= 268435456
    <2>1. 0 = l \div Place(4)
      BY <1>5 DEF Place
    <2>. QED BY <1>5, <2>1 DEF EncodeLength, FirstSays
  <1>. QED BY <1>1, <1>2, <1>3, <1>4, <1>5

\* Every other byte is the next of the length.
LEMMA MoreByte ==
    ASSUME NEW l \in Nat, l \div 65536 < 65536,
           NEW o \in 2 .. Len(EncodeLength(l))
    PROVE  LET c == Len(EncodeLength(l))
           IN  (l \div Place(c - o + 1)) * 256 + EncodeLength(l)[o] = l \div Place(c - o)
  <1>. DEFINE e == EncodeLength(l)
              c == Len(e)
  <1>1. /\ (l \div 4294967296) * 256 + ByteOf(l, 16777216) = l \div 16777216
        /\ (l \div 16777216) * 256 + ByteOf(l, 65536) = l \div 65536
        /\ (l \div 65536) * 256 + ByteOf(l, 256) = l \div 256
        /\ (l \div 256) * 256 + ByteOf(l, 1) = l \div 1
    BY DEF ByteOf
  <1>2. CASE l < 128
    BY <1>2 DEF EncodeLength
  <1>3. CASE l >= 128 /\ l < 16384
    <2>1. c = 2 /\ e[2] = ByteOf(l, 1)
      BY <1>3 DEF EncodeLength
    <2>2. o = 2
      BY <2>1, SMT
    <2>. QED BY <1>1, <2>1, <2>2, SMT DEF Place
  <1>4. CASE l >= 16384 /\ l < 2097152
    <2>1. c = 3 /\ e[2] = ByteOf(l, 256) /\ e[3] = ByteOf(l, 1)
      BY <1>4 DEF EncodeLength
    <2>2. o = 2 \/ o = 3
      BY <2>1, SMT
    <2>. QED BY <1>1, <2>1, <2>2, SMT DEF Place
  <1>5. CASE l >= 2097152 /\ l < 268435456
    <2>1. c = 4 /\ e[2] = ByteOf(l, 65536) /\ e[3] = ByteOf(l, 256) /\ e[4] = ByteOf(l, 1)
      BY <1>5 DEF EncodeLength
    <2>2. o = 2 \/ o = 3 \/ o = 4
      BY <2>1, SMT
    <2>. QED BY <1>1, <2>1, <2>2, SMT DEF Place
  <1>6. CASE l >= 268435456
    <2>1. /\ c = 5 /\ e[2] = ByteOf(l, 16777216) /\ e[3] = ByteOf(l, 65536)
          /\ e[4] = ByteOf(l, 256) /\ e[5] = ByteOf(l, 1)
      BY <1>6 DEF EncodeLength
    <2>2. o = 2 \/ o = 3 \/ o = 4 \/ o = 5
      BY <2>1, SMT
    <2>. QED BY <1>1, <2>1, <2>2, SMT DEF Place
  <1>. QED BY <1>2, <1>3, <1>4, <1>5, <1>6

-----------------------------------------------------------------------------
(* Cursors and walks.                                                      *)

\* The code of word k of sentence i of b, the empty word after the last.
Code(b, i, k) ==
    IF k <= Len(b[i]) THEN Append(Bytes(EncodeLength(b[i][k].len)), b[i][k])
    ELSE Bytes(EncodeLength(0))

Cursor == Nat \X Nat \X Nat
Valid(b, c) ==
    /\ c[1] \in 1 .. Len(b)
    /\ c[2] \in 1 .. Len(b[c[1]]) + 1
    /\ c[3] \in 1 .. Len(Code(b, c[1], c[2]))
At(b, c) == Code(b, c[1], c[2])[c[3]]
WordAfter(b, i, k) == IF k <= Len(b[i]) THEN <<i, k + 1, 1>> ELSE <<i + 1, 1, 1>>
Following(b, c) ==
    IF c[3] < Len(Code(b, c[1], c[2])) THEN <<c[1], c[2], c[3] + 1>>
    ELSE WordAfter(b, c[1], c[2])

\* n are the cursors at which the elements of S stand.
Steps(b, S, n) ==
    \A j \in DOMAIN S : /\ Valid(b, n[j])
                        /\ S[j] = At(b, n[j])
                        /\ n[j + 1] = Following(b, n[j])
Walk(b, S, lo, hi) ==
    \E n \in Seq(Cursor) :
        /\ Len(n) = Len(S) + 1 /\ n[1] = lo /\ n[Len(S) + 1] = hi
        /\ Steps(b, S, n)

LEMMA BytesFact ==
    ASSUME NEW s \in Seq(Octet)
    PROVE  /\ Bytes(s) \in Seq(Byte) /\ Len(Bytes(s)) = Len(s)
           /\ \A j \in 1 .. Len(s) : Bytes(s)[j] = [kind |-> "byte", len |-> s[j]]
  <1>1. ASSUME NEW j \in 1 .. Len(s)
        PROVE  [kind |-> "byte", len |-> s[j]] \in Byte
    <2>1. s[j] \in Octet
      OBVIOUS
    <2>. QED BY <2>1 DEF Byte, Octet
  <1>2. Bytes(s) \in [1 .. Len(s) -> Byte]
    BY <1>1 DEF Bytes
  <1>. QED BY <1>2 DEF Bytes

\* The code of a word is the bytes of its length, and the word.
LEMMA CodeWord ==
    ASSUME Encodable, NEW b \in Seq(Sentences), NEW i \in 1 .. Len(b), NEW k \in 1 .. Len(b[i])
    PROVE  LET w == b[i][k]
               e == EncodeLength(w.len)
               c == Code(b, i, k)
           IN  /\ w \in Word /\ w.len \in Nat /\ w.len > 0 /\ w.len \div 65536 < 65536
               /\ c \in Seq(Byte \cup Word) /\ Len(c) = Len(e) + 1 /\ Len(e) \in 1 .. 5
               /\ c[Len(e) + 1] = w
               /\ \A o \in 1 .. Len(e) : c[o] = [kind |-> "byte", len |-> e[o]] /\ c[o] \in Byte
  <1>. DEFINE w == b[i][k]
              e == EncodeLength(w.len)
              c == Code(b, i, k)
  <1>1. b[i] \in Sentences /\ b[i] \in Seq(Word) /\ k \in DOMAIN b[i]
    BY WireAssumption
  <1>2. w \in Word
    BY <1>1
  <1>3. w.len \in Nat /\ w.len > 0
    BY <1>2 DEF Word
  <1>4. w.len \div 65536 < 65536
    BY <1>1 DEF Encodable
  <1>5. e \in Seq(Octet) /\ Len(e) \in 1 .. 5
    BY <1>3, EncodeType
  <1>. HIDE DEF e
  <1>6. /\ Bytes(e) \in Seq(Byte) /\ Len(Bytes(e)) = Len(e)
        /\ \A j \in 1 .. Len(e) : Bytes(e)[j] = [kind |-> "byte", len |-> e[j]]
    BY <1>5, BytesFact
  <1>7. c = Append(Bytes(e), w)
    BY <1>1 DEF Code, e
  <1>. HIDE DEF c, w
  <1>8. /\ c \in Seq(Byte \cup Word) /\ Len(c) = Len(e) + 1 /\ c[Len(e) + 1] = w
        /\ \A o \in 1 .. Len(e) : c[o] = Bytes(e)[o] /\ c[o] \in Byte
    BY <1>2, <1>5, <1>6, <1>7
  <1>. QED BY <1>2, <1>3, <1>4, <1>5, <1>6, <1>8 DEF c, w, e

\* The code of the empty word is one byte.
LEMMA CodeEnd ==
    ASSUME NEW b \in Seq(Sentences), NEW i \in 1 .. Len(b)
    PROVE  LET c == Code(b, i, Len(b[i]) + 1)
           IN  /\ c \in Seq(Byte \cup Word) /\ Len(c) = 1
               /\ c[1] = [kind |-> "byte", len |-> 0]
  <1>1. b[i] \in Seq(Word)
    BY WireAssumption
  <1>2. EncodeLength(0) = <<0>>
    BY DEF EncodeLength
  <1>3. <<0>> \in Seq(Octet) /\ Len(<<0>>) = 1
    BY DEF Octet
  <1>4. Code(b, i, Len(b[i]) + 1) = Bytes(<<0>>)
    BY <1>1, <1>2 DEF Code
  <1>5. PICK z \in Seq(Octet) : z = <<0>> /\ Len(z) = 1 /\ z[1] = 0
    BY <1>3
  <1>6. Bytes(z) \in Seq(Byte) /\ Len(Bytes(z)) = 1
        /\ Bytes(z)[1] = [kind |-> "byte", len |-> 0]
    <2>1. /\ Bytes(z) \in Seq(Byte) /\ Len(Bytes(z)) = Len(z)
          /\ \A j \in 1 .. Len(z) : Bytes(z)[j] = [kind |-> "byte", len |-> z[j]]
      BY BytesFact
    <2>2. 1 \in 1 .. Len(z)
      BY <1>5
    <2>. QED BY <1>5, <2>1, <2>2
  <1>. QED BY <1>4, <1>5, <1>6

LEMMA CodeType ==
    ASSUME Encodable, NEW b \in Seq(Sentences), NEW i \in 1 .. Len(b),
           NEW k \in 1 .. Len(b[i]) + 1
    PROVE  Code(b, i, k) \in Seq(Byte \cup Word) /\ Len(Code(b, i, k)) \in 1 .. 6
  <1>1. Len(b[i]) \in Nat
    BY WireAssumption
  <1>2. CASE k = Len(b[i]) + 1
    BY <1>2, CodeEnd
  <1>3. CASE k \in 1 .. Len(b[i])
    <2>. DEFINE e == EncodeLength(b[i][k].len)
    <2>1. /\ Code(b, i, k) \in Seq(Byte \cup Word)
          /\ Len(Code(b, i, k)) = Len(e) + 1 /\ Len(e) \in 1 .. 5
      BY <1>3, CodeWord
    <2>. HIDE DEF e
    <2>2. PICK x \in 1 .. 5 : Len(Code(b, i, k)) = x + 1
      BY <2>1
    <2>3. Len(Code(b, i, k)) \in 1 .. 6
      BY <2>2
    <2>. QED BY <2>1, <2>3
  <1>. QED BY <1>1, <1>2, <1>3

LEMMA WordAfterType ==
    ASSUME NEW b \in Seq(Sentences), NEW i \in 1 .. Len(b), NEW k \in 1 .. Len(b[i]) + 1
    PROVE  WordAfter(b, i, k) \in Cursor
  BY DEF WordAfter, Cursor

\* What is read comes off the walk.
LEMMA WalkTail ==
    ASSUME NEW b \in Seq(Sentences), NEW S \in Seq(Byte \cup Word), S # <<>>,
           NEW lo, NEW hi, Walk(b, S, lo, hi)
    PROVE  /\ Valid(b, lo) /\ Head(S) = At(b, lo)
           /\ Walk(b, Tail(S), Following(b, lo), hi)
  <1>1. PICK n \in Seq(Cursor) :
            /\ Len(n) = Len(S) + 1 /\ n[1] = lo /\ n[Len(S) + 1] = hi
            /\ Steps(b, S, n)
    BY DEF Walk
  <1>2. Len(S) \in Nat /\ Len(S) >= 1 /\ 1 \in DOMAIN S /\ DOMAIN S = 1 .. Len(S)
    OBVIOUS
  <1>3. Valid(b, lo) /\ S[1] = At(b, lo) /\ n[2] = Following(b, lo)
    BY <1>1, <1>2 DEF Steps
  <1>4. /\ Tail(S) \in Seq(Byte \cup Word) /\ Len(Tail(S)) = Len(S) - 1
        /\ \A j \in DOMAIN Tail(S) : j + 1 \in DOMAIN S /\ Tail(S)[j] = S[j + 1]
        /\ DOMAIN Tail(S) = 1 .. Len(S) - 1
    BY <1>2
  <1>5. /\ Tail(n) \in Seq(Cursor) /\ Len(Tail(n)) = Len(S)
        /\ \A j \in 1 .. Len(S) : Tail(n)[j] = n[j + 1]
    BY <1>1, <1>2
  <1>6. Steps(b, Tail(S), Tail(n))
    <2>. SUFFICES ASSUME NEW j \in DOMAIN Tail(S)
                  PROVE  /\ Valid(b, Tail(n)[j])
                         /\ Tail(S)[j] = At(b, Tail(n)[j])
                         /\ Tail(n)[j + 1] = Following(b, Tail(n)[j])
      BY DEF Steps
    <2>1. /\ Valid(b, n[j + 1]) /\ S[j + 1] = At(b, n[j + 1])
          /\ n[(j + 1) + 1] = Following(b, n[j + 1])
      BY <1>1, <1>4 DEF Steps
    <2>2. Tail(n)[j] = n[j + 1] /\ Tail(n)[j + 1] = n[(j + 1) + 1]
      BY <1>2, <1>4, <1>5
    <2>. QED BY <1>4, <2>1, <2>2
  <1>7. Tail(n)[1] = Following(b, lo) /\ Tail(n)[Len(Tail(S)) + 1] = hi
    BY <1>1, <1>2, <1>3, <1>4, <1>5
  <1>8. Walk(b, Tail(S), Following(b, lo), hi)
    <2>1. Len(Tail(n)) = Len(Tail(S)) + 1
      BY <1>2, <1>4, <1>5
    <2>. QED BY <1>5, <1>6, <1>7, <2>1 DEF Walk
  <1>9. Head(S) = S[1]
    BY <1>2
  <1>. QED BY <1>3, <1>8, <1>9

\* A word that is written is put at the end of the walk.
LEMMA WalkWord ==
    ASSUME Encodable, NEW b \in Seq(Sentences), NEW S \in Seq(Byte \cup Word),
           NEW i \in 1 .. Len(b), NEW k \in 1 .. Len(b[i]) + 1,
           NEW lo, Walk(b, S, lo, <<i, k, 1>>)
    PROVE  Walk(b, S \o Code(b, i, k), lo, WordAfter(b, i, k))
  <1>1. PICK n \in Seq(Cursor) :
            /\ Len(n) = Len(S) + 1 /\ n[1] = lo /\ n[Len(S) + 1] = <<i, k, 1>>
            /\ Steps(b, S, n)
    BY DEF Walk
  <1>. DEFINE c == Code(b, i, k)
              T == S \o c
              p == Len(S)
  <1>2. c \in Seq(Byte \cup Word) /\ Len(c) \in 1 .. 6
    BY CodeType
  <1>. HIDE DEF c
  <1>3. p \in Nat /\ DOMAIN S = 1 .. p /\ i \in Nat /\ k \in Nat
    <2>1. Len(b[i]) \in Nat
      BY WireAssumption
    <2>. QED BY <2>1
  <1>4. /\ T \in Seq(Byte \cup Word) /\ Len(T) = p + Len(c) /\ DOMAIN T = 1 .. p + Len(c)
        /\ \A j \in 1 .. p : T[j] = S[j]
        /\ \A j \in p + 1 .. p + Len(c) : T[j] = c[j - p]
    BY <1>2
  <1>5. Len(n) = p + 1 /\ \A j \in 1 .. p + 1 : n[j] \in Cursor
    BY <1>1
  <1>. DEFINE q == p + Len(c) + 1
              M(j) == IF j <= p + 1 THEN n[j]
                      ELSE IF j = q THEN WordAfter(b, i, k)
                      ELSE <<i, k, j - p>>
  <1>6. ASSUME NEW j \in 1 .. q
        PROVE  M(j) \in Cursor
    <2>1. CASE j <= p + 1
      <3>1. j \in 1 .. p + 1 /\ M(j) = n[j]
        BY <1>3, <2>1
      <3>. QED BY <1>5, <3>1
    <2>2. CASE j > p + 1 /\ j = q
      <3>1. M(j) = WordAfter(b, i, k)
        BY <1>3, <2>2
      <3>. QED BY <3>1, WordAfterType
    <2>3. CASE j > p + 1 /\ j # q
      <3>1. M(j) = <<i, k, j - p>> /\ j - p \in Nat
        BY <1>3, <2>3
      <3>. HIDE DEF M
      <3>. QED BY <1>3, <3>1 DEF Cursor
    <2>. QED BY <1>2, <1>3, <2>1, <2>2, <2>3
  <1>7. PICK m \in Seq(Cursor) : Len(m) = q /\ \A j \in 1 .. q : m[j] = M(j)
    <2>1. q \in Nat
      BY <1>2, <1>3
    <2>. HIDE DEF q, M
    <2>2. PICK f : f = [j \in 1 .. q |-> M(j)]
      OBVIOUS
    <2>3. f \in [1 .. q -> Cursor] /\ \A j \in 1 .. q : f[j] = M(j)
      BY <1>6, <2>2
    <2>4. f \in Seq(Cursor) /\ Len(f) = q
      BY <2>1, <2>3
    <2>. QED BY <2>3, <2>4
  <1>8. m[1] = lo /\ m[q] = WordAfter(b, i, k) /\ q = Len(T) + 1
    <2>1. M(1) = n[1]
      BY <1>3
    <2>4. M(q) = WordAfter(b, i, k)
      <3>1. PICK x \in 1 .. 6 : x = Len(c)
        BY <1>2
      <3>2. PICK y \in Nat : y = p
        BY <1>3
      <3>3. ~(y + x + 1 <= y + 1)
        OBVIOUS
      <3>. QED BY <3>1, <3>2, <3>3
    <2>2. 1 \in 1 .. q /\ q \in 1 .. q /\ q = Len(T) + 1
      BY <1>2, <1>3, <1>4
    <2>. HIDE DEF M, q, T
    <2>. QED BY <1>1, <1>7, <2>1, <2>2, <2>4
  <1>9. Steps(b, T, m)
    <2>. SUFFICES ASSUME NEW j \in 1 .. p + Len(c)
                  PROVE  /\ Valid(b, m[j])
                         /\ T[j] = At(b, m[j])
                         /\ m[j + 1] = Following(b, m[j])
      BY <1>4 DEF Steps
    <2>1. CASE j <= p
      <3>1. Valid(b, n[j]) /\ S[j] = At(b, n[j]) /\ n[j + 1] = Following(b, n[j])
        <4>1. j \in DOMAIN S
          BY <1>2, <1>3, <2>1
        <4>. QED BY <1>1, <4>1 DEF Steps
      <3>2. m[j] = n[j] /\ m[j + 1] = n[j + 1]
        <4>1. j \in 1 .. q /\ j + 1 \in 1 .. q /\ M(j) = n[j] /\ M(j + 1) = n[j + 1]
          BY <1>2, <1>3, <2>1
        <4>. HIDE DEF M, q
        <4>. QED BY <1>7, <4>1
      <3>3. T[j] = S[j]
        BY <1>4, <2>1
      <3>. HIDE DEF T
      <3>. QED BY <3>1, <3>2, <3>3
    <2>2. CASE j > p
      <3>. DEFINE o == j - p
      <3>1. o \in 1 .. Len(c) /\ T[j] = c[o]
        BY <1>2, <1>3, <1>4, <2>2
      <3>2. m[j] = <<i, k, o>>
        <4>1. j \in 1 .. q
          BY <1>2, <1>3
        <4>2. CASE j = p + 1
          <5>1. M(j) = n[p + 1] /\ o = 1
            BY <1>3, <4>2
          <5>. HIDE DEF M, q
          <5>. QED BY <1>1, <1>7, <4>1, <5>1
        <4>3. CASE j # p + 1
          <5>1. M(j) = <<i, k, o>>
            BY <1>2, <1>3, <2>2, <4>3
          <5>. HIDE DEF M, q
          <5>. QED BY <1>7, <4>1, <5>1
        <4>. QED BY <4>2, <4>3
      <3>3. m[j + 1] = IF o < Len(c) THEN <<i, k, o + 1>> ELSE WordAfter(b, i, k)
        <4>1. j + 1 \in 1 .. q /\ ~(j + 1 <= p + 1) /\ (j + 1) - p = o + 1
          BY <1>2, <1>3, <2>2
        <4>2. M(j + 1) = IF j + 1 = q THEN WordAfter(b, i, k) ELSE <<i, k, o + 1>>
          BY <1>3, <4>1
        <4>3. (j + 1 = q) <=> ~(o < Len(c))
          BY <1>2, <1>3, <3>1
        <4>. HIDE DEF M, q, o
        <4>. QED BY <1>7, <4>1, <4>2, <4>3
      <3>4. Valid(b, <<i, k, o>>) /\ At(b, <<i, k, o>>) = c[o]
        BY <3>1 DEF Valid, At, c
      <3>5. Following(b, <<i, k, o>>) = IF o < Len(c) THEN <<i, k, o + 1>> ELSE WordAfter(b, i, k)
        BY DEF Following, c
      <3>. QED BY <3>1, <3>2, <3>3, <3>4, <3>5
    <2>. QED BY <1>3, <2>1, <2>2
  <1>. HIDE DEF T, q
  <1>10. Walk(b, T, lo, WordAfter(b, i, k))
    BY <1>7, <1>8, <1>9 DEF Walk
  <1>. QED BY <1>10 DEF T, c

\* A new sentence leaves the walk where it was.
LEMMA WalkGrow ==
    ASSUME NEW b \in Seq(Sentences), NEW s \in Sentences, NEW S \in Seq(Byte \cup Word),
           NEW lo, NEW hi, Walk(b, S, lo, hi)
    PROVE  Walk(Append(b, s), S, lo, hi)
  <1>. DEFINE d == Append(b, s)
  <1>1. /\ Len(d) = Len(b) + 1 /\ Len(b) \in Nat
        /\ \A i \in 1 .. Len(b) : d[i] = b[i]
    OBVIOUS
  <1>. HIDE DEF d
  <1>2. PICK n \in Seq(Cursor) :
            /\ Len(n) = Len(S) + 1 /\ n[1] = lo /\ n[Len(S) + 1] = hi
            /\ Steps(b, S, n)
    BY DEF Walk
  <1>3. ASSUME NEW c, Valid(b, c)
        PROVE  Valid(d, c) /\ At(d, c) = At(b, c) /\ Following(d, c) = Following(b, c)
    <2>1. d[c[1]] = b[c[1]] /\ c[1] \in 1 .. Len(d)
      BY <1>1, <1>3 DEF Valid
    <2>2. Code(d, c[1], c[2]) = Code(b, c[1], c[2])
      BY <2>1 DEF Code
    <2>. QED BY <1>3, <2>1, <2>2 DEF Valid, At, Following, WordAfter
  <1>4. Steps(d, S, n)
    BY <1>2, <1>3 DEF Steps
  <1>. QED BY <1>2, <1>4 DEF Walk, d

-----------------------------------------------------------------------------
(* What a sentence is made up of.                                          *)

KindAt(ws, kind) == {i \in 2 .. Len(ws) : ws[i].kind = kind}
HasTag(ws, s) ==
    \/ KindAt(ws, "tag") = {} /\ s.tag = None
    \/ \E i \in KindAt(ws, "tag") : s.tag = ws[i] /\ \A j \in KindAt(ws, "tag") : j <= i
PairsAt(ws, s, pos) ==
    /\ \A j, k \in DOMAIN s.list : j < k => pos[j] < pos[k]
    /\ \A i \in KindAt(ws, "pair") : \E j \in DOMAIN s.list : pos[j] = i
    /\ \A j \in DOMAIN s.list : s.list[j] = ws[pos[j]]
HasPairs(ws, s) == \E pos \in [DOMAIN s.list -> KindAt(ws, "pair")] : PairsAt(ws, s, pos)

LEMMA MadeOfParts ==
    \A ws, s : MadeOf(ws, s) <=>
        /\ s.word = ws[1]
        /\ 2 .. Len(ws) = KindAt(ws, "tag") \cup KindAt(ws, "pair")
        /\ HasTag(ws, s) /\ HasPairs(ws, s)
  BY DEF MadeOf, KindAt, HasTag, PairsAt, HasPairs

\* A word more: the positions of its kind have one more, those of another
\* kind are the same.
LEMMA KindAtAppend ==
    ASSUME NEW ws \in Seq(Word), ws # <<>>, NEW w \in Word, NEW kind
    PROVE  KindAt(Append(ws, w), kind) =
               IF w.kind = kind THEN KindAt(ws, kind) \cup {Len(ws) + 1} ELSE KindAt(ws, kind)
  <1>1. /\ Len(ws) \in Nat /\ Len(ws) >= 1 /\ Len(Append(ws, w)) = Len(ws) + 1
        /\ \A i \in 1 .. Len(ws) : Append(ws, w)[i] = ws[i]
        /\ Append(ws, w)[Len(ws) + 1] = w
    OBVIOUS
  <1>2. \A i : i \in 2 .. Len(ws) + 1 <=> i \in 2 .. Len(ws) \/ i = Len(ws) + 1
    BY <1>1
  <1>3. \A i \in 2 .. Len(ws) : i # Len(ws) + 1 /\ i \in 1 .. Len(ws)
    BY <1>1
  <1>. QED BY <1>1, <1>2, <1>3 DEF KindAt

\* The first word is the reply word.
LEMMA FirstWord ==
    ASSUME NEW w \in Word
    PROVE  /\ Assembled(NoSentence, w) \in Sentence
           /\ MadeOf(<<w>>, Assembled(NoSentence, w))
  <1>. DEFINE s == [word |-> w, tag |-> None, list |-> <<>>]
  <1>1. Assembled(NoSentence, w) = s
    BY DEF Assembled, NoSentence
  <1>2. s \in Sentence
    BY DEF Sentence
  <1>3. Len(<<w>>) = 1 /\ <<w>>[1] = w /\ 2 .. 1 = {}
    OBVIOUS
  <1>4. \A kind : KindAt(<<w>>, kind) = {}
    BY <1>3 DEF KindAt
  <1>5. HasTag(<<w>>, s)
    BY <1>4 DEF HasTag
  <1>6. HasPairs(<<w>>, s)
    <2>1. DOMAIN s.list = {}
      OBVIOUS
    <2>2. PICK pos : pos = [j \in {} |-> 0]
      OBVIOUS
    <2>3. pos \in [{} -> KindAt(<<w>>, "pair")]
      BY <2>2
    <2>4. PairsAt(<<w>>, s, pos)
      BY <1>4, <2>1 DEF PairsAt
    <2>. QED BY <2>1, <2>3, <2>4 DEF HasPairs
  <1>7. s.word = <<w>>[1]
    BY <1>3
  <1>. HIDE DEF s
  <1>8. MadeOf(<<w>>, s)
    BY <1>3, <1>4, <1>5, <1>6, <1>7, MadeOfParts
  <1>. QED BY <1>1, <1>2, <1>8

\* What ReadSentence makes of a further word.
LEMMA NextWord ==
    ASSUME NEW ws \in Seq(Word), ws # <<>>, NEW s \in Sentence, MadeOf(ws, s),
           NEW w \in Word, Assembled(s, w) # None
    PROVE  /\ Assembled(s, w) \in Sentence
           /\ MadeOf(Append(ws, w), Assembled(s, w))
  <1>. DEFINE t == Assembled(s, w)
              vs == Append(ws, w)
              L == Len(ws)
  <1>1. /\ s.word = ws[1]
        /\ 2 .. Len(ws) = KindAt(ws, "tag") \cup KindAt(ws, "pair")
        /\ HasTag(ws, s) /\ HasPairs(ws, s)
    BY MadeOfParts
  <1>2. /\ L \in Nat /\ L >= 1 /\ vs \in Seq(Word) /\ Len(vs) = L + 1
        /\ \A i \in 1 .. L : vs[i] = ws[i]
        /\ vs[L + 1] = w /\ ws[1] \in Word /\ vs[1] = ws[1]
    OBVIOUS
  <1>3. s.word # None
    BY <1>1, <1>2, WireAssumption
  <1>4. \A kind : KindAt(vs, kind) = IF w.kind = kind THEN KindAt(ws, kind) \cup {L + 1} ELSE KindAt(ws, kind)
    BY KindAtAppend
  <1>5. \A kind : KindAt(ws, kind) \subseteq 2 .. L
    BY DEF KindAt
  <1>6. \A i \in 2 .. L : i \in Nat /\ i \in 1 .. L /\ i < L + 1 /\ vs[i] = ws[i]
    BY <1>2
  <1>7. 2 .. L + 1 = (2 .. L) \cup {L + 1}
    BY <1>2
  <1>. HIDE DEF vs, L
  <1>8. s.list \in Seq(Word) /\ Len(s.list) \in Nat /\ DOMAIN s.list = 1 .. Len(s.list)
    BY DEF Sentence
  <1>9. PICK pos \in [DOMAIN s.list -> KindAt(ws, "pair")] : PairsAt(ws, s, pos)
    BY <1>1 DEF HasPairs
  <1>10. CASE w.kind = "tag"
    <2>1. t = [s EXCEPT !.tag = w]
      BY <1>3, <1>10 DEF Assembled
    <2>2. t \in Sentence /\ t.word = s.word /\ t.tag = w /\ t.list = s.list
      BY <2>1 DEF Sentence
    <2>. HIDE DEF t
    <2>3. KindAt(vs, "tag") = KindAt(ws, "tag") \cup {L + 1} /\ KindAt(vs, "pair") = KindAt(ws, "pair")
      BY <1>4, <1>10
    <2>4. HasTag(vs, t)
      <3>1. L + 1 \in KindAt(vs, "tag") /\ t.tag = vs[L + 1]
        BY <1>2, <2>2, <2>3
      <3>2. \A j \in KindAt(vs, "tag") : j <= L + 1
        BY <1>2, <1>5, <1>6, <2>3
      <3>. QED BY <3>1, <3>2 DEF HasTag
    <2>5. PairsAt(vs, t, pos)
      <3>1. \A j \in DOMAIN s.list : vs[pos[j]] = ws[pos[j]]
        BY <1>5, <1>6, <1>9
      <3>. QED BY <1>9, <2>2, <2>3, <3>1 DEF PairsAt
    <2>6. HasPairs(vs, t)
      BY <1>9, <2>2, <2>3, <2>5 DEF HasPairs
    <2>7. t.word = vs[1] /\ 2 .. Len(vs) = KindAt(vs, "tag") \cup KindAt(vs, "pair")
      BY <1>1, <1>2, <1>7, <2>2, <2>3 DEF L
    <2>. QED BY <2>2, <2>4, <2>6, <2>7, MadeOfParts DEF t, vs
  <1>11. CASE w.kind = "pair"
    <2>1. t = [s EXCEPT !.list = Append(@, w)]
      BY <1>3, <1>11 DEF Assembled
    <2>2. t \in Sentence /\ t.word = s.word /\ t.tag = s.tag /\ t.list = Append(s.list, w)
      <3>1. Append(s.list, w) \in Seq(Word)
        BY <1>8
      <3>2. t = [word |-> s.word, tag |-> s.tag, list |-> Append(s.list, w)]
        BY <2>1 DEF Sentence
      <3>. HIDE DEF t
      <3>3. s.word \in Word \cup {None} /\ s.tag \in Word \cup {None}
        BY DEF Sentence
      <3>. QED BY <3>1, <3>2, <3>3 DEF Sentence
    <2>. HIDE DEF t
    <2>3. KindAt(vs, "pair") = KindAt(ws, "pair") \cup {L + 1} /\ KindAt(vs, "tag") = KindAt(ws, "tag")
      BY <1>4, <1>11
    <2>4. HasTag(vs, t)
      <3>1. \A i \in KindAt(ws, "tag") : vs[i] = ws[i]
        BY <1>5, <1>6
      <3>. QED BY <1>1, <2>2, <2>3, <3>1 DEF HasTag
    <2>. DEFINE p == Len(s.list)
    <2>5. /\ DOMAIN t.list = 1 .. p + 1
          /\ \A j \in 1 .. p : t.list[j] = s.list[j]
          /\ t.list[p + 1] = w
      BY <1>8, <2>2
    <2>6. PICK f : f = [j \in 1 .. p + 1 |-> IF j = p + 1 THEN L + 1 ELSE pos[j]]
      OBVIOUS
    <2>7. f[p + 1] = L + 1 /\ \A j \in 1 .. p : f[j] = pos[j] /\ f[j] \in KindAt(ws, "pair")
      <3>1. \A j \in 1 .. p : j \in 1 .. p + 1 /\ j # p + 1 /\ pos[j] \in KindAt(ws, "pair")
        BY <1>8, <1>9
      <3>2. p + 1 \in 1 .. p + 1
        BY <1>8
      <3>. QED BY <2>6, <3>1, <3>2
    <2>8. \A j \in 1 .. p + 1 : j \in 1 .. p \/ j = p + 1
      BY <1>8
    <2>9. f \in [DOMAIN t.list -> KindAt(vs, "pair")]
      <3>1. \A j \in 1 .. p + 1 : f[j] \in KindAt(vs, "pair")
        BY <2>3, <2>7, <2>8
      <3>. QED BY <2>5, <2>6, <3>1
    <2>10. PairsAt(vs, t, f)
      <3>1. \A j, k \in 1 .. p + 1 : j < k => f[j] < f[k]
        <4>. SUFFICES ASSUME NEW j \in 1 .. p + 1, NEW k \in 1 .. p + 1, j < k
                      PROVE  f[j] < f[k]
          OBVIOUS
        <4>1. j \in 1 .. p
          BY <1>8, <2>8
        <4>2. CASE k \in 1 .. p
          BY <1>8, <1>9, <2>7, <4>1, <4>2 DEF PairsAt
        <4>3. CASE k = p + 1
          BY <1>5, <1>6, <2>7, <4>1, <4>3
        <4>. QED BY <2>8, <4>2, <4>3
      <3>2. \A i \in KindAt(vs, "pair") : \E j \in 1 .. p + 1 : f[j] = i
        <4>1. p + 1 \in 1 .. p + 1 /\ \A j \in 1 .. p : j \in 1 .. p + 1
          BY <1>8
        <4>. QED BY <1>8, <1>9, <2>3, <2>7, <4>1 DEF PairsAt
      <3>3. \A j \in 1 .. p + 1 : t.list[j] = vs[f[j]]
        <4>. SUFFICES ASSUME NEW j \in 1 .. p + 1 PROVE t.list[j] = vs[f[j]]
          OBVIOUS
        <4>1. CASE j \in 1 .. p
          BY <1>5, <1>6, <1>8, <1>9, <2>5, <2>7, <4>1 DEF PairsAt
        <4>2. CASE j = p + 1
          BY <1>2, <2>5, <2>7, <4>2
        <4>. QED BY <2>8, <4>1, <4>2
      <3>. QED BY <2>5, <3>1, <3>2, <3>3 DEF PairsAt
    <2>11. HasPairs(vs, t)
      BY <2>9, <2>10 DEF HasPairs
    <2>12. t.word = vs[1] /\ 2 .. Len(vs) = KindAt(vs, "tag") \cup KindAt(vs, "pair")
      BY <1>1, <1>2, <1>7, <2>2, <2>3 DEF L
    <2>. QED BY <2>2, <2>4, <2>11, <2>12, MadeOfParts DEF t, vs
  <1>12. w.kind = "tag" \/ w.kind = "pair"
    BY <1>3 DEF Assembled
  <1>. QED BY <1>10, <1>11, <1>12

-----------------------------------------------------------------------------
(* Types.                                                                  *)

Elements == Seq(Byte \cup Word)

LEMMA BytesType ==
    \A l \in Nat : Bytes(EncodeLength(l)) \in Elements
  <1>. SUFFICES ASSUME NEW l \in Nat PROVE Bytes(EncodeLength(l)) \in Elements
    OBVIOUS
  <1>1. EncodeLength(l) \in Seq(Octet)
    BY EncodeType
  <1>2. Bytes(EncodeLength(l)) \in Seq(Byte)
    BY <1>1, BytesFact
  <1>. QED BY <1>2 DEF Elements

LEMMA WordType ==
    \A w \in Word : Append(Bytes(EncodeLength(w.len)), w) \in Elements
  <1>. SUFFICES ASSUME NEW w \in Word PROVE Append(Bytes(EncodeLength(w.len)), w) \in Elements
    OBVIOUS
  <1>1. w.len \in Nat
    BY DEF Word
  <1>2. Bytes(EncodeLength(w.len)) \in Elements
    BY <1>1, BytesType
  <1>. QED BY <1>2 DEF Elements

\* Push moves what is behind the stream, and loses nothing of it.
LEMMA PushFact ==
    ASSUME buf \in Elements, wire \in Elements, NEW more \in Elements,
           NEW n, NEW ok \in BOOLEAN, Push(more, n, ok)
    PROVE  /\ buf' \in Elements /\ wire' \in Elements /\ werr' = ~ok
           /\ wire' \o buf' = (wire \o buf) \o more
  <1>. DEFINE all == buf \o more
  <1>1. all \in Seq(Byte \cup Word)
    BY DEF Elements
  <1>2. /\ n \in 0 .. Len(all)
        /\ wire' = wire \o SubSeq(all, 1, n)
        /\ buf' = SubSeq(all, n + 1, Len(all))
        /\ werr' = ~ok
    BY DEF Push
  <1>3. (wire \o buf) \o more = wire \o all
    BY DEF Elements
  <1>. HIDE DEF all
  <1>4. PICK x, y : x = SubSeq(all, 1, n) /\ y = SubSeq(all, n + 1, Len(all))
    OBVIOUS
  <1>5. /\ x \in Seq(Byte \cup Word) /\ Len(x) = n
        /\ \A j \in 1 .. n : x[j] = all[j]
    BY <1>1, <1>2, <1>4
  <1>6. /\ y \in Seq(Byte \cup Word) /\ Len(y) = Len(all) - n
        /\ \A j \in 1 .. Len(all) - n : y[j] = all[n + j]
    BY <1>1, <1>2, <1>4
  <1>7. x \o y = all
    <2>0. PICK N \in Nat : N = Len(all) /\ n \in 0 .. N
      BY <1>1, <1>2
    <2>1. x \o y \in Seq(Byte \cup Word) /\ Len(x \o y) = Len(x) + Len(y)
      <3>1. x \in Seq(Byte \cup Word) /\ y \in Seq(Byte \cup Word)
        BY <1>5, <1>6
      <3>. QED BY <3>1
    <2>3. Len(x \o y) = N
      BY <1>5, <1>6, <2>0, <2>1
    <2>2. ASSUME NEW j \in 1 .. Len(all)
          PROVE  (x \o y)[j] = all[j]
      <3>1. CASE j <= n
        BY <1>1, <1>2, <1>5, <1>6, <3>1
      <3>2. CASE j > n
        <4>1. j - n \in 1 .. Len(all) - n /\ n + (j - n) = j
          BY <1>1, <1>2, <3>2
        <4>2. (x \o y)[j] = y[j - n]
          BY <1>1, <1>2, <1>5, <1>6, <3>2
        <4>. QED BY <1>6, <4>1, <4>2
      <3>3. j \in Nat /\ n \in Nat
        BY <2>0
      <3>4. j <= n \/ j > n
        BY <3>3
      <3>. QED BY <3>1, <3>2, <3>4
    <2>4. ASSUME NEW z \in Seq(Byte \cup Word), Len(z) = N, \A j \in 1 .. N : z[j] = all[j]
          PROVE  z = all
      <3>. HIDE DEF all
      <3>. QED BY <1>1, <2>0, <2>4
    <2>. QED BY <2>0, <2>1, <2>2, <2>3, <2>4
  <1>8. (wire \o x) \o y = wire \o (x \o y)
    BY <1>5, <1>6 DEF Elements
  <1>9. wire \o x \in Elements /\ y \in Elements
    BY <1>5, <1>6 DEF Elements
  <1>. QED BY <1>2, <1>3, <1>4, <1>7, <1>8, <1>9

LEMMA AssembledType ==
    ASSUME NEW s \in Sentence, NEW w \in Word, Assembled(s, w) # None
    PROVE  Assembled(s, w) \in Sentence
  <1>. DEFINE t == Assembled(s, w)
  <1>1. /\ s.word \in Word \cup {None} /\ s.tag \in Word \cup {None}
        /\ s.list \in Seq(Word) /\ Append(s.list, w) \in Seq(Word)
        /\ s = [word |-> s.word, tag |-> s.tag, list |-> s.list]
    BY DEF Sentence
  <1>2. \/ t = [word |-> w, tag |-> s.tag, list |-> s.list]
        \/ t = [word |-> s.word, tag |-> w, list |-> s.list]
        \/ t = [word |-> s.word, tag |-> s.tag, list |-> Append(s.list, w)]
    BY <1>1 DEF Assembled
  <1>. HIDE DEF t
  <1>3. t \in Sentence
    BY <1>1, <1>2 DEF Sentence
  <1>. QED BY <1>3 DEF t

LEMMA SentenceFact ==
    /\ NoSentence \in Sentence
    /\ \A s \in Sentences : s \in Seq(Word) /\ Len(s) \in Nat /\ Len(s) > 0
  BY WireAssumption DEF NoSentence, Sentence

LEMMA ByteLen == \A x \in Byte : x.len \in Nat /\ x.len < 256
  BY DEF Byte

\* What is known of the reader when it knows a length.
LEMMA LengthType ==
    ASSUME NEW n \in Nat, HaveLength(n), sen \in Sentence, received \in Seq(Sentence)
    PROVE  /\ need' \in 0 .. 4 /\ acc' \in Nat /\ phase' \in {"first", "more", "payload"}
           /\ sen' \in Sentence /\ received' \in Seq(Sentence)
  <1>1. need' = 0 /\ acc' = n
    BY DEF HaveLength
  <1>2. CASE n = 0
    <2>1. sen' = NoSentence /\ received' = Append(received, sen) /\ phase' = "first"
      BY <1>2 DEF HaveLength
    <2>. QED BY <1>1, <2>1, SentenceFact
  <1>3. CASE n > 0
    BY <1>1, <1>3 DEF HaveLength
  <1>. QED BY <1>2, <1>3

\* The types are preserved by every action.
LEMMA TypeNext ==
    TypeOK /\ [Next]_vars => TypeOK'
  <1>. SUFFICES ASSUME TypeOK, [Next]_vars PROVE TypeOK'
    OBVIOUS
  <1>. USE DEF TypeOK
  <1>0. buf \in Elements /\ wire \in Elements
    BY DEF Elements
  <1>1. CASE \E s \in Sentences : BeginSentence(s)
    BY <1>1, SentenceFact DEF BeginSentence, readerVars
  <1>2. CASE WriteWord
    <2>1. Head(todo) \in Word /\ Tail(todo) \in Seq(Word)
      BY <1>2 DEF WriteWord
    <2>2. buf' \in Elements /\ wire' \in Elements /\ werr' \in BOOLEAN
      <3>1. CASE KeepErr
        BY <1>0, <1>2, <3>1 DEF WriteWord
      <3>2. CASE ~KeepErr
        <4>1. PICK n \in 0 .. Len(buf) + 6, ok \in BOOLEAN : Push(Append(Bytes(EncodeLength(Head(todo).len)), Head(todo)), n, ok)
          BY <1>2, <3>2 DEF WriteWord
        <4>2. Append(Bytes(EncodeLength(Head(todo).len)), Head(todo)) \in Elements
          BY <2>1, WordType
        <4>. QED BY <1>0, <4>1, <4>2, PushFact
      <3>. QED BY <3>1, <3>2
    <2>. QED BY <1>2, <2>1, <2>2 DEF WriteWord, readerVars, Elements
  <1>3. CASE EndSentence
    <2>1. buf' \in Elements /\ wire' \in Elements /\ werr' \in BOOLEAN
      <3>1. CASE KeepErr
        BY <1>0, <1>3, <3>1 DEF EndSentence
      <3>2. CASE ~KeepErr
        <4>1. PICK n \in 0 .. Len(buf) + 1, ok \in BOOLEAN : Push(Bytes(EncodeLength(0)), n, ok)
          BY <1>3, <3>2 DEF EndSentence
        <4>. QED BY <1>0, <4>1, BytesType, PushFact
      <3>. QED BY <3>1, <3>2
    <2>. QED BY <1>3, <2>1 DEF EndSentence, readerVars, Elements
  <1>4. CASE ReadFirst
    <2>1. wire' \in Seq(Byte \cup Word) /\ Head(wire) \in Byte
      BY <1>4 DEF ReadFirst
    <2>2. Head(wire).len \in Nat
      BY <2>1, ByteLen
    <2>3. /\ need' \in 0 .. 4 /\ acc' \in Nat /\ phase' \in {"first", "more", "payload"}
          /\ sen' \in Sentence /\ received' \in Seq(Sentence)
      <3>1. CASE HaveLength(Head(wire).len)
        BY <2>2, <3>1, LengthType
      <3>2. CASE \E n \in 1 .. 4, high \in Nat : WantMore(n, high)
        BY <3>2 DEF WantMore
      <3>3. \A x \in Nat : x % 64 \in Nat /\ x % 32 \in Nat /\ x % 16 \in Nat
        BY SMT
      <3>. QED BY <1>4, <2>2, <3>1, <3>2, <3>3 DEF ReadFirst
    <2>. QED BY <1>4, <2>1, <2>3 DEF ReadFirst, writerVars
  <1>5. CASE ReadMore
    <2>1. wire' \in Seq(Byte \cup Word) /\ Head(wire) \in Byte
      BY <1>5 DEF ReadMore
    <2>2. acc * 256 + Head(wire).len \in Nat
      BY <2>1, ByteLen
    <2>3. /\ need' \in 0 .. 4 /\ acc' \in Nat /\ phase' \in {"first", "more", "payload"}
          /\ sen' \in Sentence /\ received' \in Seq(Sentence)
      <3>1. CASE HaveLength(acc * 256 + Head(wire).len)
        BY <2>2, <3>1, LengthType
      <3>2. CASE need > 1 /\ WantMore(need - 1, acc * 256 + Head(wire).len)
        BY <2>2, <3>2 DEF WantMore
      <3>. QED BY <1>5, <3>1, <3>2 DEF ReadMore
    <2>. QED BY <1>5, <2>1, <2>3 DEF ReadMore, writerVars
  <1>6. CASE ReadPayload
    <2>1. wire' \in Seq(Byte \cup Word) /\ Head(wire) \in Word
      BY <1>6 DEF ReadPayload
    <2>2. sen' \in Sentence
      BY <1>6, <2>1, AssembledType, SentenceFact DEF ReadPayload
    <2>. QED BY <1>6, <2>1, <2>2 DEF ReadPayload, writerVars
  <1>7. CASE UNCHANGED vars
    BY <1>7 DEF vars, writerVars, readerVars
  <1>. QED BY <1>1, <1>2, <1>3, <1>4, <1>5, <1>6, <1>7 DEF Next, Read

LEMMA TypeInit == Init => TypeOK
  <1>. SUFFICES ASSUME Init PROVE TypeOK
    OBVIOUS
  <1>1. /\ <<>> \in Seq(Word) /\ <<>> \in Seq(Byte \cup Word) /\ <<>> \in Seq(Sentences)
        /\ <<>> \in Seq(BOOLEAN) /\ <<>> \in Seq(Sentence) /\ Len(<<>>) = 0
    OBVIOUS
  <1>2. 0 \in 0 .. 4 /\ 0 \in Nat
    OBVIOUS
  <1>. QED BY <1>1, <1>2, SentenceFact DEF Init, TypeOK

\* The program keeps its types.
THEOREM WireTypeCorrect == Spec => []TypeOK
  BY TypeInit, TypeNext, PTL DEF Spec

-----------------------------------------------------------------------------
(* What an answer of nil says.                                             *)

\* Without an error every sentence so far was written.
VouchInv ==
    /\ ~werr => \A i \in DOMAIN result : result[i]
    /\ NilVouches

\* The writer's error stays.
LEMMA ErrorStays == TypeOK /\ [Next]_vars /\ werr => werr'
  <1>. SUFFICES ASSUME TypeOK, [Next]_vars, werr PROVE werr'
    OBVIOUS
  <1>1. CASE WriteWord \/ EndSentence
    BY <1>1 DEF WriteWord, EndSentence, KeepErr
  <1>2. CASE \E s \in Sentences : BeginSentence(s)
    BY <1>2 DEF BeginSentence
  <1>3. CASE Read
    BY <1>3 DEF Read, ReadFirst, ReadMore, ReadPayload, writerVars
  <1>4. CASE UNCHANGED vars
    BY <1>4 DEF vars, writerVars
  <1>. QED BY <1>1, <1>2, <1>3, <1>4 DEF Next

LEMMA VouchNext == TypeOK /\ VouchInv /\ [Next]_vars => VouchInv'
  <1>. SUFFICES ASSUME TypeOK, VouchInv, [Next]_vars PROVE VouchInv'
    OBVIOUS
  <1>1. result \in Seq(BOOLEAN) /\ werr \in BOOLEAN
    BY DEF TypeOK
  <1>2. werr => werr'
    BY ErrorStays
  <1>3. CASE result' = result
    <2>1. NilVouches'
      BY <1>3 DEF VouchInv, NilVouches
    <2>. QED BY <1>2, <1>3, <2>1 DEF VouchInv
  <1>4. CASE EndSentence
    <2>1. result' = Append(result, ~werr')
      BY <1>4 DEF EndSentence
    <2>2. PICK p \in Nat : /\ p = Len(result) /\ DOMAIN result' = 1 .. p + 1 /\ DOMAIN result = 1 .. p
                           /\ \A i \in 1 .. p : result'[i] = result[i]
                           /\ result'[p + 1] = ~werr'
      BY <1>1, <2>1
    <2>3. \A i \in 1 .. p + 1 : i \in 1 .. p \/ i = p + 1
      OBVIOUS
    <2>4. ~werr' => \A i \in DOMAIN result' : result'[i]
      BY <1>2, <2>2, <2>3 DEF VouchInv
    <2>5. NilVouches'
      <3>. SUFFICES ASSUME NEW i \in 1 .. p + 1, NEW j \in 1 .. p + 1, i < j, result'[j]
                    PROVE  result'[i]
        BY <2>2 DEF NilVouches
      <3>1. i \in 1 .. p
        BY <2>2
      <3>2. CASE j = p + 1
        BY <2>2, <2>4, <3>2
      <3>3. CASE j \in 1 .. p
        BY <2>2, <3>1, <3>3 DEF VouchInv, NilVouches
      <3>. QED BY <2>3, <3>2, <3>3
    <2>. QED BY <2>4, <2>5 DEF VouchInv
  <1>5. EndSentence \/ result' = result
    <2>1. CASE WriteWord
      BY <2>1 DEF WriteWord
    <2>2. CASE \E s \in Sentences : BeginSentence(s)
      BY <2>2 DEF BeginSentence
    <2>3. CASE Read
      BY <2>3 DEF Read, ReadFirst, ReadMore, ReadPayload, writerVars
    <2>4. CASE UNCHANGED vars
      BY <2>4 DEF vars, writerVars
    <2>. QED BY <2>1, <2>2, <2>3, <2>4 DEF Next
  <1>. QED BY <1>3, <1>4, <1>5

\* An EndSentence that returns nil vouches for the sentences before it.
THEOREM NilVouchesForAll == Spec => []NilVouches
  <1>1. Init => VouchInv
    BY DEF Init, VouchInv, NilVouches
  <1>2. VouchInv => NilVouches
    BY DEF VouchInv
  <1>. QED BY <1>1, <1>2, VouchNext, WireTypeCorrect, PTL DEF Spec

-----------------------------------------------------------------------------
(* The stream between the writer and the reader.                           *)

\* The words that are still to be written end the sentence.
TodoInv ==
    /\ todo # <<>> => Len(begun) > Len(result)
    /\ Len(begun) > Len(result) =>
          LET s == begun[Len(begun)]
          IN  /\ Len(todo) <= Len(s)
              /\ \A j \in DOMAIN todo : todo[j] = s[Len(s) - Len(todo) + j]

\* The cursor of what is written next.
WriterAt ==
    IF Len(begun) > Len(result)
    THEN <<Len(begun), Len(begun[Len(begun)]) - Len(todo) + 1, 1>>
    ELSE <<Len(begun) + 1, 1, 1>>

\* The reader has read of sentence i of b the words before k, and of word k
\* what is before the element o of its code.
InWord(b, i, k, o) ==
    LET l == b[i][k].len
        c == Len(EncodeLength(l))
    IN  /\ i <= Len(b) /\ k <= Len(b[i])
        /\ \/ phase = "more" /\ o \in 2 .. c /\ need = c - o + 1 /\ acc = l \div Place(need)
           \/ phase = "payload" /\ o = c + 1 /\ acc = l
WordsRead(b, i, k) ==
    IF k = 1 THEN sen = NoSentence
    ELSE /\ i <= Len(b) /\ k <= Len(b[i]) + 1
         /\ MadeOf(SubSeq(b[i], 1, k - 1), sen)
ReaderAt(b, k, o) ==
    LET i == Len(received) + 1
    IN  /\ WordsRead(b, i, k)
        /\ \/ phase = "first" /\ o = 1
           \/ InWord(b, i, k, o)

Between(k, o, hi) ==
    /\ ReaderAt(begun, k, o)
    /\ Walk(begun, wire \o buf, <<Len(received) + 1, k, o>>, hi)
    /\ ~werr => hi = WriterAt

StreamInv == ~rerr => \E k \in Nat \ {0}, o \in Nat, hi \in Cursor : Between(k, o, hi)

WireInv == TypeOK /\ TodoInv /\ StreamInv /\ RoundTrip

LEMMA WireInit == Init => WireInv
  <1>. SUFFICES ASSUME Init PROVE WireInv
    OBVIOUS
  <1>1. TypeOK
    BY TypeInit
  <1>2. TodoInv /\ RoundTrip
    BY DEF Init, TodoInv, RoundTrip
  <1>3. Len(begun) = 0 /\ Len(result) = 0 /\ Len(received) = 0
    BY DEF Init
  <1>4. PICK c \in Cursor : c = <<1, 1, 1>>
    BY DEF Cursor
  <1>5. Walk(begun, wire \o buf, c, c)
    <2>1. wire \o buf = <<>> /\ Len(<<>>) = 0 /\ DOMAIN <<>> = {}
      BY DEF Init
    <2>2. PICK n : n = <<c>>
      OBVIOUS
    <2>3. n \in Seq(Cursor) /\ Len(n) = 1 /\ n[1] = c
      BY <2>2
    <2>4. Walk(begun, <<>>, c, c)
      BY <2>1, <2>3 DEF Walk, Steps
    <2>. QED BY <2>1, <2>4
  <1>6. WriterAt = c
    BY <1>3, <1>4 DEF WriterAt
  <1>7. ReaderAt(begun, 1, 1)
    BY DEF Init, ReaderAt, WordsRead
  <1>8. Between(1, 1, c)
    BY <1>3, <1>4, <1>5, <1>6, <1>7 DEF Between
  <1>9. StreamInv
    BY <1>8 DEF StreamInv
  <1>. QED BY <1>1, <1>2, <1>9 DEF WireInv

\* A new sentence is nothing to the reader.
LEMMA ReaderGrow ==
    ASSUME NEW b \in Seq(Sentences), NEW s \in Sentences, received \in Seq(Sentence),
           NEW k \in Nat \ {0}, NEW o \in Nat, ReaderAt(b, k, o)
    PROVE  ReaderAt(Append(b, s), k, o)
  <1>. DEFINE i == Len(received) + 1
  <1>1. i \in Nat /\ i >= 1
    OBVIOUS
  <1>2. /\ Len(Append(b, s)) = Len(b) + 1 /\ Len(b) \in Nat
        /\ i <= Len(b) => i <= Len(Append(b, s)) /\ Append(b, s)[i] = b[i]
    BY <1>1
  <1>. QED BY <1>2 DEF ReaderAt, WordsRead, InWord

LEMMA BeginStep ==
    ASSUME Encodable, WireInv, NEW s \in Sentences, BeginSentence(s)
    PROVE  TodoInv' /\ StreamInv' /\ RoundTrip'
  <1>1. /\ Len(begun) = Len(result) /\ begun' = Append(begun, s) /\ todo' = s
        /\ UNCHANGED <<buf, werr, wire, result, readerVars>>
    BY DEF BeginSentence
  <1>2. begun \in Seq(Sentences) /\ result \in Seq(BOOLEAN) /\ received \in Seq(Sentence)
    BY DEF WireInv, TypeOK
  <1>3. PICK p \in Nat : /\ p = Len(begun) /\ p = Len(result) /\ Len(begun') = p + 1 /\ Len(result') = p
                         /\ begun'[p + 1] = s /\ \A i \in 1 .. p : begun'[i] = begun[i]
    BY <1>1, <1>2
  <1>4. s \in Seq(Word) /\ Len(s) \in Nat /\ Len(s) > 0
    BY SentenceFact
  <1>5. TodoInv'
    <2>1. \A j \in DOMAIN s : s[j] = s[Len(s) - Len(s) + j]
      BY <1>4
    <2>2. todo' = s /\ begun'[Len(begun')] = s /\ Len(s) <= Len(s) /\ Len(begun') > Len(result')
      BY <1>1, <1>3, <1>4
    <2>. QED BY <2>1, <2>2 DEF TodoInv
  <1>6. RoundTrip'
    <2>1. received' = received
      BY <1>1 DEF readerVars
    <2>2. Len(received) <= p /\ \A i \in DOMAIN received : MadeOf(begun[i], received[i]) /\ i \in 1 .. p
      BY <1>2, <1>3 DEF WireInv, RoundTrip
    <2>. QED BY <1>2, <1>3, <2>1, <2>2 DEF RoundTrip
  <1>7. StreamInv'
    <2>. SUFFICES ASSUME ~rerr' PROVE \E k \in Nat \ {0}, o \in Nat, hi \in Cursor : Between(k, o, hi)'
      BY DEF StreamInv
    <2>1. PICK k \in Nat \ {0}, o \in Nat, hi \in Cursor : Between(k, o, hi)
      BY <1>1 DEF readerVars, WireInv, StreamInv
    <2>2. ReaderAt(begun, k, o)'
      <3>1. ReaderAt(Append(begun, s), k, o)
        BY <1>2, <2>1, ReaderGrow DEF Between
      <3>. QED BY <1>1, <3>1 DEF ReaderAt, WordsRead, InWord, readerVars
    <2>3. Walk(begun', wire \o buf, <<Len(received) + 1, k, o>>, hi)
      <3>1. wire \o buf \in Seq(Byte \cup Word)
        BY DEF WireInv, TypeOK
      <3>2. Walk(begun, wire \o buf, <<Len(received) + 1, k, o>>, hi)
        BY <2>1 DEF Between
      <3>3. Walk(Append(begun, s), wire \o buf, <<Len(received) + 1, k, o>>, hi)
        BY <1>2, <3>1, <3>2, WalkGrow
      <3>. QED BY <1>1, <3>3
    <2>4. wire' \o buf' = wire \o buf /\ received' = received
      BY <1>1 DEF readerVars
    <2>5. ~werr' => hi = WriterAt'
      <3>1. WriterAt = <<p + 1, 1, 1>>
        BY <1>3 DEF WriterAt
      <3>2. WriterAt' = <<p + 1, Len(s) - Len(s) + 1, 1>>
        BY <1>1, <1>3 DEF WriterAt
      <3>. QED BY <1>1, <1>4, <2>1, <3>1, <3>2 DEF Between
    <2>6. Between(k, o, hi)'
      BY <2>2, <2>3, <2>4, <2>5 DEF Between
    <2>. QED BY <2>6
  <1>. QED BY <1>5, <1>6, <1>7

\* The reader does not see what the writer does.
LEMMA ReaderSame ==
    ASSUME UNCHANGED <<begun, readerVars>>, NEW k, NEW o, ReaderAt(begun, k, o)
    PROVE  ReaderAt(begun, k, o)'
  BY DEF ReaderAt, WordsRead, InWord, readerVars

\* The writer puts the code of a word at the end of what is on its way.
LEMMA PutStep ==
    ASSUME Encodable, WireInv, ~werr, ~rerr, UNCHANGED <<begun, readerVars>>,
           NEW i \in 1 .. Len(begun), NEW j \in 1 .. Len(begun[i]) + 1,
           WriterAt = <<i, j, 1>>, WriterAt' = WordAfter(begun, i, j),
           NEW n, NEW ok \in BOOLEAN, Push(Code(begun, i, j), n, ok)
    PROVE  StreamInv'
  <1>1. PICK k \in Nat \ {0}, o \in Nat, hi \in Cursor : Between(k, o, hi)
    BY DEF WireInv, StreamInv
  <1>2. begun \in Seq(Sentences) /\ buf \in Elements /\ wire \in Elements
    BY DEF WireInv, TypeOK, Elements
  <1>3. Code(begun, i, j) \in Elements
    BY <1>2, CodeType DEF Elements
  <1>4. wire' \o buf' = (wire \o buf) \o Code(begun, i, j)
    BY <1>2, <1>3, PushFact
  <1>5. wire \o buf \in Seq(Byte \cup Word)
    BY <1>2 DEF Elements
  <1>6. Walk(begun, wire \o buf, <<Len(received) + 1, k, o>>, <<i, j, 1>>)
    BY <1>1 DEF Between
  <1>7. Walk(begun, (wire \o buf) \o Code(begun, i, j), <<Len(received) + 1, k, o>>, WordAfter(begun, i, j))
    BY <1>2, <1>5, <1>6, WalkWord
  <1>8. begun' = begun /\ received' = received
    BY DEF readerVars
  <1>9. ReaderAt(begun, k, o)'
    BY <1>1, ReaderSame DEF Between
  <1>10. PICK to \in Cursor : to = WordAfter(begun, i, j)
    BY <1>2, WordAfterType
  <1>11. Between(k, o, to)'
    BY <1>4, <1>7, <1>8, <1>9, <1>10 DEF Between
  <1>. QED BY <1>11 DEF StreamInv

\* After an error nothing more is put on its way.
LEMMA DropStep ==
    ASSUME WireInv, werr, UNCHANGED <<begun, buf, wire, werr, readerVars>>
    PROVE  StreamInv'
  <1>. SUFFICES ASSUME ~rerr' PROVE \E k \in Nat \ {0}, o \in Nat, hi \in Cursor : Between(k, o, hi)'
    BY DEF StreamInv
  <1>1. PICK k \in Nat \ {0}, o \in Nat, hi \in Cursor : Between(k, o, hi)
    BY DEF readerVars, WireInv, StreamInv
  <1>2. ReaderAt(begun, k, o)'
    BY <1>1, ReaderSame DEF Between
  <1>3. Walk(begun, wire \o buf, <<Len(received) + 1, k, o>>, hi)
    BY <1>1 DEF Between
  <1>4. received' = received
    BY DEF readerVars
  <1>5. Between(k, o, hi)'
    BY <1>2, <1>3, <1>4 DEF Between
  <1>. QED BY <1>5

LEMMA WriteStep ==
    ASSUME Encodable, WireInv, WriteWord
    PROVE  TodoInv' /\ StreamInv' /\ RoundTrip'
  <1>1. /\ todo # <<>> /\ todo' = Tail(todo) /\ UNCHANGED <<begun, result, readerVars>>
    BY DEF WriteWord
  <1>2. begun \in Seq(Sentences) /\ result \in Seq(BOOLEAN) /\ todo \in Seq(Word) /\ werr \in BOOLEAN /\ rerr \in BOOLEAN
    BY DEF WireInv, TypeOK
  <1>3. PICK i \in Nat, q \in Nat : i = Len(begun) /\ q = Len(result) /\ i > q
    BY <1>1, <1>2 DEF WireInv, TodoInv
  <1>4. begun[i] \in Seq(Word) /\ Len(begun[i]) \in Nat /\ i \in 1 .. Len(begun)
    BY <1>2, <1>3, SentenceFact
  <1>5. PICK N \in Nat, t \in Nat : N = Len(begun[i]) /\ t = Len(todo) /\ t > 0 /\ t <= N
    BY <1>1, <1>2, <1>3, <1>4 DEF WireInv, TodoInv
  <1>6. \A j \in 1 .. t : todo[j] = begun[i][N - t + j]
    BY <1>2, <1>3, <1>5 DEF WireInv, TodoInv
  <1>7. Len(todo') = t - 1 /\ \A j \in 1 .. t - 1 : todo'[j] = todo[j + 1]
    BY <1>1, <1>2, <1>5
  <1>8. TodoInv'
    <2>1. \A j \in 1 .. t - 1 : todo'[j] = begun[i][N - (t - 1) + j]
      <3>. SUFFICES ASSUME NEW j \in 1 .. t - 1 PROVE todo'[j] = begun[i][N - (t - 1) + j]
        OBVIOUS
      <3>2. \A x, y \in Nat : \A z \in 1 .. y - 1 : z + 1 \in 1 .. y /\ x - y + (z + 1) = x - (y - 1) + z
        OBVIOUS
      <3>1. j + 1 \in 1 .. t /\ N - t + (j + 1) = N - (t - 1) + j
        BY <3>2
      <3>. QED BY <1>6, <1>7, <3>1
    <2>2. DOMAIN todo' = 1 .. t - 1
      BY <1>1, <1>2, <1>7
    <2>3. t - 1 <= N
      BY <1>5
    <2>. QED BY <1>1, <1>3, <1>5, <1>7, <2>1, <2>2, <2>3 DEF TodoInv
  <1>9. RoundTrip'
    BY <1>1 DEF WireInv, RoundTrip, readerVars
  <1>10. StreamInv'
    <2>1. CASE werr
      BY <1>1, <2>1, DropStep DEF WriteWord, KeepErr
    <2>2. CASE rerr
      BY <1>1, <2>2 DEF StreamInv, readerVars
    <2>3. CASE ~werr /\ ~rerr
      <3>. DEFINE w == Head(todo)
      <3>1. PICK n \in 0 .. Len(buf) + 6, ok \in BOOLEAN : Push(Append(Bytes(EncodeLength(w.len)), w), n, ok)
        BY <2>3 DEF WriteWord, KeepErr
      <3>11. \A x, y \in Nat : y <= x => x - y + 1 \in Nat
        OBVIOUS
      <3>10. N - t + 1 \in Nat
        BY <1>5, <3>11
      <3>2. PICK j \in Nat : j = N - t + 1
        BY <3>10
      <3>3. j >= 1 /\ j <= N /\ j \in 1 .. Len(begun[i]) + 1
        BY <1>5, <3>2
      <3>4. w = begun[i][j]
        <4>1. w = todo[1] /\ 1 \in 1 .. t
          BY <1>1, <1>2, <1>5
        <4>. QED BY <1>6, <3>2, <4>1
      <3>5. Code(begun, i, j) = Append(Bytes(EncodeLength(w.len)), w)
        BY <1>5, <3>3, <3>4 DEF Code
      <3>6. WriterAt = <<i, j, 1>>
        BY <1>3, <1>5, <3>2 DEF WriterAt
      <3>7. WriterAt' = WordAfter(begun, i, j)
        <4>1. WriterAt' = <<i, N - (t - 1) + 1, 1>>
          BY <1>1, <1>3, <1>5, <1>7 DEF WriterAt
        <4>2. WordAfter(begun, i, j) = <<i, j + 1, 1>>
          BY <1>5, <3>3 DEF WordAfter
        <4>3. N - (t - 1) + 1 = (N - t + 1) + 1
          BY <1>5
        <4>. QED BY <3>2, <4>1, <4>2, <4>3
      <3>. HIDE DEF w
      <3>8. Push(Code(begun, i, j), n, ok)
        BY <3>1, <3>5
      <3>9. UNCHANGED <<begun, readerVars>>
        BY <1>1
      <3>. QED BY <1>4, <2>3, <3>3, <3>6, <3>7, <3>8, <3>9, PutStep
    <2>. QED BY <1>2, <2>1, <2>2, <2>3
  <1>. QED BY <1>8, <1>9, <1>10

LEMMA EndStep ==
    ASSUME Encodable, WireInv, EndSentence
    PROVE  TodoInv' /\ StreamInv' /\ RoundTrip'
  <1>1. /\ todo = <<>> /\ Len(begun) > Len(result) /\ result' = Append(result, ~werr')
        /\ UNCHANGED <<todo, begun, readerVars>>
    BY DEF EndSentence
  <1>2. /\ begun \in Seq(Sentences) /\ result \in Seq(BOOLEAN) /\ werr \in BOOLEAN /\ rerr \in BOOLEAN
        /\ Len(result) \in {Len(begun), Len(begun) - 1}
    BY DEF WireInv, TypeOK
  <1>3. PICK i \in Nat : i = Len(begun) /\ i \in 1 .. Len(begun) /\ Len(result) = i - 1 /\ Len(result') = i
    <2>1. PICK p \in Nat, q \in Nat : p = Len(begun) /\ q = Len(result) /\ Len(result') = q + 1
      BY <1>1, <1>2
    <2>. QED BY <1>1, <1>2, <2>1
  <1>4. begun[i] \in Seq(Word) /\ Len(begun[i]) \in Nat
    BY <1>2, <1>3, SentenceFact
  <1>5. PICK N \in Nat : N = Len(begun[i])
    BY <1>4
  <1>6. TodoInv'
    BY <1>1, <1>3 DEF TodoInv
  <1>7. RoundTrip'
    BY <1>1 DEF WireInv, RoundTrip, readerVars
  <1>8. StreamInv'
    <2>1. CASE werr
      BY <1>1, <2>1, DropStep DEF EndSentence, KeepErr
    <2>2. CASE rerr
      BY <1>1, <2>2 DEF StreamInv, readerVars
    <2>3. CASE ~werr /\ ~rerr
      <3>1. PICK n \in 0 .. Len(buf) + 1, ok \in BOOLEAN : Push(Bytes(EncodeLength(0)), n, ok)
        BY <2>3 DEF EndSentence, KeepErr
      <3>2. PICK j \in Nat : j = N + 1 /\ ~(j <= N) /\ j \in 1 .. Len(begun[i]) + 1
        BY <1>5
      <3>3. Code(begun, i, j) = Bytes(EncodeLength(0))
        BY <1>5, <3>2 DEF Code
      <3>4. WriterAt = <<i, j, 1>>
        <4>1. Len(todo) = 0 /\ N - 0 + 1 = j
          BY <1>1, <3>2
        <4>. QED BY <1>1, <1>3, <1>5, <4>1 DEF WriterAt
      <3>5. WriterAt' = WordAfter(begun, i, j)
        <4>1. WriterAt' = <<i + 1, 1, 1>>
          BY <1>1, <1>3 DEF WriterAt
        <4>2. WordAfter(begun, i, j) = <<i + 1, 1, 1>>
          BY <1>5, <3>2 DEF WordAfter
        <4>. QED BY <4>1, <4>2
      <3>6. Push(Code(begun, i, j), n, ok)
        BY <3>1, <3>3
      <3>7. UNCHANGED <<begun, readerVars>>
        BY <1>1
      <3>. QED BY <1>3, <2>3, <3>2, <3>4, <3>5, <3>6, <3>7, PutStep
    <2>. QED BY <1>2, <2>1, <2>2, <2>3
  <1>. QED BY <1>6, <1>7, <1>8

\* The cursor after one.
LEMMA FollowingFact ==
    ASSUME NEW b, NEW i, NEW k, NEW o, NEW m, m = o + 1
    PROVE  /\ o < Len(Code(b, i, k)) => Following(b, <<i, k, o>>) = <<i, k, m>>
           /\ ~(o < Len(Code(b, i, k))) => Following(b, <<i, k, o>>) = WordAfter(b, i, k)
  BY DEF Following

\* Where the reader is, and what it takes.
LEMMA TakeFact ==
    ASSUME WireInv, wire # <<>>, NEW k \in Nat \ {0}, NEW o \in Nat, NEW hi \in Cursor,
           Between(k, o, hi)
    PROVE  LET i == Len(received) + 1
           IN  /\ i \in 1 .. Len(begun) /\ Len(begun[i]) \in Nat /\ Len(begun[i]) > 0
               /\ k \in 1 .. Len(begun[i]) + 1
               /\ o \in 1 .. Len(Code(begun, i, k))
               /\ Head(wire) = Code(begun, i, k)[o]
               /\ Walk(begun, Tail(wire) \o buf, Following(begun, <<i, k, o>>), hi)
  <1>. DEFINE i == Len(received) + 1
  <1>1. begun \in Seq(Sentences) /\ buf \in Elements /\ wire \in Elements
    BY DEF WireInv, TypeOK, Elements
  <1>2. PICK S \in Seq(Byte \cup Word) : S = wire \o buf
    <2>1. \A u, v \in Seq(Byte \cup Word) : u \o v \in Seq(Byte \cup Word)
      OBVIOUS
    <2>. QED BY <1>1, <2>1 DEF Elements
  <1>3. S # <<>> /\ Head(S) = Head(wire) /\ Tail(S) = Tail(wire) \o buf
    <2>1. \A u, v \in Seq(Byte \cup Word) : u # <<>> =>
              u \o v # <<>> /\ Head(u \o v) = Head(u)
      OBVIOUS
    <2>2. \A u, v \in Seq(Byte \cup Word) : u # <<>> => Tail(u \o v) = Tail(u) \o v
      OBVIOUS
    <2>. QED BY <1>1, <1>2, <2>1, <2>2 DEF Elements
  <1>4. PICK lo : lo = <<i, k, o>>
    OBVIOUS
  <1>5. Walk(begun, S, lo, hi)
    BY <1>2, <1>4 DEF Between
  <1>6. /\ Valid(begun, lo) /\ Head(S) = At(begun, lo)
        /\ Walk(begun, Tail(S), Following(begun, lo), hi)
    BY <1>1, <1>3, <1>5, WalkTail
  <1>7. /\ i \in 1 .. Len(begun) /\ k \in 1 .. Len(begun[i]) + 1
        /\ o \in 1 .. Len(Code(begun, i, k)) /\ Head(S) = Code(begun, i, k)[o]
    BY <1>4, <1>6 DEF Valid, At
  <1>8. Len(begun[i]) \in Nat /\ Len(begun[i]) > 0
    BY <1>1, <1>7, SentenceFact
  <1>. QED BY <1>3, <1>4, <1>6, <1>7, <1>8

LEMMA TakeStep ==
    ASSUME WireInv, NEW hi \in Cursor, ~werr => hi = WriterAt,
           NEW k \in Nat \ {0}, NEW o \in Nat, wire' = Tail(wire), UNCHANGED writerVars,
           Walk(begun, Tail(wire) \o buf, <<Len(received') + 1, k, o>>, hi),
           ReaderAt(begun, k, o)'
    PROVE  StreamInv'
  <1>1. begun' = begun /\ buf' = buf /\ werr' = werr /\ WriterAt' = WriterAt
    BY DEF writerVars, WriterAt
  <1>2. Between(k, o, hi)'
    BY <1>1 DEF Between
  <1>. QED BY <1>2 DEF StreamInv

\* Of word k of sentence i of b: its length l, and the c bytes f of that.
LengthIs(b, i, k, l, c, f) ==
    /\ l = b[i][k].len /\ l > 0 /\ l \div 65536 < 65536
    /\ f = EncodeLength(l) /\ c = Len(f)
    /\ Len(Code(b, i, k)) = c + 1
    /\ \A o \in 1 .. c : f[o] \in Nat /\ Code(b, i, k)[o] = [kind |-> "byte", len |-> f[o]]
    /\ Code(b, i, k)[c + 1] = b[i][k] /\ b[i][k] \in Word

LEMMA LengthAt ==
    ASSUME Encodable, NEW b \in Seq(Sentences), NEW i \in 1 .. Len(b), NEW k \in 1 .. Len(b[i])
    PROVE  \E l \in Nat, c \in 1 .. 5, f \in Seq(Octet) : LengthIs(b, i, k, l, c, f)
  <1>1. /\ b[i][k] \in Word /\ b[i][k].len \in Nat /\ b[i][k].len > 0 /\ b[i][k].len \div 65536 < 65536
    BY CodeWord
  <1>2. PICK l \in Nat : l = b[i][k].len
    BY <1>1
  <1>3. EncodeLength(l) \in Seq(Octet) /\ Len(EncodeLength(l)) \in 1 .. 5
    BY EncodeType
  <1>4. PICK f \in Seq(Octet) : f = EncodeLength(l) /\ Len(f) \in 1 .. 5
    BY <1>3
  <1>5. PICK c \in 1 .. 5 : c = Len(f)
    BY <1>4
  <1>6. \A o \in 1 .. c : f[o] \in Nat
    <2>1. \A x \in Octet : x \in Nat
      BY DEF Octet
    <2>. QED BY <1>5, <2>1
  <1>7. /\ Len(Code(b, i, k)) = c + 1 /\ Code(b, i, k)[c + 1] = b[i][k]
        /\ \A o \in 1 .. c : Code(b, i, k)[o] = [kind |-> "byte", len |-> f[o]]
    BY <1>2, <1>4, <1>5, CodeWord
  <1>8. LengthIs(b, i, k, l, c, f)
    BY <1>1, <1>2, <1>4, <1>5, <1>6, <1>7 DEF LengthIs
  <1>. QED BY <1>8

LEMMA FirstStep ==
    ASSUME Encodable, WireInv, ReadFirst
    PROVE  StreamInv' /\ RoundTrip'
  <1>1. /\ phase = "first" /\ ~rerr /\ wire # <<>> /\ wire' = Tail(wire)
        /\ UNCHANGED <<rerr, writerVars>>
    BY DEF ReadFirst
  <1>2. PICK k \in Nat \ {0}, o \in Nat, hi \in Cursor : Between(k, o, hi)
    BY <1>1 DEF WireInv, StreamInv
  <1>0. PICK i \in Nat : i = Len(received) + 1
    BY DEF WireInv, TypeOK
  <1>3. ReaderAt(begun, k, o) /\ (~werr => hi = WriterAt)
    BY <1>2 DEF Between
  <1>4. o = 1 /\ WordsRead(begun, i, k)
    BY <1>0, <1>1, <1>3 DEF ReaderAt, InWord
  <1>5. /\ i \in 1 .. Len(begun) /\ Len(begun[i]) \in Nat /\ Len(begun[i]) > 0
        /\ k \in 1 .. Len(begun[i]) + 1
        /\ Head(wire) = Code(begun, i, k)[1]
        /\ Walk(begun, Tail(wire) \o buf, Following(begun, <<i, k, 1>>), hi)
    BY <1>0, <1>1, <1>2, <1>4, TakeFact
  <1>6. begun \in Seq(Sentences) /\ received \in Seq(Sentence) /\ begun' = begun
    BY <1>1 DEF WireInv, TypeOK, writerVars
  <1>7. CASE k \in 1 .. Len(begun[i])
    <2>1. PICK l \in Nat, C \in 1 .. 5, f \in Seq(Octet) : LengthIs(begun, i, k, l, C, f)
      BY <1>5, <1>6, <1>7, LengthAt
    <2>5. /\ l = begun[i][k].len /\ l > 0 /\ l \div 65536 < 65536
          /\ f = EncodeLength(l) /\ C = Len(f)
      BY <2>1 DEF LengthIs
    <2>7. Len(Code(begun, i, k)) = C + 1
      BY <2>1 DEF LengthIs
    <2>8. \A j \in 1 .. C : f[j] \in Nat /\ Code(begun, i, k)[j] = [kind |-> "byte", len |-> f[j]]
      BY <2>1 DEF LengthIs
    <2>2. PICK b \in Nat : b = f[1] /\ Head(wire).len = b
      <3>1. 1 \in 1 .. C
        OBVIOUS
      <3>2. f[1] \in Nat /\ Head(wire) = [kind |-> "byte", len |-> f[1]]
        BY <1>5, <2>8, <3>1
      <3>. QED BY <3>2
    <2>3. FirstSays(l, C, b)
      BY <2>2, <2>5, FirstByte
    <2>4. Following(begun, <<i, k, 1>>) = <<i, k, 2>>
      <3>1. 1 < Len(Code(begun, i, k))
        BY <2>7
      <3>2. PICK m \in Nat : m = 1 + 1
        OBVIOUS
      <3>3. Following(begun, <<i, k, 1>>) = <<i, k, m>>
        BY <3>1, <3>2, FollowingFact
      <3>4. m = 2
        BY <3>2
      <3>. QED BY <3>3, <3>4
    <2>6. /\ received' = received /\ sen' = sen
          /\ \/ phase' = "payload" /\ C = 1 /\ acc' = l
             \/ phase' = "more" /\ need' = C - 1 /\ acc' = l \div Place(C - 1) /\ C >= 2
      <3>0. FirstSays(l, C, b)
        BY <2>3
      <3>00. /\ \/ (b < 128 \/ b > 247) /\ HaveLength(b)
                \/ b \in 128 .. 191 /\ WantMore(1, b % 64)
                \/ b \in 192 .. 223 /\ WantMore(2, b % 32)
                \/ b \in 224 .. 239 /\ WantMore(3, b % 16)
                \/ b \in 240 .. 247 /\ WantMore(4, 0)
        BY <2>2 DEF ReadFirst
      <3>1. CASE (b < 128 \/ b > 247) /\ C = 1 /\ b = l
        <4>1. HaveLength(l) /\ l > 0
          <5>1. b \notin 128 .. 191 /\ b \notin 192 .. 223 /\ b \notin 224 .. 239 /\ b \notin 240 .. 247
            BY <3>1, SMT
          <5>. QED BY <2>5, <3>00, <3>1, <5>1
        <4>. QED BY <3>1, <4>1 DEF HaveLength
      <3>2. CASE b \in 128 .. 191 /\ C = 2 /\ b % 64 = l \div Place(1)
        <4>1. WantMore(1, l \div Place(1)) /\ C - 1 = 1
          BY <3>00, <3>2, SMT
        <4>. QED BY <3>2, <4>1 DEF WantMore
      <3>3. CASE b \in 192 .. 223 /\ C = 3 /\ b % 32 = l \div Place(2)
        <4>1. WantMore(2, l \div Place(2)) /\ C - 1 = 2
          BY <3>00, <3>3, SMT
        <4>. QED BY <3>3, <4>1 DEF WantMore
      <3>4. CASE b \in 224 .. 239 /\ C = 4 /\ b % 16 = l \div Place(3)
        <4>1. WantMore(3, l \div Place(3)) /\ C - 1 = 3
          BY <3>00, <3>4, SMT
        <4>. QED BY <3>4, <4>1 DEF WantMore
      <3>5. CASE b \in 240 .. 247 /\ C = 5 /\ 0 = l \div Place(4)
        <4>1. WantMore(4, l \div Place(4)) /\ C - 1 = 4
          BY <3>00, <3>5, SMT
        <4>. QED BY <3>5, <4>1 DEF WantMore
      <3>. QED BY <3>0, <3>1, <3>2, <3>3, <3>4, <3>5 DEF FirstSays
    <2>9. ReaderAt(begun, k, 2)'
      <3>1. WordsRead(begun, i, k)'
        BY <1>4, <1>6, <2>6 DEF WordsRead
      <3>2. InWord(begun, i, k, 2)'
        <4>1. C - 2 + 1 = C - 1 /\ (C >= 2 => 2 \in 2 .. C) /\ (C = 1 => 2 = C + 1)
          OBVIOUS
        <4>2. i = Len(received') + 1
          BY <1>0, <2>6
        <4>3. i <= Len(begun) /\ k <= Len(begun[i])
          BY <1>5, <1>7
        <4>. QED BY <1>6, <2>5, <2>6, <4>1, <4>2, <4>3 DEF InWord
      <3>. QED BY <1>0, <2>6, <3>1, <3>2 DEF ReaderAt
    <2>10. StreamInv'
      <3>1. Walk(begun, Tail(wire) \o buf, <<Len(received') + 1, k, 2>>, hi)
        BY <1>0, <1>5, <2>4, <2>6
      <3>. QED BY <1>1, <1>3, <2>9, <3>1, TakeStep
    <2>11. RoundTrip'
      BY <1>6, <2>6 DEF WireInv, RoundTrip
    <2>. QED BY <2>10, <2>11
  <1>8. CASE k = Len(begun[i]) + 1
    <2>1. Len(Code(begun, i, k)) = 1 /\ Code(begun, i, k)[1] = [kind |-> "byte", len |-> 0]
      BY <1>5, <1>6, <1>8, CodeEnd
    <2>2. Head(wire).len = 0
      BY <1>5, <2>1
    <2>3. HaveLength(0)
      <3>1. 0 \notin 128 .. 191 /\ 0 \notin 192 .. 223 /\ 0 \notin 224 .. 239 /\ 0 \notin 240 .. 247
        BY SMT
      <3>. QED BY <2>2, <3>1 DEF ReadFirst
    <2>4. received' = Append(received, sen) /\ sen' = NoSentence /\ phase' = "first"
      BY <2>3 DEF HaveLength
    <2>5. Following(begun, <<i, k, 1>>) = <<i + 1, 1, 1>>
      <3>1. ~(k <= Len(begun[i]))
        BY <1>5, <1>8
      <3>2. WordAfter(begun, i, k) = <<i + 1, 1, 1>>
        BY <3>1 DEF WordAfter
      <3>3. ~(1 < Len(Code(begun, i, k)))
        BY <2>1
      <3>4. Following(begun, <<i, k, 1>>) = WordAfter(begun, i, k)
        BY <3>3, FollowingFact
      <3>. QED BY <3>2, <3>4
    <2>6. PICK p \in Nat : /\ p = Len(received) /\ i = p + 1 /\ Len(received') = p + 1
                           /\ received'[p + 1] = sen /\ DOMAIN received' = 1 .. p + 1
                           /\ DOMAIN received = 1 .. p
                           /\ \A j \in 1 .. p : received'[j] = received[j]
      BY <1>0, <1>6, <2>4
    <2>7. MadeOf(begun[i], sen)
      <3>1. MadeOf(SubSeq(begun[i], 1, k - 1), sen)
        BY <1>4, <1>5, <1>8 DEF WordsRead
      <3>2. SubSeq(begun[i], 1, k - 1) = begun[i]
        <4>1. begun[i] \in Seq(Word)
          BY <1>5, <1>6, SentenceFact
        <4>2. k - 1 = Len(begun[i])
          BY <1>5, <1>8
        <4>3. \A s \in Seq(Word) : SubSeq(s, 1, Len(s)) = s
          OBVIOUS
        <4>. QED BY <4>1, <4>2, <4>3
      <3>. QED BY <3>1, <3>2
    <2>8. RoundTrip'
      <3>1. Len(received') <= Len(begun)
        BY <1>5, <2>6
      <3>2. \A j \in 1 .. p : MadeOf(begun[j], received[j])
        BY <2>6 DEF WireInv, RoundTrip
      <3>3. \A j \in 1 .. p + 1 : j \in 1 .. p \/ j = p + 1
        OBVIOUS
      <3>4. \A j \in 1 .. p + 1 : MadeOf(begun[j], received'[j])
        BY <2>6, <2>7, <3>2, <3>3
      <3>. QED BY <1>6, <2>6, <3>1, <3>4 DEF RoundTrip
    <2>9. StreamInv'
      <3>1. ReaderAt(begun, 1, 1)'
        BY <2>4 DEF ReaderAt, WordsRead
      <3>2. Walk(begun, Tail(wire) \o buf, <<Len(received') + 1, 1, 1>>, hi)
        BY <1>5, <2>5, <2>6
      <3>. QED BY <1>1, <1>3, <3>1, <3>2, TakeStep
    <2>. QED BY <2>8, <2>9
  <1>9. k \in 1 .. Len(begun[i]) \/ k = Len(begun[i]) + 1
    BY <1>5
  <1>. QED BY <1>7, <1>8, <1>9

LEMMA MoreStep ==
    ASSUME Encodable, WireInv, ReadMore
    PROVE  StreamInv' /\ RoundTrip'
  <1>1. /\ phase = "more" /\ ~rerr /\ wire # <<>> /\ wire' = Tail(wire)
        /\ UNCHANGED <<rerr, writerVars>>
    BY DEF ReadMore
  <1>2. PICK k \in Nat \ {0}, o \in Nat, hi \in Cursor : Between(k, o, hi)
    BY <1>1 DEF WireInv, StreamInv
  <1>0. PICK i \in Nat : i = Len(received) + 1
    BY DEF WireInv, TypeOK
  <1>3. ReaderAt(begun, k, o) /\ (~werr => hi = WriterAt)
    BY <1>2 DEF Between
  <1>4. WordsRead(begun, i, k) /\ InWord(begun, i, k, o)
    BY <1>0, <1>1, <1>3 DEF ReaderAt
  <1>5. /\ i \in 1 .. Len(begun) /\ Len(begun[i]) \in Nat /\ k \in 1 .. Len(begun[i]) + 1
        /\ Head(wire) = Code(begun, i, k)[o]
        /\ Walk(begun, Tail(wire) \o buf, Following(begun, <<i, k, o>>), hi)
    BY <1>0, <1>1, <1>2, TakeFact
  <1>6. begun \in Seq(Sentences) /\ received \in Seq(Sentence) /\ begun' = begun
    BY <1>1 DEF WireInv, TypeOK, writerVars
  <1>7. k \in 1 .. Len(begun[i])
    BY <1>4, <1>5 DEF InWord
  <1>8. PICK l \in Nat, C \in 1 .. 5, f \in Seq(Octet) : LengthIs(begun, i, k, l, C, f)
    BY <1>5, <1>6, <1>7, LengthAt
  <1>9. /\ l = begun[i][k].len /\ l > 0 /\ l \div 65536 < 65536
        /\ f = EncodeLength(l) /\ C = Len(f)
    BY <1>8 DEF LengthIs
  <1>10. Len(Code(begun, i, k)) = C + 1
    BY <1>8 DEF LengthIs
  <1>11. \A j \in 1 .. C : f[j] \in Nat /\ Code(begun, i, k)[j] = [kind |-> "byte", len |-> f[j]]
    BY <1>8 DEF LengthIs
  <1>12. o \in 2 .. C /\ need = C - o + 1 /\ acc = l \div Place(need)
    BY <1>1, <1>4, <1>9 DEF InWord
  <1>13. PICK n \in Nat : n = acc * 256 + Head(wire).len /\ n = l \div Place(C - o)
    <2>1. o \in 1 .. C
      BY <1>12
    <2>2. Head(wire).len = f[o]
      <3>1. Head(wire) = [kind |-> "byte", len |-> f[o]]
        BY <1>5, <1>11, <2>1
      <3>. QED BY <3>1
    <2>3. (l \div Place(C - o + 1)) * 256 + f[o] = l \div Place(C - o)
      BY <1>9, <1>12, MoreByte
    <2>4. f[o] \in Nat /\ acc \in Nat
      BY <1>11, <2>1 DEF WireInv, TypeOK
    <2>5. acc * 256 + f[o] \in Nat
      BY <2>4
    <2>. QED BY <1>12, <2>2, <2>3, <2>5
  <1>14. PICK m \in Nat : m = o + 1
    OBVIOUS
  <1>15. Following(begun, <<i, k, o>>) = <<i, k, m>>
    <2>1. o < Len(Code(begun, i, k))
      BY <1>10, <1>12
    <2>. QED BY <1>14, <2>1, FollowingFact
  <1>16. /\ received' = received /\ sen' = sen
         /\ \/ phase' = "more" /\ m \in 2 .. C /\ need' = C - m + 1 /\ acc' = l \div Place(need')
            \/ phase' = "payload" /\ m = C + 1 /\ acc' = l
    <2>0. \/ need > 1 /\ WantMore(need - 1, n)
          \/ need = 1 /\ HaveLength(n)
      BY <1>13 DEF ReadMore
    <2>1. CASE need > 1 /\ WantMore(need - 1, n)
      <3>1. received' = received /\ sen' = sen /\ phase' = "more" /\ need' = need - 1 /\ acc' = n
        BY <2>1 DEF WantMore
      <3>2. m \in 2 .. C /\ need - 1 = C - m + 1 /\ C - o = C - m + 1
        BY <1>12, <1>14, <2>1
      <3>. QED BY <1>13, <3>1, <3>2
    <2>2. CASE need = 1 /\ HaveLength(n)
      <3>1. o = C /\ C - o = 0
        BY <1>12, <2>2
      <3>2. l \div Place(0) = l
        <4>1. Place(0) = 1 /\ l \div 1 = l
          BY SMT DEF Place
        <4>. QED BY <4>1
      <3>3. n = l
        BY <1>13, <3>1, <3>2
      <3>4. n > 0
        BY <1>9, <3>3
      <3>5. received' = received /\ sen' = sen /\ phase' = "payload" /\ acc' = n
        BY <2>2, <3>4 DEF HaveLength
      <3>. QED BY <1>14, <3>1, <3>3, <3>5
    <2>. QED BY <2>0, <2>1, <2>2
  <1>17. ReaderAt(begun, k, m)'
    <2>1. WordsRead(begun, i, k)'
      BY <1>4, <1>6, <1>16 DEF WordsRead
    <2>2. InWord(begun, i, k, m)'
      <3>1. i <= Len(begun) /\ k <= Len(begun[i])
        BY <1>5, <1>7
      <3>. QED BY <1>6, <1>9, <1>16, <3>1 DEF InWord
    <2>. QED BY <1>0, <1>16, <2>1, <2>2 DEF ReaderAt
  <1>18. StreamInv'
    <2>1. Walk(begun, Tail(wire) \o buf, <<Len(received') + 1, k, m>>, hi)
      BY <1>0, <1>5, <1>15, <1>16
    <2>. QED BY <1>1, <1>3, <1>17, <2>1, TakeStep
  <1>19. RoundTrip'
    BY <1>6, <1>16 DEF WireInv, RoundTrip
  <1>. QED BY <1>18, <1>19

LEMMA PayloadStep ==
    ASSUME Encodable, WireInv, ReadPayload
    PROVE  StreamInv' /\ RoundTrip'
  <1>1. /\ phase = "payload" /\ ~rerr /\ wire # <<>> /\ wire' = Tail(wire)
        /\ phase' = "first" /\ UNCHANGED <<received, writerVars>>
    BY DEF ReadPayload
  <1>2. PICK k \in Nat \ {0}, o \in Nat, hi \in Cursor : Between(k, o, hi)
    BY <1>1 DEF WireInv, StreamInv
  <1>0. PICK i \in Nat : i = Len(received) + 1
    BY DEF WireInv, TypeOK
  <1>3. ReaderAt(begun, k, o) /\ (~werr => hi = WriterAt)
    BY <1>2 DEF Between
  <1>4. WordsRead(begun, i, k) /\ InWord(begun, i, k, o)
    BY <1>0, <1>1, <1>3 DEF ReaderAt
  <1>5. /\ i \in 1 .. Len(begun) /\ Len(begun[i]) \in Nat /\ k \in 1 .. Len(begun[i]) + 1
        /\ Head(wire) = Code(begun, i, k)[o]
        /\ Walk(begun, Tail(wire) \o buf, Following(begun, <<i, k, o>>), hi)
    BY <1>0, <1>1, <1>2, TakeFact
  <1>6. begun \in Seq(Sentences) /\ received \in Seq(Sentence) /\ begun' = begun /\ sen \in Sentence
    BY <1>1 DEF WireInv, TypeOK, writerVars
  <1>7. k \in 1 .. Len(begun[i])
    BY <1>4, <1>5 DEF InWord
  <1>8. PICK l \in Nat, C \in 1 .. 5, f \in Seq(Octet) : LengthIs(begun, i, k, l, C, f)
    BY <1>5, <1>6, <1>7, LengthAt
  <1>9. l = begun[i][k].len /\ f = EncodeLength(l) /\ C = Len(f)
    BY <1>8 DEF LengthIs
  <1>10. Len(Code(begun, i, k)) = C + 1
    BY <1>8 DEF LengthIs
  <1>11. Code(begun, i, k)[C + 1] = begun[i][k] /\ begun[i][k] \in Word
    BY <1>8 DEF LengthIs
  <1>12. o = C + 1
    BY <1>1, <1>4, <1>9 DEF InWord
  <1>13. Head(wire) = begun[i][k]
    BY <1>5, <1>11, <1>12
  <1>14. PICK m \in Nat : m = k + 1
    OBVIOUS
  <1>15. Following(begun, <<i, k, o>>) = <<i, m, 1>>
    <2>1. ~(o < Len(Code(begun, i, k)))
      BY <1>10, <1>12
    <2>2. Following(begun, <<i, k, o>>) = WordAfter(begun, i, k)
      BY <1>14, <2>1, FollowingFact
    <2>. QED BY <1>5, <1>7, <1>14, <2>2 DEF WordAfter
  <1>16. RoundTrip'
    BY <1>1, <1>6 DEF WireInv, RoundTrip
  <1>17. CASE rerr'
    BY <1>16, <1>17 DEF StreamInv
  <1>18. CASE ~rerr'
    <2>. DEFINE w == begun[i][k]
                s == Assembled(sen, w)
    <2>1. s # None /\ sen' = s
      BY <1>13, <1>18 DEF ReadPayload
    <2>. HIDE DEF s
    <2>2. begun[i] \in Seq(Word)
      BY <1>5, <1>6, SentenceFact
    <2>3. MadeOf(SubSeq(begun[i], 1, k), s)
      <3>1. CASE k = 1
        <4>1. sen = NoSentence
          BY <1>4, <3>1 DEF WordsRead
        <4>2. MadeOf(<<w>>, s)
          BY <1>11, <4>1, FirstWord DEF s
        <4>3. SubSeq(begun[i], 1, 1) = <<w>>
          <5>1. ASSUME NEW u \in Seq(Word), Len(u) >= 1 PROVE SubSeq(u, 1, 1) = <<u[1]>>
            <6>1. PICK v : v = SubSeq(u, 1, 1)
              OBVIOUS
            <6>2. v \in Seq(Word) /\ Len(v) = 1 /\ v[1] = u[1]
              BY <5>1, <6>1
            <6>3. v = <<v[1]>>
              BY <6>2
            <6>. QED BY <6>1, <6>2, <6>3
          <5>2. Len(begun[i]) >= 1
            BY <1>5, <1>7
          <5>. QED BY <2>2, <3>1, <5>1, <5>2
        <4>. QED BY <3>1, <4>2, <4>3
      <3>2. CASE k # 1
        <4>1. MadeOf(SubSeq(begun[i], 1, k - 1), sen)
          BY <1>4, <3>2 DEF WordsRead
        <4>2. PICK ws : ws = SubSeq(begun[i], 1, k - 1)
          OBVIOUS
        <4>3. ws \in Seq(Word) /\ Len(ws) = k - 1 /\ \A j \in 1 .. k - 1 : ws[j] = begun[i][j]
          BY <1>5, <1>7, <2>2, <4>2
        <4>4. ws # <<>>
          BY <3>2, <4>3
        <4>5. MadeOf(Append(ws, w), s)
          BY <1>6, <1>11, <2>1, <4>1, <4>2, <4>3, <4>4, NextWord DEF s
        <4>6. Append(ws, w) = SubSeq(begun[i], 1, k)
          BY <1>5, <1>7, <2>2, <4>2
        <4>. QED BY <4>5, <4>6
      <3>. QED BY <3>1, <3>2
    <2>4. ReaderAt(begun, m, 1)'
      <3>1. m # 1 /\ m - 1 = k /\ i <= Len(begun) /\ m <= Len(begun[i]) + 1
        BY <1>5, <1>7, <1>14
      <3>2. WordsRead(begun, i, m)'
        BY <1>6, <2>1, <2>3, <3>1 DEF WordsRead
      <3>. QED BY <1>0, <1>1, <3>2 DEF ReaderAt
    <2>5. StreamInv'
      <3>1. Walk(begun, Tail(wire) \o buf, <<Len(received') + 1, m, 1>>, hi)
        BY <1>0, <1>1, <1>5, <1>15
      <3>2. m \in Nat \ {0}
        BY <1>14
      <3>3. UNCHANGED writerVars
        BY <1>1
      <3>. QED BY <1>1, <1>3, <2>4, <3>1, <3>2, <3>3, TakeStep
    <2>. QED BY <1>16, <2>5
  <1>. QED BY <1>17, <1>18

LEMMA WireNext ==
    ASSUME Encodable
    PROVE  WireInv /\ [Next]_vars => WireInv'
  <1>. SUFFICES ASSUME WireInv, [Next]_vars PROVE WireInv'
    OBVIOUS
  <1>1. TypeOK'
    BY TypeNext DEF WireInv
  <1>2. CASE \E s \in Sentences : BeginSentence(s)
    BY <1>1, <1>2, BeginStep DEF WireInv
  <1>3. CASE WriteWord
    BY <1>1, <1>3, WriteStep DEF WireInv
  <1>4. CASE EndSentence
    BY <1>1, <1>4, EndStep DEF WireInv
  <1>5. CASE Read
    <2>1. TodoInv'
      BY <1>5 DEF Read, ReadFirst, ReadMore, ReadPayload, WireInv, TodoInv, writerVars
    <2>2. StreamInv' /\ RoundTrip'
      BY <1>5, FirstStep, MoreStep, PayloadStep DEF Read
    <2>. QED BY <1>1, <2>1, <2>2 DEF WireInv
  <1>6. CASE UNCHANGED vars
    <2>1. /\ UNCHANGED <<todo, buf, werr, begun, result, wire>>
          /\ UNCHANGED <<phase, need, acc, sen, received, rerr>>
      BY <1>6 DEF vars, writerVars, readerVars
    <2>2. TodoInv' /\ RoundTrip'
      BY <2>1 DEF WireInv, TodoInv, RoundTrip
    <2>3. StreamInv'
      <3>. SUFFICES ASSUME ~rerr' PROVE \E k \in Nat \ {0}, o \in Nat, hi \in Cursor : Between(k, o, hi)'
        BY DEF StreamInv
      <3>1. PICK k \in Nat \ {0}, o \in Nat, hi \in Cursor : Between(k, o, hi)
        BY <2>1 DEF WireInv, StreamInv
      <3>2. ReaderAt(begun, k, o)'
        BY <2>1, <3>1, ReaderSame DEF Between, readerVars
      <3>3. WriterAt' = WriterAt
        BY <2>1 DEF WriterAt
      <3>4. Between(k, o, hi)'
        BY <2>1, <3>1, <3>2, <3>3 DEF Between
      <3>. QED BY <3>4
    <2>. QED BY <1>1, <2>2, <2>3 DEF WireInv
  <1>. QED BY <1>2, <1>3, <1>4, <1>5, <1>6 DEF Next

\* What ReadSentence returns are the sentences written, whole and in order.
THEOREM SentencesArriveWhole ==
    ASSUME Encodable
    PROVE  Spec => []RoundTrip
  <1>1. WireInv /\ [Next]_vars => WireInv'
    BY WireNext
  <1>2. WireInv => RoundTrip
    BY DEF WireInv
  <1>. QED BY <1>1, <1>2, WireInit, PTL DEF Spec
=============================================================================
