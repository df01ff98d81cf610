------------------------------- MODULE MCWire -------------------------------
(***************************************************************************)
(* Wire with words at the bounds of every form of the length.              *)
(***************************************************************************)
EXTENDS Wire

Bang(n) == [kind |-> "bang", len |-> n]
TagWord(n) == [kind |-> "tag", len |-> n]
Pair(n) == [kind |-> "pair", len |-> n]
Query(n) == [kind |-> "query", len |-> n]

BoundarySentences ==
    {<<Bang(5)>>,
     <<Bang(3), Pair(127), Pair(128), TagWord(7)>>,
     <<Bang(3), TagWord(7), TagWord(8), Pair(16383)>>,
     <<Bang(3), Pair(16384)>>,
     <<Bang(3), Pair(2097151), Pair(2097152)>>,
     <<Bang(3), Pair(268435455)>>,
     <<Bang(3), Pair(268435456)>>,
     <<TagWord(7), Pair(4)>>,
     <<Bang(3), Query(5), Pair(4)>>}

ASSUME EncodableAssumption == Encodable
=============================================================================
