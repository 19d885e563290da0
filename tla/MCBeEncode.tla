----------------------------- MODULE MCBeEncode -----------------------------
(***************************************************************************)
(* BeEncode on a set of small trees with every buffer size up to CapMax,   *)
(* checked against the encoding the format prescribes.                     *)
(***************************************************************************)
EXTENDS BeEncode, SequencesExt

CONSTANT CapMax

MCInts    == {-12, 0, 1, 2, 10}
MCDecimal == [n \in MCInts |-> CASE n = -12 -> <<"-", "1", "2">>
                                 [] n = 0   -> <<"0">>
                                 [] n = 1   -> <<"1">>
                                 [] n = 2   -> <<"2">>
                                 [] n = 10  -> <<"1", "0">>]
MCByte    == Syntax \cup {"0", "1", "2", "-", "x"}
MCCaps    == 0..CapMax

-----------------------------------------------------------------------------
(* Trees of depth three at most; one string is NULL, as the decoder leaves *)
(* it when its length is wrong, and one needs a length of two digits.      *)

Cs(s)      == [null |-> FALSE, s |-> s]
NoStr      == [null |-> TRUE, s |-> <<>>]
Ten        == [k \in 1..10 |-> "x"]
Tree(type) == [type |-> type, i |-> 0, s |-> NoStr, l |-> <<>>, d |-> <<>>]
Leaves     == {[Tree("int") EXCEPT !.i = i] : i \in {-12, 1}}
                \cup {[Tree("str") EXCEPT !.s = Cs(s)] : s \in {<<>>, <<"e">>}}
Odd        == {[Tree("str") EXCEPT !.s = NoStr],
               [Tree("str") EXCEPT !.s = Cs(Ten)]}
Lists(V)   == {[Tree("list") EXCEPT !.l = l] : l \in BoundedSeq(V, 2)}
Pair(k, v) == [key |-> Cs(k), val |-> v]
Dicts(V)   == {[Tree("dict") EXCEPT !.d = d] :
                 d \in {<<>>} \cup {<<Pair(<<"x">>, v)>> : v \in V}
                              \cup {<<Pair(<<"x">>, v), Pair(<<"x", "x">>, w)>> :
                                      v \in V, w \in V}}
Flat       == Lists(Leaves) \cup Dicts(Leaves)
Nested     == {[Tree("list") EXCEPT !.l = <<t>>] : t \in Flat}
                \cup {[Tree("dict") EXCEPT !.d = <<Pair(<<>>, t)>>] : t \in Flat}
                \cup Lists(Odd)
                \cup {[Tree("dict") EXCEPT !.d = <<[key |-> NoStr, val |-> t]>>] :
                        t \in Leaves}
MCNodes    == Leaves \cup Odd \cup Flat \cup Nested

-----------------------------------------------------------------------------

RECURSIVE Enc(_)
Enc(t) ==
    CASE t.type = "int"  -> IntText(t.i)
      [] t.type = "str"  -> StrText(t.s.s)
      [] t.type = "list" ->
           <<"l">> \o FlattenSeq([k \in DOMAIN t.l |-> Enc(t.l[k])]) \o <<"e">>
      [] t.type = "dict" ->
           <<"d">> \o FlattenSeq([k \in DOMAIN t.d |->
                                    StrText(t.d[k].key.s) \o Enc(t.d[k].val)])
                   \o <<"e">>

(* The encoder produces the encoding the format prescribes when the buffer *)
(* can hold it, fails when it cannot, not one byte too early or too late,  *)
(* and without a buffer "returns outBufLen needed" (bencode.c:352).        *)
EncodesExactly ==
    mode = "done" =>
        LET text == Enc(root)
        IN  CASE ~buf               -> ret = Len(text) /\ out = <<>>
              [] buf /\ cap >= Len(text) -> ret = Len(text) /\ out = text
              [] OTHER              -> ret = -1

(* What a call leaves in the buffer, also one that failed, is a prefix of  *)
(* the encoding: read_metafile.cpp ignores the failure and hashes the      *)
(* buffer.                                                                 *)
FailureLeavesPrefix ==
    mode = "done" => IsPrefix(out, Enc(root))
=============================================================================
