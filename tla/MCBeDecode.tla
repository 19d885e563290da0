----------------------------- MODULE MCBeDecode -----------------------------
(***************************************************************************)
(* BeDecode on every text of bounded length over a small alphabet, and on  *)
(* the encodings of a set of small trees; with a reference encoder that    *)
(* says what those encodings are.                                          *)
(***************************************************************************)
EXTENDS BeDecode

CONSTANTS
    Alphabet,   \* the characters of the exhaustive texts
    MaxLen      \* their greatest length

-----------------------------------------------------------------------------
(* Trees: what a bencoded text stands for.                                 *)

Tree(type) == [type |-> type, i |-> 0, s |-> <<>>, l |-> <<>>, d |-> <<>>]
IntTree(i) == [Tree("int")  EXCEPT !.i = i]
StrTree(s) == [Tree("str")  EXCEPT !.s = s]
ListOf(l)  == [Tree("list") EXCEPT !.l = l]
DictOf(d)  == [Tree("dict") EXCEPT !.d = d]

(* The encoding the format prescribes (bencode/bencode.txt).               *)
DigitOf(n) == CHOOSE c \in Digit : DigitValue[c] = n
EncStr(s)  == <<DigitOf(Len(s)), ":">> \o s

EncNode(t, EncChild(_)) ==
    CASE t.type = "int" ->
           <<"i">> \o (IF t.i < 0 THEN <<"-">> ELSE <<>>)
                   \o <<DigitOf(IF t.i < 0 THEN -t.i ELSE t.i), "e">>
      [] t.type = "str"  -> EncStr(t.s)
      [] t.type = "list" ->
           <<"l">> \o FlattenSeq([k \in DOMAIN t.l |-> EncChild(t.l[k])])
                   \o <<"e">>
      [] t.type = "dict" ->
           <<"d">> \o FlattenSeq([k \in DOMAIN t.d |->
                                    EncStr(t.d[k].key) \o EncChild(t.d[k].val)])
                   \o <<"e">>

(* Of a leaf, of a tree of leaves, and of a tree of those.                 *)
EncLeaf(t) == EncNode(t, LAMBDA u : <<>>)
EncFlat(t) == EncNode(t, EncLeaf)
Enc(t)     == EncNode(t, EncFlat)

(* The tree that a pointer of the decoder's heap stands for.               *)
RECURSIVE Reify(_)
Reify(p) ==
    LET node == heap[p]
    IN  CASE node.type = "int"  -> IntTree(node.i)
          [] node.type = "str"  -> StrTree(node.s.s)
          [] node.type = "list" ->
               ListOf([k \in DOMAIN node.l |-> Reify(node.l[k])])
          [] node.type = "dict" ->
               DictOf([k \in DOMAIN node.d |->
                         [key |-> node.d[k].key.s, val |-> Reify(node.d[k].val)]])

-----------------------------------------------------------------------------
(* The texts.  Strings hold characters that are syntax elsewhere.          *)

Keys   == {<<"x">>, <<"e", "l">>}
Leaves == {IntTree(i) : i \in {-7, 0}}
            \cup {StrTree(s) : s \in {<<>>, <<"e">>, <<"1", ":">>}}
Pairs(V)  == {[key |-> k, val |-> v] : k \in Keys, v \in V}
Lists(V)  == {ListOf(l) : l \in BoundedSeq(V, 2)}
Dicts(V)  == {DictOf(d) : d \in BoundedSeq(Pairs(V), 2) \ {<<>>}}
Flat      == Leaves \cup Lists(Leaves) \cup Dicts(Leaves)
Compound  == {ListOf(<<>>), ListOf(<<StrTree(<<"e">>)>>),
              DictOf(<<[key |-> <<"x">>, val |-> IntTree(-7)]>>)}
Trees     == Flat \cup Lists(Compound \cup Leaves)
                  \cup Dicts(Compound)
                  \cup {ListOf(<<t>>) : t \in Flat}

EncodedTexts == {Enc(t) : t \in Trees}
Short        == BoundedSeq(Alphabet, MaxLen)
AllTexts     == Short \cup EncodedTexts

-----------------------------------------------------------------------------
(* Properties that need the reference.                                     *)

(* Decoding what the format prescribes for a tree gives back that tree,    *)
(* the only one with this encoding, and consumes exactly its bytes         *)
(* (be_decode on the responses and metafiles that the client is meant to   *)
(* read; dictionaries are not empty here).                                 *)
DecodesWhatWasEncoded ==
    /\ mode = "done"
    /\ input \in EncodedTexts
    => /\ ret # NULL
       /\ Enc(Reify(ret)) = input
       /\ pos = Len(input)
       /\ dataLen = 0

(* bencode/test.c:58-64 knows two outcomes of be_decoden, a tree and       *)
(* "parsing failed!": a text never crashes the decoder.                    *)
NeverCrashes == mode # "crash"
=============================================================================
