---------------------------- MODULE MCCppSession ----------------------------
(***************************************************************************)
(* CppPrinter on every text of bounded length over a small alphabet and on *)
(* longer texts cut, damaged and joined; with the format as a relation     *)
(* between texts and items that knows nothing of reading left to right.    *)
(***************************************************************************)
EXTENDS CppPrinter, FiniteSetsExt

CONSTANTS Alphabet, MaxLen

-----------------------------------------------------------------------------
(* The items that a text stands for: one at most, except that the value of *)
(* an integer that does not fit is anything.                               *)

Inner(t) == SubSeq(t, 2, Len(t) - 1)

(* Decimal digits without superfluous zeros.                               *)
Plain(s) == IsNumber(s) /\ Decimal[Value(s)] = s

IntItems(s) ==
    LET signed == s # <<>> /\ s[1] \in {"+", "-"}
        digits == IF signed THEN Tail(s) ELSE s
        i      == IF s[1] = "-" THEN -Value(digits) ELSE Value(digits)
    IN  IF ~Plain(digits) THEN {}
        ELSE {BInteger(v) : v \in IF i \in Int64 THEN {i} ELSE Int64}

StrItems(t) ==
    {BString(SubSeq(t, c + 1, Len(t))) : c \in
       {c \in DOMAIN t : /\ t[c] = ":" /\ IsNumber(SubSeq(t, 1, c - 1))
                         /\ Value(SubSeq(t, 1, c - 1)) = Len(t) - c}}

(* The map that a sequence of keys and values builds: the last value of a  *)
(* key counts.                                                             *)
MapOf(items) ==
    LET pairs     == 1..(Len(items) \div 2)
        KeyAt(k)  == items[2 * k - 1].s
        LastAt(s) == Max({k \in pairs : KeyAt(k) = s})
        sorted    == SetToSortSeq({KeyAt(k) : k \in pairs}, Precedes)
    IN  [m \in DOMAIN sorted |->
           [key |-> sorted[m], val |-> items[2 * LastAt(sorted[m])]]]

RECURSIVE ItemsOf(_), SeqsOf(_)
ItemsOf(t) ==
    CASE t = <<>>            -> {}
      [] t # <<>> /\ t[1] \in Digit -> StrItems(t)
      [] Len(t) >= 2 /\ t[1] = "i" /\ Last(t) = "e" -> IntItems(Inner(t))
      [] Len(t) >= 2 /\ t[1] = "l" /\ Last(t) = "e" ->
           {[Item("list") EXCEPT !.l = s] : s \in SeqsOf(Inner(t))}
      [] Len(t) >= 2 /\ t[1] = "d" /\ Last(t) = "e" ->
           {[Item("dict") EXCEPT !.d = MapOf(s)] : s \in
              {s \in SeqsOf(Inner(t)) :
                 /\ Len(s) % 2 = 0
                 /\ \A k \in DOMAIN s : k % 2 = 1 => s[k].type = "str"}}
      [] OTHER -> {}
SeqsOf(t) ==
    IF t = <<>> THEN {<<>>}
    ELSE UNION {LET heads == ItemsOf(SubSeq(t, 1, k))
                    rests == SeqsOf(SubSeq(t, k + 1, Len(t)))
                IN  IF heads = {} THEN {}
                    ELSE {<<h>> \o r : h \in heads, r \in rests} :
                k \in DOMAIN t}

-----------------------------------------------------------------------------
(* The texts.                                                              *)

Samples == {<<"d", "1", ":", "y", "l", "e", "2", ":", "x", "y", "i", "+", "1",
              "e", "1", ":", "y", "i", "-", "0", "e", "e">>,
            <<"l", "d", "e", "0", "1", ":", ":", "d", "0", ":", "d", "1", ":",
              "e", "0", ":", "e", "e", "e">>,
            <<"i", "-", "1", "0", "e", "3", ":", "i", "1", "e", "l", "l", "e",
              "e">>}
Damage  == {"d", "l", "e", "i", "1", "0", ":"}
Damaged ==
    UNION {{SubSeq(s, 1, n) : n \in 0..Len(s)}
             \cup {[s EXCEPT ![n] = c] : n \in DOMAIN s, c \in Damage} :
           s \in Samples}
AllTexts == BoundedSeq(Alphabet, MaxLen) \cup Damaged

MCKeys   == {<<"x">>, <<"y">>}
MCValues == {BInteger(-3), BString(<<"\"", "e">>), NullItem}
MCIndents == {<<>>, <<" ", " ">>}

-----------------------------------------------------------------------------
(* Properties that need the reference.                                     *)

(* A length that size_t can hold and memory cannot.                        *)
HugeLength(t) ==
    \E a \in DOMAIN t, b \in DOMAIN t :
        /\ t[b] = ":" /\ IsNumber(SubSeq(t, a, b - 1))
        /\ Value(SubSeq(t, a, b - 1)) \in (StrMax + 1)..SizeMax

(* The decoder accepts exactly the format: what it returns is what the     *)
(* text it has consumed stands for, decode(std::string) consumes all of it *)
(* and fails only on a text that stands for nothing, and decode(istream)   *)
(* fails only where no item begins.  The one exception that is not a       *)
(* DecodingError needs a length no memory can hold (Decoder.cpp:297).      *)
AcceptsExactlyTheFormat ==
    /\ mode = "done" /\ edits = 0 =>
          /\ ret \in ItemsOf(SubSeq(text, begin + 1, stream.pos))
          /\ whole => begin = 0 /\ stream.pos = Len(text)
    /\ mode = "error" =>
          \A k \in (IF whole THEN {Len(text)} ELSE begin..Len(text)) :
              ItemsOf(SubSeq(text, begin + 1, k)) = {}
    /\ mode = "bad_alloc" => HugeLength(text)

(* What the first encode() of an Encoder returns reads back as exactly the *)
(* item it was given, also after the caller has changed the item: every    *)
(* item has a text that stands for it and for nothing else                 *)
(* (Encoder.cpp:30-72).                                                    *)
FirstEncodingReadsBack ==
    results # <<>> => ItemsOf(results[1]) = {encoded[1]}

(* "Encodes the given data and returns them." (Encoder.cpp:31): so does    *)
(* every call of encode(), not only the first.                             *)
EncodesGivenData ==
    \A k \in DOMAIN results : ItemsOf(results[k]) = {encoded[k]}

(* Decoding and encoding a text never makes it longer: the encoder has one *)
(* spelling for an item, the shortest the decoder takes.                   *)
EncodingIsShortest ==
    /\ results # <<>> /\ edits = 0 /\ begin = 0
    /\ Cardinality(ItemsOf(SubSeq(text, 1, stream.pos))) = 1
    => Len(results[1]) <= stream.pos

(* The layout that the comments of PrettyPrinter.cpp:68-76 and 108-116     *)
(* draw, of an item whose first line stands behind pad.                    *)
RECURSIVE Layout(_, _, _)
Layout(item, indent, pad) ==
    LET inside   == pad \o indent
        Lines(n, Line(_)) ==
            FlattenSeq([k \in 1..n |-> inside \o Line(k)
                          \o (IF k < n THEN <<",">> ELSE <<>>) \o <<"\n">>])
        Element(k) == Layout(item.l[k], indent, inside)
        Entry(k)   == Quoted(item.d[k].key) \o <<":", " ">>
                        \o Layout(item.d[k].val, indent, inside)
    IN  CASE item.type = "int"  -> to_string(item.i)
          [] item.type = "str"  -> Quoted(item.s)
          [] item.type = "list" ->
               <<"[", "\n">> \o Lines(Len(item.l), Element) \o pad \o <<"]">>
          [] item.type = "dict" ->
               <<"{", "\n">> \o Lines(Len(item.d), Entry) \o pad \o <<"}">>

(* Every call of one printer returns the layout of its item, whatever was  *)
(* printed before and with whatever indentation.                           *)
PrintsTheLayout ==
    mode # "crash" =>
      \A k \in DOMAIN printed :
        k < Len(printed) \/ mode # "print" =>
          printed[k].repr = Layout(printed[k].item, printed[k].indent, <<>>)
=============================================================================
