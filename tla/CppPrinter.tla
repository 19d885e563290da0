----------------------------- MODULE CppPrinter -----------------------------
(***************************************************************************)
(* bencoding::PrettyPrinter (cpp-bencoding/src/PrettyPrinter.cpp) in the   *)
(* hands of the caller of CppSession, who may print with one printer any   *)
(* number of times, with different indentations, between its calls of      *)
(* decode() and encode().                                                  *)
(*                                                                         *)
(* visits is what the visits in progress have still to do: items to visit, *)
(* texts and indentations to append, containers to close.                  *)
(***************************************************************************)
EXTENDS CppSession

CONSTANTS
    Indents,    \* the indentations that are asked for
    MaxPrints,  \* bound on the calls of getPrettyRepr()
    MaxUses     \* bound on all the caller does with what it has decoded

VARIABLES
    prettyRepr, indentLevel, currentIndent,   \* PrettyPrinter's members
    visits,     \* what the visits in progress have still to do
    printed     \* the calls so far: item, indentation and result

printerVars == <<prettyRepr, indentLevel, currentIndent, visits, printed>>
sessionVars == <<vars, printerVars>>

-----------------------------------------------------------------------------
(* What is appended.                                                       *)

(* Utils' replace().                                                       *)
replace(s, what, withWhat) ==
    FlattenSeq([k \in DOMAIN s |-> IF s[k] = what THEN withWhat
                                                  ELSE <<s[k]>>])

Quoted(s) == <<"\"">> \o replace(s, "\"", <<"\\", "\"">>) \o <<"\"">>

Text(s)     == [Item("text") EXCEPT !.s = s]
StoreIndent == Item("indent")
Closing(item) ==
    [Item("close") EXCEPT
       !.s = (IF item.l = <<>> /\ item.d = <<>> THEN <<>> ELSE <<"\n">>),
       !.l = IF item.type = "list" THEN <<"]">> ELSE <<"}">>]

(* The loops over the items of a list and the entries of a dictionary.     *)
Comma(k) == IF k > 1 THEN <<Text(<<",", "\n">>)>> ELSE <<>>
Entries(item) ==
    IF item.type = "list"
    THEN FlattenSeq([k \in DOMAIN item.l |->
                       Comma(k) \o <<StoreIndent, item.l[k]>>])
    ELSE FlattenSeq([k \in DOMAIN item.d |->
                       Comma(k) \o <<StoreIndent, BString(item.d[k].key),
                                     Text(<<":", " ">>), item.d[k].val>>])

(* decreaseIndentLevel.  With less than a level left the size_t wraps and  *)
(* substr gives everything.                                                *)
Decreased ==
    IF Len(currentIndent) < Len(indentLevel) THEN currentIndent
    ELSE SubSeq(currentIndent, 1, Len(currentIndent) - Len(indentLevel))

-----------------------------------------------------------------------------
(* Steps.                                                                  *)

(* Mutant of getPrettyRepr: like Encoder, it keeps what it has.            *)
getPrettyReprUncleared(indent) ==
    /\ mode = "done"
    /\ Len(printed) < MaxPrints
    /\ indentLevel' = indent
    /\ currentIndent' = <<>>
    /\ visits' = <<ret>>
    /\ printed' = Append(printed, [item |-> ret, indent |-> indent,
                                   repr |-> <<>>])
    /\ mode' = "print"
    /\ UNCHANGED <<text, whole, stream, stack, ret, begin, encoderVars, edits,
                   prettyRepr>>

getPrettyRepr(indent) ==
    /\ mode = "done"
    /\ Len(printed) < MaxPrints
    /\ prettyRepr' = <<>>
    /\ indentLevel' = indent
    /\ currentIndent' = <<>>
    /\ visits' = <<ret>>
    /\ printed' = Append(printed, [item |-> ret, indent |-> indent,
                                   repr |-> <<>>])
    /\ mode' = "print"
    /\ UNCHANGED <<text, whole, stream, stack, ret, begin, encoderVars, edits>>

Visiting(types) ==
    /\ mode = "print" /\ visits # <<>>
    /\ Head(visits).type \in types

(* visit(BList) and visit(BDictionary) up to their loops.                  *)
PrintContainer ==
    /\ Visiting({"list", "dict"})
    /\ LET item == Head(visits)
       IN  /\ prettyRepr' = prettyRepr \o <<IF item.type = "list" THEN "["
                                                               ELSE "{", "\n">>
           /\ visits' = Entries(item) \o <<Closing(item)>> \o Tail(visits)
    /\ currentIndent' = currentIndent \o indentLevel
    /\ UNCHANGED <<vars, indentLevel, printed>>

(* visit(BInteger), visit(BString), and what the loops append.             *)
PrintText ==
    /\ Visiting({"int", "str", "text", "indent"})
    /\ LET item == Head(visits)
       IN  prettyRepr' = prettyRepr \o
             CASE item.type = "int"    -> to_string(item.i)
               [] item.type = "str"    -> Quoted(item.s)
               [] item.type = "text"   -> item.s
               [] item.type = "indent" -> currentIndent
    /\ visits' = Tail(visits)
    /\ UNCHANGED <<vars, indentLevel, currentIndent, printed>>

(* The end of a list or dictionary, behind its loop.                       *)
PrintClose ==
    /\ Visiting({"close"})
    /\ currentIndent' = Decreased
    /\ prettyRepr' = prettyRepr \o Head(visits).s \o Decreased
                                \o Head(visits).l
    /\ visits' = Tail(visits)
    /\ UNCHANGED <<vars, indentLevel, printed>>

(* accept(this) on a null pointer.                                         *)
PrintNull ==
    /\ Visiting({"null"})
    /\ mode' = "crash"
    /\ UNCHANGED <<text, whole, stream, stack, ret, begin, encoderVars, edits,
                   printerVars>>

(* return prettyRepr                                                       *)
Printed ==
    /\ mode = "print" /\ visits = <<>>
    /\ printed' = [printed EXCEPT ![Len(printed)].repr = prettyRepr]
    /\ mode' = "done"
    /\ UNCHANGED <<text, whole, stream, stack, ret, begin, encoderVars, edits,
                   prettyRepr, indentLevel, currentIndent, visits>>

-----------------------------------------------------------------------------

SessionInit ==
    /\ Init
    /\ prettyRepr = <<>>
    /\ indentLevel = <<" ", " ", " ", " ">>
    /\ currentIndent = <<>>
    /\ visits = <<>>
    /\ printed = <<>>

Uses == edits + Len(encoded) + Len(printed)

SessionNext ==
    \/ Next /\ UNCHANGED printerVars /\ Uses' <= MaxUses
    \/ \E indent \in Indents : getPrettyRepr(indent) /\ Uses' <= MaxUses
    \/ PrintContainer
    \/ PrintText
    \/ PrintClose
    \/ PrintNull
    \/ Printed

SessionSpec == SessionInit /\ [][SessionNext]_sessionVars

-----------------------------------------------------------------------------
(* Properties.                                                             *)

(* No text makes decode() return something with a null pointer inside:     *)
(* encode() and getPrettyRepr() go through a null pointer only if the      *)
(* caller has put one there itself, by assigning it or by looking up a key *)
(* that was missing (BDictionary.cpp:75-79).  decodeDictionaryItems-       *)
(* IntoDictionary uses the same operator[], with keys that repeat and      *)
(* values that are missing (Decoder.cpp:134-138).                          *)
DecodedItemsAreWhole == mode = "crash" => edits > 0

=============================================================================
