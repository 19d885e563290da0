----------------------------- MODULE CppSession -----------------------------
(***************************************************************************)
(* A caller of cpp-bencoding: it decodes items from a stream, looks into   *)
(* and changes the list or dictionary it got, and encodes it, any number   *)
(* of times with one Encoder.                                              *)
(*                                                                         *)
(* Encoder::encode visits the item and its children in order and appends   *)
(* to encodedData; todo is what the visits in progress have still to       *)
(* append.                                                                 *)
(***************************************************************************)
EXTENDS CppDecode

CONSTANTS
    Keys,       \* the keys the caller looks up and assigns
    Values,     \* the items, or null pointer, it assigns and appends
    MaxEdits,   \* bound on its lookups and changes
    MaxCalls    \* bound on its calls of encode()

(* The caller has strings for keys, and items or null pointers for values. *)
ASSUME CallerAssumption ==
    /\ Keys \subseteq Seq(Char)
    /\ \A value \in Values : IsItem(value)

VARIABLES
    todo,         \* what Encoder has still to visit
    encodedData,  \* Encoder::encodedData
    results,      \* what the calls of encode() have returned
    encoded,      \* the items they were given
    edits         \* the caller's lookups and changes so far

encoderVars == <<todo, encodedData, results, encoded>>
vars        == <<decoderVars, encoderVars, edits>>

-----------------------------------------------------------------------------
(* What the caller does with what it has decoded.                          *)

(* std::map's find: neither key is smaller.                                *)
Holds(d, key) ==
    \E k \in DOMAIN d : ~ByValue(d[k].key, key) /\ ~ByValue(key, d[k].key)

Edit(types, item) ==
    /\ mode = "done"
    /\ edits < MaxEdits
    /\ ret.type \in types
    /\ ret' = item
    /\ edits' = edits + 1
    /\ UNCHANGED <<text, whole, stream, stack, mode, begin, encoderVars>>

(* BDictionary::operator[], read only: a missing key gets a null pointer.  *)
Lookup(key) ==
    Edit({"dict"}, IF Holds(ret.d, key) THEN ret
                   ELSE [ret EXCEPT !.d = Assigned(@, key, NullItem)])

(* BDictionary::operator[], assigned to.                                   *)
Assign(key, value) ==
    Edit({"dict"}, [ret EXCEPT !.d = Assigned(@, key, value)])

(* BList::push_back and pop_back, and assignments to what front() and      *)
(* back() refer to; the caller keeps to the preconditions they assert.     *)
PushBack(value) ==
    value # NullItem /\ Edit({"list"}, [ret EXCEPT !.l = Append(@, value)])
PopBack         == ret.l # <<>> /\ Edit({"list"}, [ret EXCEPT !.l = Front(@)])
AssignFront(value) ==
    ret.l # <<>> /\ Edit({"list"}, [ret EXCEPT !.l[1] = value])
AssignBack(value) ==
    ret.l # <<>> /\ Edit({"list"}, [ret EXCEPT !.l[Len(ret.l)] = value])

(* BInteger::setValue and BString::setValue.                               *)
SetValue(value) == Edit({"int", "str"} \cap {value.type}, value)

(* The caller puts the item it has decoded into a container of its own:    *)
(* BList::create({item, value}), BDictionary::create({{k, item}, {l,       *)
(* value}}).  The map keeps the first of two equal keys, operator[] above  *)
(* the last.                                                               *)
CreateList(value) ==
    Edit({"int", "str"}, [Item("list") EXCEPT !.l = <<ret, value>>])
CreateDict(k, l, value) ==
    LET first == <<[key |-> k, val |-> ret]>>
    IN  Edit({"int", "str"},
             [Item("dict") EXCEPT !.d =
                IF Holds(first, l) THEN first ELSE Assigned(first, l, value)])

-----------------------------------------------------------------------------
(* Encoder.                                                                *)

Decimal[n \in Nat] ==
    IF n < 10 THEN <<Ascii[Code["0"] + n]>>
              ELSE Append(Decimal[n \div 10], Ascii[Code["0"] + (n % 10)])

(* Mutant of to_string: the sign is always written.                        *)
to_stringSigned(i) ==
    IF i < 0 THEN <<"-">> \o Decimal[-i] ELSE <<"+">> \o Decimal[i]

(* std::to_string                                                          *)
to_string(i) == IF i < 0 THEN <<"-">> \o Decimal[-i] ELSE Decimal[i]

(* What is appended when the children of a list or dictionary are done.    *)
EndMark == Item("end")

Children(item) ==
    IF item.type = "list" THEN item.l
    ELSE FlattenSeq([k \in DOMAIN item.d |->
                        <<BString(item.d[k].key), item.d[k].val>>])

Encode ==
    /\ mode = "done"
    /\ Len(results) < MaxCalls
    /\ todo' = <<ret>>
    /\ encoded' = Append(encoded, ret)
    /\ mode' = "encode"
    /\ UNCHANGED <<text, whole, stream, stack, ret, begin, encodedData,
                   results, edits>>

(* Mutant of VisitContainer: the children are visited last first.          *)
VisitContainerBackwards ==
    /\ mode = "encode" /\ todo # <<>>
    /\ Head(todo).type \in {"list", "dict"}
    /\ encodedData' = Append(encodedData,
                             IF Head(todo).type = "list" THEN "l" ELSE "d")
    /\ todo' = Reverse(Children(Head(todo))) \o <<EndMark>> \o Tail(todo)
    /\ UNCHANGED <<decoderVars, results, encoded, edits>>

(* visit(BList) and visit(BDictionary): begin, then the children.          *)
VisitContainer ==
    /\ mode = "encode" /\ todo # <<>>
    /\ Head(todo).type \in {"list", "dict"}
    /\ encodedData' = Append(encodedData,
                             IF Head(todo).type = "list" THEN "l" ELSE "d")
    /\ todo' = Children(Head(todo)) \o <<EndMark>> \o Tail(todo)
    /\ UNCHANGED <<decoderVars, results, encoded, edits>>

(* visit(BInteger), visit(BString), and the end of a list or dictionary.   *)
LeafText(item) ==
    CASE item.type = "int" -> <<"i">> \o to_string(item.i) \o <<"e">>
      [] item.type = "str" -> Decimal[Len(item.s)] \o <<":">> \o item.s
      [] item.type = "end" -> <<"e">>

VisitLeaf ==
    /\ mode = "encode" /\ todo # <<>>
    /\ Head(todo).type \in {"int", "str", "end"}
    /\ encodedData' = encodedData \o LeafText(Head(todo))
    /\ todo' = Tail(todo)
    /\ UNCHANGED <<decoderVars, results, encoded, edits>>

(* accept(this) on a null pointer.                                         *)
VisitNull ==
    /\ mode = "encode" /\ todo # <<>>
    /\ Head(todo) = NullItem
    /\ mode' = "crash"
    /\ UNCHANGED <<text, whole, stream, stack, ret, begin, encoderVars, edits>>

(* return encodedData, which nothing ever clears.                          *)
Encoded ==
    /\ mode = "encode" /\ todo = <<>>
    /\ results' = Append(results, encodedData)
    /\ mode' = "done"
    /\ UNCHANGED <<text, whole, stream, stack, ret, begin, todo, encodedData,
                   encoded, edits>>

-----------------------------------------------------------------------------

Init ==
    /\ DecoderInit
    /\ todo = <<>>
    /\ encodedData = <<>>
    /\ results = <<>>
    /\ encoded = <<>>
    /\ edits = 0

Next ==
    \/ DecoderNext /\ UNCHANGED <<encoderVars, edits>>
    \/ \E key \in Keys : Lookup(key)
    \/ \E key \in Keys, value \in Values : Assign(key, value)
    \/ \E value \in Values : PushBack(value)
    \/ PopBack
    \/ \E value \in Values : \/ AssignFront(value)
                             \/ AssignBack(value)
                             \/ SetValue(value)
                             \/ CreateList(value)
    \/ \E k, l \in Keys, value \in Values : CreateDict(k, l, value)
    \/ Encode
    \/ VisitContainer
    \/ VisitLeaf
    \/ VisitNull
    \/ Encoded

Spec == Init /\ [][Next]_vars
=============================================================================
