------------------------------ MODULE BeDecode ------------------------------
(***************************************************************************)
(* be_decode (bencode/bencode.c): the recursive-descent bencode parser     *)
(* that the tracker response and the metafile go through.                  *)
(*                                                                         *)
(* The C recursion is kept as an explicit call stack.  A frame is the      *)
(* pointer to the list or dictionary node that the suspended call of       *)
(* _be_decode is filling; strings and integers are decoded in one step.    *)
(* Nodes live in a heap, pointers are indices into it and 0 is NULL, so    *)
(* that the state is what the C code has: a cursor, the bytes it believes  *)
(* are left, and a graph of nodes.                                         *)
(*                                                                         *)
(* The bytes after the input are NUL: be_decode is called on the           *)
(* zero-filled response buffer of TrackerConnector::request.               *)
(***************************************************************************)
EXTENDS Integers, Sequences, SequencesExt, FiniteSetsExt

CONSTANTS
    Inputs,   \* the byte strings be_decode is called with
    LLMax     \* LLONG_MAX: strtoll saturates there

Digit == {"0", "1", "2", "3", "4", "5", "6", "7", "8", "9"}
DigitValue ==
    [c \in Digit |-> CASE c = "0" -> 0 [] c = "1" -> 1 [] c = "2" -> 2
                       [] c = "3" -> 3 [] c = "4" -> 4 [] c = "5" -> 5
                       [] c = "6" -> 6 [] c = "7" -> 7 [] c = "8" -> 8
                       [] c = "9" -> 9]
Char == Digit \cup {"l", "d", "i", "e", ":", "-", "+", " ", "x", "y"}
NUL  == "nul"

ASSUME InputsAssumption == Inputs \subseteq Seq(Char)
ASSUME LLMaxAssumption  == LLMax \in Nat

VARIABLES
    input,    \* the string, fixed at the call
    pos,      \* *data, as an offset from the start of the string
    dataLen,  \* *data_len: the bytes the decoder believes are left
    heap,     \* the be_node objects allocated so far
    stack,    \* the nodes of the suspended calls, innermost last
    mode,     \* where the innermost call is
    ret       \* the pointer the last finished call returned

vars == <<input, pos, dataLen, heap, stack, mode, ret>>

-----------------------------------------------------------------------------
(* Nodes.  A C string is a pointer that may be NULL.                       *)

NULL    == 0
Ptr     == 0..Len(heap)
CStr    == [null: BOOLEAN, s: Seq(Char)]
NoStr   == [null |-> TRUE, s |-> <<>>]
Entry   == [key: CStr, val: Nat]
Node    == [type: {"str", "int", "list", "dict"},
            i: Int, s: CStr, l: Seq(Nat), d: Seq(Entry)]

(* be_alloc: a node of the given type, everything else zeroed.             *)
be_alloc(type) ==
    [type |-> type, i |-> 0, s |-> NoStr, l |-> <<>>, d |-> <<>>]

-----------------------------------------------------------------------------
(* Reading the text.                                                       *)

Byte(p) == IF p < Len(input) THEN input[p + 1] ELSE NUL

(* The offset of the first byte at or after p that is not in S.            *)
RunEnd(p, S) == Min({q \in p..(p + Len(input)) : Byte(q) \notin S})

(* strtoll(p, &end, 10): blanks, a sign and digits; without a digit        *)
(* nothing is converted and end stays at p.  The value saturates.          *)
Strtoll(p) ==
    LET sign    == RunEnd(p, {" "})
        digits  == IF Byte(sign) \in {"+", "-"} THEN sign + 1 ELSE sign
        end     == RunEnd(digits, Digit)
        AddDigit(acc, c) == 10 * acc + DigitValue[c]
        n       == FoldLeft(AddDigit, 0, SubSeq(input, digits + 1, end))
        minus   == Byte(sign) = "-"
    IN  IF end = digits THEN [value |-> 0, end |-> p]
        ELSE [value |-> IF minus
                        THEN IF n \in 0..(LLMax + 1) THEN -n ELSE -(LLMax + 1)
                        ELSE IF n \in 0..LLMax THEN n ELSE LLMax,
              end   |-> end]

(* Mutant of DecodeStr: the colon is counted twice in the room needed.     *)
DecodeStrTooCareful(p, len) ==
    LET number == Strtoll(p)
        ok     == /\ number.value >= 0
                  /\ number.value < len - (number.end - p) - 1
                  /\ Byte(number.end) = ":"
    IN  IF ok
        THEN [str |-> [null |-> FALSE,
                       s    |-> SubSeq(input, number.end + 2,
                                       number.end + 1 + number.value)],
              end |-> number.end + 1 + number.value]
        ELSE [str |-> NoStr, end |-> number.end]

(* _be_decode_str at offset p with len bytes left: the string, or NULL for *)
(* a negative length, a length beyond the data, or a missing colon.  The   *)
(* length digits are consumed in every case.                               *)
DecodeStr(p, len) ==
    LET number == Strtoll(p)
        left   == len - (number.end - p)
        ok     == /\ number.value >= 0
                  /\ number.value <= left - 1
                  /\ Byte(number.end) = ":"
    IN  IF ok
        THEN [str |-> [null |-> FALSE,
                       s    |-> SubSeq(input, number.end + 2,
                                       number.end + 1 + number.value)],
              end |-> number.end + 1 + number.value]
        ELSE [str |-> NoStr, end |-> number.end]

-----------------------------------------------------------------------------
(* Steps of _be_decode.                                                    *)

MoveTo(p) ==
    /\ pos' = p
    /\ dataLen' = dataLen - (p - pos)

Return(p) ==
    /\ ret' = p
    /\ mode' = "return"

Top == stack[Len(stack)]

Calling(c) ==
    /\ mode = "call"
    /\ dataLen # 0
    /\ Byte(pos) \in c

(* if ( !*data_len ) return NULL                                           *)
NoDataLeft ==
    /\ mode = "call"
    /\ dataLen = 0
    /\ Return(NULL)
    /\ UNCHANGED <<input, pos, dataLen, heap, stack>>

(* Mutants of Open: no node is allocated; the character is not consumed.   *)
OpenUnallocated(c, type) ==
    /\ Calling({c})
    /\ stack' = Append(stack, Len(heap) + 1)
    /\ MoveTo(pos + 1)
    /\ mode' = "loop"
    /\ UNCHANGED <<input, heap, ret>>

OpenInPlace(c, type) ==
    /\ Calling({c})
    /\ heap' = Append(heap, be_alloc(type))
    /\ stack' = Append(stack, Len(heap) + 1)
    /\ mode' = "loop"
    /\ UNCHANGED <<input, pos, dataLen, ret>>

(* case 'l' and case 'd': allocate the node and enter its loop.            *)
Open(c, type) ==
    /\ Calling({c})
    /\ heap' = Append(heap, be_alloc(type))
    /\ stack' = Append(stack, Len(heap) + 1)
    /\ MoveTo(pos + 1)
    /\ mode' = "loop"
    /\ UNCHANGED <<input, ret>>

OpenList == Open("l", "list")
OpenDict == Open("d", "dict")

(* case 'i': a number that is not followed by 'e' is freed and rejected,   *)
(* with the cursor left after its digits.                                  *)
DecodeInt ==
    /\ Calling({"i"})
    /\ \E number \in {Strtoll(pos + 1)} :
           IF Byte(number.end) = "e"
           THEN /\ heap' = Append(heap, [be_alloc("int") EXCEPT
                                             !.i = number.value])
                /\ Return(Len(heap) + 1)
                /\ MoveTo(number.end + 1)
           ELSE /\ Return(NULL)
                /\ MoveTo(number.end)
                /\ UNCHANGED heap
    /\ UNCHANGED <<input, stack>>

(* case '0'...'9': a node is returned even when the string is NULL.        *)
DecodeString ==
    /\ Calling(Digit)
    /\ \E str \in {DecodeStr(pos, dataLen)} :
           /\ heap' = Append(heap, [be_alloc("str") EXCEPT !.s = str.str])
           /\ MoveTo(str.end)
    /\ Return(Len(heap) + 1)
    /\ UNCHANGED <<input, stack>>

(* default: anything else is not a value.                                  *)
Invalid ==
    /\ mode = "call"
    /\ dataLen # 0
    /\ Byte(pos) \notin Digit \cup {"l", "d", "i"}
    /\ Return(NULL)
    /\ UNCHANGED <<input, pos, dataLen, heap, stack>>

(* Mutants of Leave: only the cursor moves; the cursor moves twice.        *)
LeaveUncounted ==
    /\ pos' = pos + 1
    /\ stack' = SubSeq(stack, 1, Len(stack) - 1)
    /\ Return(Top)
    /\ UNCHANGED dataLen

LeaveTwice ==
    /\ MoveTo(pos + 2)
    /\ stack' = SubSeq(stack, 1, Len(stack) - 1)
    /\ Return(Top)

(* The end of the list or dictionary case: step over one byte, whatever it *)
(* is, and return the node.                                                *)
Leave ==
    /\ MoveTo(pos + 1)
    /\ stack' = SubSeq(stack, 1, Len(stack) - 1)
    /\ Return(Top)

(* while ( **data != 'e' ) of the list case.                               *)
ListLoop ==
    /\ mode = "loop"
    /\ heap[Top].type = "list"
    /\ IF Byte(pos) = "e"
       THEN Leave
       ELSE /\ mode' = "call"
            /\ UNCHANGED <<pos, dataLen, stack, ret>>
    /\ UNCHANGED <<input, heap>>

(* Mutant of ListItem: NULL does not end the loop.                         *)
ListItemNoBreak ==
    /\ mode = "return"
    /\ stack # <<>>
    /\ heap[Top].type = "list"
    /\ heap' = IF ret = NULL THEN heap
               ELSE [heap EXCEPT ![Top].l = Append(@, ret)]
    /\ mode' = "loop"
    /\ UNCHANGED <<input, pos, dataLen, stack, ret>>

(* A decoded item is stored; NULL ends the loop.                           *)
ListItem ==
    /\ mode = "return"
    /\ stack # <<>>
    /\ heap[Top].type = "list"
    /\ IF ret = NULL
       THEN /\ Leave
            /\ UNCHANGED heap
       ELSE /\ heap' = [heap EXCEPT ![Top].l = Append(@, ret)]
            /\ mode' = "loop"
            /\ UNCHANGED <<pos, dataLen, stack, ret>>
    /\ UNCHANGED input

(* while ( **data != 'e' ) of the dictionary case: the key is decoded into *)
(* a new entry.  An empty dictionary has no entry array yet, and           *)
(* ret->val.d[0].val = NULL then writes through a null pointer.            *)
DictLoop ==
    /\ mode = "loop"
    /\ heap[Top].type = "dict"
    /\ IF Byte(pos) = "e"
       THEN /\ UNCHANGED heap
            /\ IF heap[Top].d = <<>>
               THEN /\ mode' = "crash"
                    /\ UNCHANGED <<pos, dataLen, stack, ret>>
               ELSE Leave
       ELSE \E key \in {DecodeStr(pos, dataLen)} :
                /\ heap' = [heap EXCEPT ![Top].d =
                              Append(@, [key |-> key.str, val |-> NULL])]
                /\ MoveTo(key.end)
                /\ mode' = "call"
                /\ UNCHANGED <<stack, ret>>
    /\ UNCHANGED input

(* The loop tests ret->val.l[i], the i-th pointer of the entry array read  *)
(* as an array of pointers: entry i/2, its key for even i and its value    *)
(* for odd i (counting from 0).                                            *)
AliasIsNull(d, i) ==
    LET entry == d[(i \div 2) + 1]
    IN  IF i % 2 = 0 THEN entry.key.null ELSE entry.val = NULL

(* A decoded value is stored in the entry.  When the loop stops here, the  *)
(* value of this entry is overwritten by the NULL that ends the array.     *)
DictItem ==
    /\ mode = "return"
    /\ stack # <<>>
    /\ heap[Top].type = "dict"
    /\ LET n == Len(heap[Top].d)
           d == [heap[Top].d EXCEPT ![n].val = ret]
       IN  IF AliasIsNull(d, n - 1)
           THEN /\ heap' = [heap EXCEPT ![Top].d = [d EXCEPT ![n].val = NULL]]
                /\ Leave
           ELSE /\ heap' = [heap EXCEPT ![Top].d = d]
                /\ mode' = "loop"
                /\ UNCHANGED <<pos, dataLen, stack, ret>>
    /\ UNCHANGED input

(* The outermost call returns to be_decode's caller.                       *)
Finish ==
    /\ mode = "return"
    /\ stack = <<>>
    /\ mode' = "done"
    /\ UNCHANGED <<input, pos, dataLen, heap, stack, ret>>

-----------------------------------------------------------------------------

(* be_decode: be_decoden with the string's length.                         *)
Init ==
    /\ input \in Inputs
    /\ pos = 0
    /\ dataLen = Len(input)
    /\ heap = <<>>
    /\ stack = <<>>
    /\ mode = "call"
    /\ ret = NULL

Next ==
    \/ NoDataLeft
    \/ OpenList
    \/ OpenDict
    \/ DecodeInt
    \/ DecodeString
    \/ Invalid
    \/ ListLoop
    \/ ListItem
    \/ DictLoop
    \/ DictItem
    \/ Finish

(* The decoder is sequential code that no one can suspend.                 *)
Spec == Init /\ [][Next]_vars /\ WF_vars(Next)

-----------------------------------------------------------------------------
(* Properties.                                                             *)

(* The variables have their types; stack frames and returned pointers      *)
(* refer to allocated nodes, and a suspended loop has a frame.             *)
TypeOK ==
    /\ input \in Inputs
    /\ pos \in Nat
    /\ dataLen \in Int
    /\ heap \in Seq(Node)
    /\ stack \in Seq(1..Len(heap))
    /\ mode \in {"call", "loop", "return", "done", "crash"}
    /\ ret \in Ptr
    /\ mode = "loop" => stack # <<>>

(* The cursor and the count of bytes left, which the C code moves by       *)
(* separate assignments in five places, always describe the same place.    *)
CursorMatchesLength == pos + dataLen = Len(input)

(* The frames still open fit in the bytes read so far; once the cursor has *)
(* run past the end, it can only move one byte for each frame it closes.   *)
OpenFramesBounded ==
    /\ pos <= Len(input) => Len(stack) <= pos
    /\ pos > Len(input)  => pos + Len(stack) <= 2 * Len(input)

(* A truncated text makes the decoder step past its end, because leaving a *)
(* list or dictionary skips one byte without looking at it; but never      *)
(* beyond twice the length of the text.                                    *)
CursorBounded == pos <= 2 * Len(input)

=============================================================================
