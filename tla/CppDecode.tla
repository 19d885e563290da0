----------------------------- MODULE CppDecode ------------------------------
(***************************************************************************)
(* bencoding::Decoder (cpp-bencoding/src/Decoder.cpp) with the reading     *)
(* functions of Utils and the dictionary it fills.                         *)
(*                                                                         *)
(* The decoder reads a std::istream.  Its state is the position and the    *)
(* two flags that peek(), get() and read() set: a stream at its end is     *)
(* still "true" after a peek() and no longer after the next one.  The      *)
(* recursion is an explicit stack of the lists and dictionaries being      *)
(* filled; an exception unwinds it whole.                                  *)
(***************************************************************************)
EXTENDS Integers, Sequences, SequencesExt

CONSTANTS
    Texts,     \* the contents of the streams
    IntMax,    \* the largest int64_t
    SizeMax,   \* the largest size_t
    StrMax     \* the longest string that can be allocated

(* The characters, in the order of their codes.                            *)
Ascii == <<"\"", "+", "-", "0", "1", "2", "3", "4", "5", "6", "7", "8", "9", ":",
           "d", "e", "i", "l", "x", "y">>
Char  == Range(Ascii)
Code  == [c \in Char |-> CHOOSE k \in DOMAIN Ascii : Ascii[k] = c]
Digit == {"0", "1", "2", "3", "4", "5", "6", "7", "8", "9"}
EOF   == "eof"

ASSUME TextsAssumption == Texts \subseteq Seq(Char)
ASSUME SizesAssumption ==
    /\ IntMax \in Nat /\ SizeMax \in Nat /\ StrMax \in Nat
    /\ StrMax <= SizeMax

VARIABLES
    text,     \* what the stream holds
    whole,    \* decode(const std::string &): nothing may follow the item
    stream,   \* std::istream: position, eofbit, failbit
    stack,    \* the lists and dictionaries being filled, innermost last
    mode,     \* where the innermost call is, or how decode() ended
    ret,      \* the item returned last
    begin     \* where the current call of decode() found the stream

decoderVars == <<text, whole, stream, stack, mode, ret, begin>>

-----------------------------------------------------------------------------
(* Items.  BDictionary is a std::map: entries in the order of their keys.  *)

Item(type) == [type |-> type, i |-> 0, s |-> <<>>, l |-> <<>>, d |-> <<>>]
NullItem   == Item("null")
Int64      == -(IntMax + 1)..IntMax

BInteger(i) == [Item("int") EXCEPT !.i = i]
BString(s)  == [Item("str") EXCEPT !.s = s]

(* Mutant of ByValue: by length first, as a comparator in a hurry would.   *)
ByLength(a, b) == Len(a) < Len(b)

(* BStringByValueComparator: std::string's lexicographic order.            *)
ByValue(a, b) ==
    \E k \in 1..Len(b) :
        /\ \A j \in 1..(k - 1) : j <= Len(a) /\ a[j] = b[j]
        /\ k <= Len(a) => Code[a[k]] < Code[b[k]]

(* The entries of a std::map, and an item as its class allows it: only a   *)
(* dictionary has entries.                                                 *)
IsMap(d) ==
    /\ d \in Seq(Range(d))
    /\ \A k \in DOMAIN d : d[k].key \in Seq(Char)
    /\ \A j, k \in DOMAIN d : j < k => ByValue(d[j].key, d[k].key)
IsItem(item) ==
    /\ item = [type |-> item.type, i |-> item.i, s |-> item.s,
               l |-> item.l, d |-> item.d]
    /\ item.s \in Seq(Char)
    /\ item.type # "dict" => item.d = <<>>
    /\ IsMap(item.d)

(* The bounds that std::map finds for a key: the first entry that is not  *)
(* smaller and the first that is greater.                                  *)
LowerBound(d, key) ==
    Min({k \in 1..(Len(d) + 1) : k <= Len(d) => ~ByValue(d[k].key, key)})
UpperBound(d, key) ==
    Min({k \in 1..(Len(d) + 1) : k <= Len(d) => ByValue(key, d[k].key)})

(* itemMap[key] = value: equal keys (neither is smaller) are one entry.    *)
Assigned(d, key, value) ==
    SubSeq(d, 1, LowerBound(d, key) - 1)
      \o <<[key |-> key, val |-> value]>>
      \o SubSeq(d, UpperBound(d, key), Len(d))

-----------------------------------------------------------------------------
(* The stream.                                                             *)

Opened       == [pos |-> 0, eof |-> FALSE, fail |-> FALSE]
Good(s)      == ~s.eof /\ ~s.fail
PeekChar(s)  == IF Good(s) /\ s.pos < Len(text) THEN text[s.pos + 1] ELSE EOF

(* peek() at the end sets eofbit; on a stream that is not good, failbit.   *)
Peeked(s) ==
    CASE ~Good(s)                       -> [s EXCEPT !.fail = TRUE]
      [] Good(s) /\ s.pos = Len(text)   -> [s EXCEPT !.eof = TRUE]
      [] OTHER                          -> s

(* get() and read() that wanted more than there is.                        *)
Exhausted    == [pos |-> Len(text), eof |-> TRUE, fail |-> TRUE]

(* readUpTo(c) and readUntil(c): the first c that is still to be read.     *)
Found(c)  == \E q \in (stream.pos + 1)..Len(text) : text[q] = c
FirstOf(c) ==
    CHOOSE q \in (stream.pos + 1)..Len(text) :
        /\ text[q] = c
        /\ \A p \in (stream.pos + 1)..(q - 1) : text[p] # c

(* strToNum: digits only, and not too large for the type.                  *)
IsNumber(s) == s # <<>> /\ \A k \in DOMAIN s : s[k] \in Digit
Value(s) ==
    LET AddDigit(acc, c) == 10 * acc + Code[c] - Code["0"]
    IN  FoldLeft(AddDigit, 0, s)

(* Mutant of IsInteger: the pattern without its rule about zeros.          *)
IsIntegerAnyZeros(s) ==
    IsNumber(IF s # <<>> /\ Head(s) \in {"+", "-"} THEN Tail(s) ELSE s)

(* The pattern of decodeEncodedInteger: a sign, if any, then a number that *)
(* begins with 0 only when it is 0.                                        *)
IsInteger(s) ==
    LET digits == IF s # <<>> /\ Head(s) \in {"+", "-"} THEN Tail(s) ELSE s
    IN  /\ IsNumber(digits)
        /\ Head(digits) = "0" => Len(digits) = 1

IntegerValue(s) ==
    CASE Head(s) = "-" -> -Value(Tail(s))
      [] Head(s) = "+" -> Value(Tail(s))
      [] OTHER         -> Value(s)

-----------------------------------------------------------------------------
(* Steps of Decoder::decode.                                               *)

Frame(type) == [item |-> Item(type), keyed |-> FALSE, key |-> <<>>]
Top         == stack[Len(stack)]
SetTop(f)   == stack' = [stack EXCEPT ![Len(stack)] = f]
MoveTo(p)   == stream' = [stream EXCEPT !.pos = p]

Return(item) ==
    /\ ret' = item
    /\ mode' = "return"

(* throw: DecodingError, or what std::string throws for a huge length.     *)
Throw(what) ==
    /\ mode' = what
    /\ stack' = <<>>
    /\ ret' = NullItem

Dispatch(chars) ==
    /\ mode = "decode"
    /\ PeekChar(stream) \in chars

(* readExpectedChar('l') or ('d'), then the loop over the items.           *)
Open ==
    /\ Dispatch({"l", "d"})
    /\ stack' = Append(stack, Frame(IF PeekChar(stream) = "l"
                                    THEN "list" ELSE "dict"))
    /\ MoveTo(stream.pos + 1)
    /\ mode' = "loop"
    /\ UNCHANGED <<text, whole, ret, begin>>

(* decodeInteger: everything up to an 'e' must match the pattern.  The     *)
(* result of strToNum is not looked at: a number that does not fit leaves  *)
(* integerValue uninitialized.                                             *)
DecodeInteger ==
    /\ Dispatch({"i"})
    /\ IF Found("e")
       THEN LET end    == FirstOf("e")
                digits == SubSeq(text, stream.pos + 2, end - 1)
            IN  /\ MoveTo(end)
                /\ IF IsInteger(digits)
                   THEN /\ \E i \in Int64 :
                              /\ IntegerValue(digits) \in Int64 =>
                                     i = IntegerValue(digits)
                              /\ Return(BInteger(i))
                        /\ UNCHANGED stack
                   ELSE Throw("error")
       ELSE /\ stream' = Exhausted
            /\ Throw("error")
    /\ UNCHANGED <<text, whole, begin>>

(* decodeString: a length, a colon, and that many characters.              *)
DecodeString ==
    /\ Dispatch(Digit)
    /\ IF ~Found(":")
       THEN /\ stream' = Exhausted
            /\ Throw("error")
       ELSE LET end    == FirstOf(":")
                digits == SubSeq(text, stream.pos + 1, end - 1)
                length == Value(digits)
            IN  \/ /\ ~IsNumber(digits) \/ length > SizeMax
                   /\ MoveTo(end - 1)
                   /\ Throw("error")
                \/ /\ IsNumber(digits) /\ length \in (StrMax + 1)..SizeMax
                   /\ MoveTo(end)
                   /\ Throw("bad_alloc")
                \/ /\ IsNumber(digits) /\ length <= StrMax
                   /\ length > Len(text) - end
                   /\ stream' = Exhausted
                   /\ Throw("error")
                \/ /\ IsNumber(digits) /\ length <= StrMax
                   /\ length \in 0..(Len(text) - end)
                   /\ MoveTo(end + length)
                   /\ Return(BString(SubSeq(text, end + 1, end + length)))
                   /\ UNCHANGED stack
    /\ UNCHANGED <<text, whole, begin>>

(* default: throws, after a second peek() for the message.                 *)
Unexpected ==
    /\ mode = "decode"
    /\ PeekChar(stream) \notin Digit \cup {"l", "d", "i"}
    /\ stream' = Peeked(Peeked(stream))
    /\ Throw("error")
    /\ UNCHANGED <<text, whole, begin>>

(* while (input && input.peek() != 'e'), then readExpectedChar('e').       *)
Loop ==
    /\ mode = "loop"
    /\ IF ~stream.fail /\ PeekChar(stream) # "e"
       THEN /\ stream' = Peeked(stream)
            /\ mode' = "decode"
            /\ UNCHANGED <<stack, ret>>
       ELSE IF PeekChar(stream) = "e"
       THEN /\ MoveTo(stream.pos + 1)
            /\ Return(Top.item)
            /\ stack' = Front(stack)
       ELSE /\ stream' = [Peeked(stream) EXCEPT !.fail = TRUE]
            /\ Throw("error")
    /\ UNCHANGED <<text, whole, begin>>

(* bList->push_back(decode(input))                                         *)
ListItem ==
    /\ mode = "return"
    /\ stack # <<>>
    /\ Top.item.type = "list"
    /\ SetTop([Top EXCEPT !.item.l = Append(@, ret)])
    /\ mode' = "loop"
    /\ UNCHANGED <<text, whole, stream, ret, begin>>

(* Mutant of DictKey: the entry is made with the key, and a key at the end *)
(* of the dictionary is left without a value.                              *)
DictKeyAlone ==
    /\ mode = "return"
    /\ stack # <<>>
    /\ Top.item.type = "dict"
    /\ ~Top.keyed
    /\ IF ret.type = "str"
       THEN /\ SetTop([Top EXCEPT !.keyed = PeekChar(stream) # "e",
                                  !.key = ret.s,
                                  !.item.d = Assigned(@, ret.s, NullItem)])
            /\ mode' = IF PeekChar(stream) = "e" THEN "loop" ELSE "decode"
            /\ UNCHANGED ret
       ELSE Throw("error")
    /\ UNCHANGED <<text, whole, stream, begin>>

(* decodeDictionaryKey: the item must be a string; its value comes next.   *)
DictKey ==
    /\ mode = "return"
    /\ stack # <<>>
    /\ Top.item.type = "dict"
    /\ ~Top.keyed
    /\ IF ret.type = "str"
       THEN /\ SetTop([Top EXCEPT !.keyed = TRUE, !.key = ret.s])
            /\ mode' = "decode"
            /\ UNCHANGED ret
       ELSE Throw("error")
    /\ UNCHANGED <<text, whole, stream, begin>>

(* bDictionary[key] = value                                                *)
DictValue ==
    /\ mode = "return"
    /\ stack # <<>>
    /\ Top.item.type = "dict"
    /\ Top.keyed
    /\ SetTop([Top EXCEPT !.keyed = FALSE, !.key = <<>>,
                          !.item.d = Assigned(@, Top.key, ret)])
    /\ mode' = "loop"
    /\ UNCHANGED <<text, whole, stream, ret, begin>>

(* Mutant of Finish: both forms of decode() look at what follows.          *)
FinishPeeks ==
    /\ mode = "return"
    /\ stack = <<>>
    /\ stream' = Peeked(stream)
    /\ IF whole /\ PeekChar(stream) # EOF
       THEN Throw("error")
       ELSE mode' = "done" /\ UNCHANGED <<stack, ret>>
    /\ UNCHANGED <<text, whole, begin>>

(* The outermost call returns; decode(const std::string &) then wants the  *)
(* end of the stream.                                                      *)
Finish ==
    /\ mode = "return"
    /\ stack = <<>>
    /\ IF whole
       THEN /\ stream' = Peeked(stream)
            /\ IF PeekChar(stream) = EOF
               THEN mode' = "done" /\ UNCHANGED <<stack, ret>>
               ELSE Throw("error")
       ELSE /\ mode' = "done"
            /\ UNCHANGED <<stream, stack, ret>>
    /\ UNCHANGED <<text, whole, begin>>

(* The caller decodes the next item of the same stream.                    *)
DecodeNext ==
    /\ mode = "done"
    /\ ~whole
    /\ begin' = stream.pos
    /\ mode' = "decode"
    /\ UNCHANGED <<text, whole, stream, stack, ret>>

-----------------------------------------------------------------------------

DecoderInit ==
    /\ text \in Texts
    /\ whole \in BOOLEAN
    /\ stream = Opened
    /\ stack = <<>>
    /\ mode = "decode"
    /\ ret = NullItem
    /\ begin = 0

DecoderNext ==
    \/ Open
    \/ DecodeInteger
    \/ DecodeString
    \/ Unexpected
    \/ Loop
    \/ ListItem
    \/ DictKey
    \/ DictValue
    \/ Finish
    \/ DecodeNext

DecoderSpec == DecoderInit /\ [][DecoderNext]_decoderVars

-----------------------------------------------------------------------------
(* Properties.                                                             *)

(* Between two items the stream has neither flag set: the peek() of the    *)
(* loop and of decode() never leaves a mark that a later read would trip   *)
(* over, so that one stream can be decoded item by item, as "they are left *)
(* in input" (Decoder.cpp:56-57) promises.                                 *)
StreamStaysGood ==
    /\ mode \in {"loop", "return"} => Good(stream)
    /\ mode = "done" /\ ~whole => Good(stream)

(* A dictionary iterates in the order of its keys, each once, whatever the *)
(* order and the repetitions in the text (BDictionary.h:25-35).            *)
Precedes(a, b) ==
    \/ IsStrictPrefix(a, b)
    \/ \E k \in DOMAIN a \cap DOMAIN b :
          /\ SubSeq(a, 1, k - 1) = SubSeq(b, 1, k - 1)
          /\ Code[a[k]] < Code[b[k]]
Sorted(d)   == \A j, k \in DOMAIN d : j < k => Precedes(d[j].key, d[k].key)
KeysInOrder ==
    /\ Sorted(ret.d)
    /\ \A f \in DOMAIN stack : Sorted(stack[f].item.d)

=============================================================================
