--------------------------- MODULE BeDecodeProofs ---------------------------
(***************************************************************************)
(* Proofs for every set of texts and every LLMax: about be_decode, and     *)
(* about the release and the dump of what it leaves behind.                *)
(***************************************************************************)
EXTENDS BeFree, FiniteSetTheorems, WellFoundedInduction, SequenceTheorems,
        TLAPS

(* The least number of a set is in it and below the others.                *)
LEMMA MinOfNaturals ==
    ASSUME NEW S, S \subseteq Nat, S # {}
    PROVE  /\ Min(S) \in S
           /\ \A y \in S : Min(S) <= y
<1> DEFINE Less == {ss \in Nat \X Nat : ss[1] < ss[2]}
<1>1. IsWellFoundedOn(Less, Nat)
  BY NatLessThanWellFounded, Zenon DEF OpToRel
<1>2. PICK x \in S : \A y \in S : ~(<<y, x>> \in Less)
  <2>. HIDE DEF Less
  <2>. QED  BY <1>1, WFMin, Zenon
<1>3. \A y \in S : x <= y
  <2>. SUFFICES ASSUME NEW y \in S PROVE x <= y
    OBVIOUS
  <2>1. y < x => <<y, x>> \in Less
    OBVIOUS
  <2>. QED  BY <1>2, <2>1
<1>. QED  BY <1>3 DEF Min

(* A run of characters of the text ends within the text, or at once.       *)
LEMMA RunEndProperties ==
    ASSUME NEW S, NUL \notin S, input \in Seq(Char), NEW p \in Nat
    PROVE  /\ RunEnd(p, S) \in Nat
           /\ RunEnd(p, S) >= p
           /\ p <= Len(input) => RunEnd(p, S) <= Len(input)
           /\ p >= Len(input) => RunEnd(p, S) = p
<1> DEFINE Q == {q \in p..(p + Len(input)) : Byte(q) \notin S}
<1>0. Len(input) \in Nat
  OBVIOUS
<1>1. Q \subseteq Nat
  BY <1>0
<1>2. p <= Len(input) => Len(input) \in Q
  BY <1>0 DEF Byte
<1>3. p >= Len(input) => p \in Q
  BY <1>0 DEF Byte
<1>4. Q # {}
  BY <1>0, <1>2, <1>3
<1>5. Min(Q) \in Q /\ \A y \in Q : Min(Q) <= y
  BY <1>1, <1>4, MinOfNaturals
<1>6. RunEnd(p, S) = Min(Q)
  BY DEF RunEnd
<1>. HIDE DEF Q
<1>7. Min(Q) \in p..(p + Len(input))
  BY <1>5 DEF Q
<1>. QED  BY <1>0, <1>1, <1>2, <1>3, <1>5, <1>6, <1>7

(* strtoll stays within the text and does not move once it has left it.    *)
LEMMA StrtollProperties ==
    ASSUME input \in Seq(Char), NEW p \in Nat
    PROVE  /\ Strtoll(p).value \in Int
           /\ Strtoll(p).end \in Nat
           /\ Strtoll(p).end >= p
           /\ p <= Len(input) => Strtoll(p).end <= Len(input)
           /\ p >= Len(input) => Strtoll(p) = [value |-> 0, end |-> p]
<1>1. Len(input) \in Nat
  OBVIOUS
<1>2. NUL \notin {" "} /\ NUL \notin Digit
  BY DEF NUL, Digit
<1>3. PICK sign : sign = RunEnd(p, {" "})
  OBVIOUS
<1>4. /\ sign \in Nat
      /\ sign >= p
      /\ p <= Len(input) => sign <= Len(input)
      /\ p >= Len(input) => sign = p
  BY <1>2, <1>3, RunEndProperties
<1>5. PICK digits : digits = IF Byte(sign) \in {"+", "-"} THEN sign + 1 ELSE sign
  OBVIOUS
<1>6. /\ digits \in Nat
      /\ digits >= p
      /\ p <= Len(input) => digits <= Len(input)
      /\ p >= Len(input) => digits = p
  <2>1. CASE Byte(sign) \in {"+", "-"}
    <3>1. digits = sign + 1
      BY <1>5, <2>1
    <3>2. sign < Len(input)
      BY <1>1, <1>4, <2>1 DEF Byte, NUL
    <3>. QED  BY <1>1, <1>4, <3>1, <3>2
  <2>2. CASE Byte(sign) \notin {"+", "-"}
    <3>1. digits = sign
      BY <1>5, <2>2
    <3>. QED  BY <1>1, <1>4, <3>1
  <2>. QED  BY <2>1, <2>2
<1>7. PICK end : end = RunEnd(digits, Digit)
  OBVIOUS
<1>8. /\ end \in Nat
      /\ end >= digits
      /\ digits <= Len(input) => end <= Len(input)
      /\ digits >= Len(input) => end = digits
  BY <1>2, <1>6, <1>7, RunEndProperties
<1> DEFINE AddDigit(acc, c) == 10 * acc + DigitValue[c]
           n == FoldLeft(AddDigit, 0, SubSeq(input, digits + 1, end))
           saturated == IF Byte(sign) = "-"
                        THEN IF n \in 0..(LLMax + 1) THEN -n ELSE -(LLMax + 1)
                        ELSE IF n \in 0..LLMax THEN n ELSE LLMax
<1>9. saturated \in Int
  <2>1. \A m : m \in 0..(LLMax + 1) => -m \in Int
    BY LLMaxAssumption
  <2>2. \A m : m \in 0..LLMax => m \in Int
    BY LLMaxAssumption
  <2>3. -(LLMax + 1) \in Int /\ LLMax \in Int
    BY LLMaxAssumption
  <2>. HIDE DEF n
  <2>. QED  BY <2>1, <2>2, <2>3, Zenon
<1>10. Strtoll(p) = IF end = digits THEN [value |-> 0, end |-> p]
                    ELSE [value |-> saturated, end |-> end]
  BY <1>3, <1>5, <1>7 DEF Strtoll
<1>11. PICK v \in Int :
         Strtoll(p) = IF end = digits THEN [value |-> 0, end |-> p]
                      ELSE [value |-> v, end |-> end]
  <2>. HIDE DEF saturated
  <2>. QED  BY <1>9, <1>10
<1>12. CASE end = digits
  <2>1. Strtoll(p) = [value |-> 0, end |-> p]
    BY <1>11, <1>12
  <2>. QED  BY <1>1, <2>1
<1>13. CASE end # digits
  <2>1. Strtoll(p) = [value |-> v, end |-> end]
    BY <1>11, <1>13
  <2>2. p < Len(input)
    BY <1>1, <1>6, <1>8, <1>13
  <2>. QED  BY <1>1, <1>6, <1>8, <2>1, <2>2
<1>. QED  BY <1>12, <1>13

(* _be_decode_str, called with the bytes that really are left.             *)
LEMMA DecodeStrProperties ==
    ASSUME input \in Seq(Char), NEW p \in Nat, NEW len \in Int,
           p + len = Len(input)
    PROVE  /\ DecodeStr(p, len).str \in CStr
           /\ DecodeStr(p, len).end \in Nat
           /\ DecodeStr(p, len).end >= p
           /\ p <= Len(input) => DecodeStr(p, len).end <= Len(input)
           /\ p >= Len(input) => DecodeStr(p, len).end = p
<1> DEFINE number == Strtoll(p)
           left   == len - (number.end - p)
           ok     == /\ number.value >= 0
                     /\ number.value <= left - 1
                     /\ Byte(number.end) = ":"
           str    == SubSeq(input, number.end + 2, number.end + 1 + number.value)
<1>0. Len(input) \in Nat
  OBVIOUS
<1>1. /\ number.value \in Int
      /\ number.end \in Nat
      /\ number.end >= p
      /\ p <= Len(input) => number.end <= Len(input)
      /\ p >= Len(input) => number.end = p /\ number.value = 0
  BY StrtollProperties
<1>2. DecodeStr(p, len) =
        IF ok THEN [str |-> [null |-> FALSE, s |-> str],
                    end |-> number.end + 1 + number.value]
        ELSE [str |-> NoStr, end |-> number.end]
  BY DEF DecodeStr
<1>. HIDE DEF number
<1>3. ok => number.end + 1 + number.value <= Len(input)
  BY <1>0, <1>1
<1>4. ok => str \in Seq(Char)
  <2>1. ok => \A i \in (number.end + 2)..(number.end + 1 + number.value) :
                 input[i] \in Char
    BY <1>0, <1>1, <1>3
  <2>. QED  BY <1>1, <2>1, SubSeqProperties
<1>5. NoStr \in CStr
  BY EmptySeq DEF NoStr, CStr
<1>6. ASSUME p >= Len(input), ok PROVE FALSE
  <2>1. left = len /\ len <= 0 /\ number.value = 0
    BY <1>0, <1>1, <1>6
  <2>. QED  BY <1>6, <2>1
<1>7. CASE ok
  <2>1. [null |-> FALSE, s |-> str] \in CStr
    BY <1>4, <1>7 DEF CStr
  <2>. HIDE DEF str
  <2>2. DecodeStr(p, len).str \in CStr
    BY <1>2, <1>7, <2>1
  <2>3. DecodeStr(p, len).end = number.end + 1 + number.value
    BY <1>2, <1>7
  <2>. QED  BY <1>0, <1>1, <1>3, <1>6, <1>7, <2>2, <2>3
<1>8. CASE ~ok
  <2>. HIDE DEF str, ok
  <2>. QED  BY <1>0, <1>1, <1>2, <1>5, <1>8
<1>. QED  BY <1>7, <1>8

-----------------------------------------------------------------------------
(* The inductive invariant.  CursorBounded is not inductive: leaving a     *)
(* list moves the cursor without looking, so one must know how many lists  *)
(* are still open, and that takes the number of bytes read so far.         *)

IInv == TypeOK /\ CursorMatchesLength /\ OpenFramesBounded

(* be_decode starts with the whole text ahead and nothing allocated.       *)
LEMMA InitEstablishes == Init => IInv
<1> SUFFICES ASSUME Init PROVE IInv
  OBVIOUS
<1>1. input \in Seq(Char) /\ Len(input) \in Nat
  BY InputsAssumption DEF Init
<1>2. TypeOK
  BY <1>1, EmptySeq DEF Init, TypeOK, Ptr, NULL
<1>3. CursorMatchesLength /\ OpenFramesBounded
  BY <1>1 DEF Init, CursorMatchesLength, OpenFramesBounded
<1>. QED  BY <1>2, <1>3 DEF IInv

(* A node as be_alloc makes it, and with one field filled in.              *)
LEMMA AllocIsNode ==
    /\ \A t \in {"str", "int", "list", "dict"} : be_alloc(t) \in Node
    /\ \A n \in Int : [be_alloc("int") EXCEPT !.i = n] \in Node
    /\ \A c \in CStr : [be_alloc("str") EXCEPT !.s = c] \in Node
<1>1. NoStr \in CStr /\ <<>> \in Seq(Nat) /\ <<>> \in Seq(Entry)
  BY EmptySeq DEF NoStr, CStr
<1>2. ASSUME NEW t \in {"str", "int", "list", "dict"}
      PROVE  be_alloc(t) \in Node
  BY <1>1 DEF be_alloc, Node
<1>3. ASSUME NEW n \in Int
      PROVE  [be_alloc("int") EXCEPT !.i = n] \in Node
  <2>1. [be_alloc("int") EXCEPT !.i = n]
          = [type |-> "int", i |-> n, s |-> NoStr, l |-> <<>>, d |-> <<>>]
    BY DEF be_alloc
  <2>. QED  BY <1>1, <2>1 DEF Node
<1>4. ASSUME NEW c \in CStr
      PROVE  [be_alloc("str") EXCEPT !.s = c] \in Node
  <2>1. [be_alloc("str") EXCEPT !.s = c]
          = [type |-> "str", i |-> 0, s |-> c, l |-> <<>>, d |-> <<>>]
    BY DEF be_alloc
  <2>2. [type |-> "str", i |-> 0, s |-> c, l |-> <<>>, d |-> <<>>] \in Node
    BY <1>1 DEF Node
  <2>. QED  BY <2>1, <2>2
<1>. QED  BY <1>2, <1>3, <1>4

(* A sequence without its last element.                                    *)
LEMMA FrontOfSeq ==
    ASSUME NEW S, NEW seq \in Seq(S), seq # <<>>
    PROVE  /\ SubSeq(seq, 1, Len(seq) - 1) \in Seq(S)
           /\ Len(SubSeq(seq, 1, Len(seq) - 1)) = Len(seq) - 1
<1>1. Len(seq) \in Nat /\ Len(seq) >= 1
  BY EmptySeq
<1>2. PICK n \in Int : n = Len(seq) - 1
  BY <1>1
<1>3. \A i \in 1..n : seq[i] \in S
  BY <1>1, <1>2
<1>4. SubSeq(seq, 1, n) \in Seq(S)
  BY <1>3, SubSeqProperties
<1>5. Len(SubSeq(seq, 1, n)) = n
  BY <1>1, <1>2, <1>3, SubSeqProperties
<1>. QED  BY <1>2, <1>4, <1>5

(* Allocating keeps every pointer valid.                                   *)
LEMMA AllocKeepsTypes ==
    ASSUME heap \in Seq(Node), stack \in Seq(1..Len(heap)), NEW n \in Node
    PROVE  /\ Append(heap, n) \in Seq(Node)
           /\ Len(Append(heap, n)) = Len(heap) + 1
           /\ stack \in Seq(1..(Len(heap) + 1))
           /\ Append(stack, Len(heap) + 1) \in Seq(1..(Len(heap) + 1))
<1>1. Len(heap) \in Nat
  OBVIOUS
<1>2. 1..Len(heap) \subseteq 1..(Len(heap) + 1)
  BY <1>1
<1>3. stack \in Seq(1..(Len(heap) + 1))
  BY <1>2, SeqMonotonic
<1>. QED  BY <1>1, <1>3

(* Where a cursor that moves forward within the text may be.               *)
LEMMA ForwardKeepsBounds ==
    ASSUME TypeOK, CursorMatchesLength, OpenFramesBounded,
           NEW q \in Nat, q >= pos, UNCHANGED <<input, stack>>,
           pos <= Len(input) => q <= Len(input),
           pos >= Len(input) => q = pos,
           MoveTo(q)
    PROVE  /\ pos' \in Nat
           /\ dataLen' \in Int
           /\ CursorMatchesLength'
           /\ OpenFramesBounded'
<1>1. Len(input) \in Nat /\ Len(stack) \in Nat /\ pos \in Nat /\ dataLen \in Int
  BY InputsAssumption DEF TypeOK
<1>2. CursorMatchesLength'
  BY <1>1 DEF CursorMatchesLength, MoveTo
<1>3. OpenFramesBounded'
  BY <1>1 DEF OpenFramesBounded, MoveTo
<1>. QED  BY <1>1, <1>2, <1>3 DEF MoveTo

(* Leaving a list or dictionary: one byte forward, one frame fewer.        *)
LEMMA LeaveKeepsInvariant ==
    ASSUME IInv, stack # <<>>, Leave, input' = input,
           heap' \in Seq(Node), Len(heap') = Len(heap)
    PROVE  IInv'
<1>1. /\ Len(input) \in Nat /\ Len(stack) \in Nat /\ pos \in Nat
      /\ dataLen \in Int /\ stack \in Seq(1..Len(heap)) /\ Len(heap) \in Nat
      /\ Len(stack) >= 1
  BY InputsAssumption, EmptySeq DEF IInv, TypeOK
<1>2. pos' = pos + 1 /\ dataLen' = dataLen - 1
  BY <1>1 DEF Leave, MoveTo
<1>3. stack' \in Seq(1..Len(heap)) /\ Len(stack') = Len(stack) - 1
  BY <1>1, FrontOfSeq DEF Leave
<1>4. ret' \in 1..Len(heap) /\ mode' = "return"
  BY <1>1 DEF Leave, Return, Top
<1>5. TypeOK'
  BY <1>1, <1>2, <1>3, <1>4 DEF IInv, TypeOK, Ptr
<1>6. CursorMatchesLength'
  BY <1>1, <1>2 DEF IInv, CursorMatchesLength
<1>7. OpenFramesBounded'
  BY <1>1, <1>2, <1>3 DEF IInv, OpenFramesBounded
<1>. QED  BY <1>5, <1>6, <1>7 DEF IInv

(* Returning NULL because no data is left moves nothing.                   *)
LEMMA NoDataLeftKeepsInvariant == IInv /\ NoDataLeft => IInv'
<1> SUFFICES ASSUME IInv, NoDataLeft PROVE IInv'
  OBVIOUS
<1>1. Len(heap) \in Nat
  BY DEF IInv, TypeOK
<1>. QED
  BY <1>1 DEF IInv, TypeOK, NoDataLeft, Return, CursorMatchesLength,
              OpenFramesBounded, Ptr, NULL

(* Returning NULL at a character that starts no value moves nothing.       *)
LEMMA InvalidKeepsInvariant == IInv /\ Invalid => IInv'
<1> SUFFICES ASSUME IInv, Invalid PROVE IInv'
  OBVIOUS
<1>1. Len(heap) \in Nat
  BY DEF IInv, TypeOK
<1>2. /\ UNCHANGED <<input, pos, dataLen, heap, stack>>
      /\ ret' = 0 /\ mode' = "return"
  BY DEF Invalid, Return, NULL
<1>. QED
  BY <1>1, <1>2 DEF IInv, TypeOK, CursorMatchesLength, OpenFramesBounded, Ptr

(* The return of the outermost call moves nothing.                         *)
LEMMA FinishKeepsInvariant == IInv /\ Finish => IInv'
  BY DEF IInv, TypeOK, Finish, CursorMatchesLength, OpenFramesBounded, Ptr

(* Opening a list or dictionary: one byte, one node and one frame more.    *)
LEMMA OpenKeepsInvariant ==
    ASSUME IInv, NEW c \in {"l", "d"}, NEW t \in {"list", "dict"}, Open(c, t)
    PROVE  IInv'
<1>1. /\ Len(input) \in Nat /\ pos \in Nat /\ dataLen \in Int
      /\ heap \in Seq(Node) /\ Len(heap) \in Nat
      /\ stack \in Seq(1..Len(heap)) /\ Len(stack) \in Nat
      /\ ret \in 0..Len(heap) /\ input \in Inputs
  BY InputsAssumption DEF IInv, TypeOK, Ptr
<1>2. pos < Len(input)
  BY <1>1 DEF Open, Calling, Byte, NUL
<1>3. be_alloc(t) \in Node
  BY AllocIsNode
<1>4. /\ heap' \in Seq(Node) /\ Len(heap') = Len(heap) + 1
      /\ stack' \in Seq(1..(Len(heap) + 1)) /\ Len(stack') = Len(stack) + 1
  BY <1>1, <1>3, AllocKeepsTypes DEF Open
<1>5. pos' = pos + 1 /\ dataLen' = dataLen - 1 /\ input' = input /\ ret' = ret
      /\ mode' = "loop"
  BY <1>1 DEF Open, MoveTo
<1>6. stack' # <<>>
  BY <1>1, <1>4
<1>7. TypeOK'
  BY <1>1, <1>4, <1>5, <1>6 DEF TypeOK, Ptr
<1>8. CursorMatchesLength'
  BY <1>1, <1>5 DEF IInv, CursorMatchesLength
<1>9. OpenFramesBounded'
  BY <1>1, <1>2, <1>4, <1>5 DEF IInv, OpenFramesBounded
<1>. QED  BY <1>7, <1>8, <1>9 DEF IInv

(* A leaf that allocates a node and returns it, moving forward in the text.*)
LEMMA LeafKeepsInvariant ==
    ASSUME IInv, NEW n \in Node, NEW q \in Nat, q >= pos, q <= Len(input),
           pos < Len(input),
           heap' = Append(heap, n), Return(Len(heap) + 1), MoveTo(q),
           UNCHANGED <<input, stack>>
    PROVE  IInv'
<1>1. /\ Len(input) \in Nat /\ pos \in Nat
      /\ heap \in Seq(Node) /\ Len(heap) \in Nat
      /\ stack \in Seq(1..Len(heap)) /\ input \in Inputs
  BY InputsAssumption DEF IInv, TypeOK
<1>2. /\ heap' \in Seq(Node) /\ Len(heap') = Len(heap) + 1
      /\ stack' \in Seq(1..(Len(heap) + 1))
  BY <1>1, AllocKeepsTypes
<1>3. /\ pos' \in Nat /\ dataLen' \in Int
      /\ CursorMatchesLength' /\ OpenFramesBounded'
  BY <1>1, ForwardKeepsBounds DEF IInv
<1>4. ret' = Len(heap) + 1 /\ mode' = "return" /\ input' = input
  BY DEF Return
<1>5. TypeOK'
  BY <1>1, <1>2, <1>3, <1>4 DEF TypeOK, Ptr
<1>. QED  BY <1>3, <1>5 DEF IInv

(* case 'i': the cursor ends after the digits or after the 'e'.            *)
LEMMA DecodeIntKeepsInvariant == IInv /\ DecodeInt => IInv'
<1> SUFFICES ASSUME IInv, DecodeInt PROVE IInv'
  OBVIOUS
<1> DEFINE number == Strtoll(pos + 1)
<1>1. /\ Len(input) \in Nat /\ pos \in Nat /\ input \in Seq(Char)
      /\ Len(heap) \in Nat /\ heap \in Seq(Node)
      /\ stack \in Seq(1..Len(heap)) /\ input \in Inputs
  BY InputsAssumption DEF IInv, TypeOK
<1>2. pos < Len(input)
  BY <1>1 DEF DecodeInt, Calling, Byte, NUL
<1>3. /\ number.value \in Int /\ number.end \in Nat
      /\ number.end >= pos + 1 /\ number.end <= Len(input)
  BY <1>1, <1>2, StrtollProperties
<1>4. CASE Byte(number.end) = "e"
  <2>1. number.end < Len(input)
    BY <1>1, <1>3, <1>4 DEF Byte, NUL
  <2>2. [be_alloc("int") EXCEPT !.i = number.value] \in Node
    BY <1>3, AllocIsNode
  <2>3. /\ heap' = Append(heap, [be_alloc("int") EXCEPT !.i = number.value])
        /\ Return(Len(heap) + 1) /\ MoveTo(number.end + 1)
        /\ UNCHANGED <<input, stack>>
    BY <1>4 DEF DecodeInt
  <2>. HIDE DEF number
  <2>4. number.end + 1 \in Nat /\ number.end + 1 >= pos
        /\ number.end + 1 <= Len(input)
    BY <1>1, <1>3, <2>1
  <2>. QED  BY <1>2, <2>2, <2>3, <2>4, LeafKeepsInvariant
<1>5. CASE Byte(number.end) # "e"
  <2>1. /\ heap' = heap /\ ret' = 0 /\ mode' = "return"
        /\ MoveTo(number.end) /\ UNCHANGED <<input, stack>>
    BY <1>5 DEF DecodeInt, Return, NULL
  <2>. HIDE DEF number
  <2>2. number.end >= pos
    BY <1>1, <1>3
  <2>3. /\ pos' \in Nat /\ dataLen' \in Int
        /\ CursorMatchesLength' /\ OpenFramesBounded'
    BY <1>1, <1>2, <1>3, <2>1, <2>2, ForwardKeepsBounds DEF IInv
  <2>4. TypeOK'
    BY <1>1, <2>1, <2>3 DEF TypeOK, Ptr
  <2>. QED  BY <2>3, <2>4 DEF IInv
<1>. QED  BY <1>4, <1>5

(* case '0'...'9': the cursor ends where _be_decode_str leaves it.         *)
LEMMA DecodeStringKeepsInvariant == IInv /\ DecodeString => IInv'
<1> SUFFICES ASSUME IInv, DecodeString PROVE IInv'
  OBVIOUS
<1> DEFINE str == DecodeStr(pos, dataLen)
<1>1. /\ Len(input) \in Nat /\ pos \in Nat /\ input \in Seq(Char)
      /\ dataLen \in Int /\ pos + dataLen = Len(input)
  BY InputsAssumption DEF IInv, TypeOK, CursorMatchesLength
<1>2. pos < Len(input)
  BY <1>1 DEF DecodeString, Calling, Byte, NUL, Digit
<1>3. /\ str.str \in CStr /\ str.end \in Nat
      /\ str.end >= pos /\ str.end <= Len(input)
  BY <1>1, <1>2, DecodeStrProperties
<1>4. [be_alloc("str") EXCEPT !.s = str.str] \in Node
  BY <1>3, AllocIsNode
<1>5. /\ heap' = Append(heap, [be_alloc("str") EXCEPT !.s = str.str])
      /\ Return(Len(heap) + 1) /\ MoveTo(str.end) /\ UNCHANGED <<input, stack>>
  BY DEF DecodeString
<1>. HIDE DEF str
<1>. QED  BY <1>2, <1>3, <1>4, <1>5, LeafKeepsInvariant

(* Replacing the children of an allocated node keeps the heap's type.      *)
LEMMA UpdateKeepsHeap ==
    ASSUME heap \in Seq(Node), NEW p \in 1..Len(heap)
    PROVE  /\ heap[p].l \in Seq(Nat)
           /\ heap[p].d \in Seq(Entry)
           /\ \A l \in Seq(Nat) :
                 /\ [heap EXCEPT ![p].l = l] \in Seq(Node)
                 /\ Len([heap EXCEPT ![p].l = l]) = Len(heap)
           /\ \A d \in Seq(Entry) :
                 /\ [heap EXCEPT ![p].d = d] \in Seq(Node)
                 /\ Len([heap EXCEPT ![p].d = d]) = Len(heap)
<1>1. heap[p] \in Node
  OBVIOUS
<1>2. ASSUME NEW l \in Seq(Nat)
      PROVE  /\ [heap EXCEPT ![p].l = l] \in Seq(Node)
             /\ Len([heap EXCEPT ![p].l = l]) = Len(heap)
  <2>1. [heap[p] EXCEPT !.l = l] \in Node
    BY <1>1 DEF Node
  <2>2. [heap EXCEPT ![p].l = l] = [heap EXCEPT ![p] = [heap[p] EXCEPT !.l = l]]
    OBVIOUS
  <2>. QED  BY <2>1, <2>2, ExceptSeq
<1>3. ASSUME NEW d \in Seq(Entry)
      PROVE  /\ [heap EXCEPT ![p].d = d] \in Seq(Node)
             /\ Len([heap EXCEPT ![p].d = d]) = Len(heap)
  <2>1. [heap[p] EXCEPT !.d = d] \in Node
    BY <1>1 DEF Node
  <2>2. [heap EXCEPT ![p].d = d] = [heap EXCEPT ![p] = [heap[p] EXCEPT !.d = d]]
    OBVIOUS
  <2>. QED  BY <2>1, <2>2, ExceptSeq
<1>4. heap[p].l \in Seq(Nat) /\ heap[p].d \in Seq(Entry)
  BY <1>1 DEF Node
<1>. QED  BY <1>2, <1>3, <1>4

(* Storing a value in one entry of a dictionary's array.                   *)
LEMMA StoreKeepsEntries ==
    ASSUME NEW e \in Seq(Entry), NEW k \in Int, NEW v \in Nat
    PROVE  [e EXCEPT ![k].val = v] \in Seq(Entry)
<1>1. CASE k \in 1..Len(e)
  <2>1. PICK entry \in Entry : entry = e[k]
    BY <1>1
  <2>2. [entry EXCEPT !.val = v] \in Entry
    BY DEF Entry
  <2>3. [e EXCEPT ![k].val = v] = [e EXCEPT ![k] = [entry EXCEPT !.val = v]]
    BY <2>1
  <2>. QED  BY <1>1, <2>2, <2>3, ExceptSeq
<1>2. CASE k \notin 1..Len(e)
  <2>1. [e EXCEPT ![k].val = v] = e
    BY <1>2
  <2>. QED  BY <2>1
<1>. QED  BY <1>1, <1>2

(* A step that changes nothing but the heap's contents and the mode.       *)
LEMMA HeapStepKeepsInvariant ==
    ASSUME IInv, stack # <<>>, heap' \in Seq(Node), Len(heap') = Len(heap),
           mode' \in {"call", "loop", "crash"},
           UNCHANGED <<input, pos, dataLen, stack, ret>>
    PROVE  IInv'
  BY DEF IInv, TypeOK, CursorMatchesLength, OpenFramesBounded, Ptr

(* The loop test of a list: it leaves at 'e', or calls the decoder again.  *)
LEMMA ListLoopKeepsInvariant == IInv /\ ListLoop => IInv'
<1> SUFFICES ASSUME IInv, ListLoop PROVE IInv'
  OBVIOUS
<1>1. stack # <<>> /\ heap' = heap /\ heap \in Seq(Node) /\ input' = input
  BY DEF IInv, TypeOK, ListLoop
<1>2. CASE Byte(pos) = "e"
  <2>1. Leave
    BY <1>2 DEF ListLoop
  <2>. QED  BY <1>1, <2>1, LeaveKeepsInvariant
<1>3. CASE Byte(pos) # "e"
  <2>1. mode' = "call" /\ UNCHANGED <<input, pos, dataLen, stack, ret>>
    BY <1>3 DEF ListLoop
  <2>. QED  BY <1>1, <2>1, HeapStepKeepsInvariant
<1>. QED  BY <1>2, <1>3

(* An item of a list is stored, or NULL makes the loop leave.              *)
LEMMA ListItemKeepsInvariant == IInv /\ ListItem => IInv'
<1> SUFFICES ASSUME IInv, ListItem PROVE IInv'
  OBVIOUS
<1>1. /\ stack # <<>> /\ heap \in Seq(Node) /\ input' = input
      /\ stack \in Seq(1..Len(heap)) /\ Len(heap) \in Nat /\ ret \in 0..Len(heap)
  BY DEF IInv, TypeOK, ListItem, Ptr
<1>2. Top \in 1..Len(heap)
  BY <1>1 DEF Top
<1>3. CASE ret = NULL
  <2>1. Leave /\ heap' = heap
    BY <1>3 DEF ListItem
  <2>. QED  BY <1>1, <2>1, LeaveKeepsInvariant
<1>4. CASE ret # NULL
  <2>1. /\ heap' = [heap EXCEPT ![Top].l = Append(@, ret)]
        /\ mode' = "loop" /\ UNCHANGED <<input, pos, dataLen, stack, ret>>
    BY <1>4 DEF ListItem
  <2>2. PICK l : l = Append(heap[Top].l, ret)
    OBVIOUS
  <2>3. l \in Seq(Nat)
    <3>1. heap[Top].l \in Seq(Nat) /\ ret \in Nat
      BY <1>1, <1>2, UpdateKeepsHeap
    <3>. QED  BY <2>2, <3>1, AppendProperties
  <2>4. heap' = [heap EXCEPT ![Top].l = l]
    BY <1>2, <2>1, <2>2
  <2>5. heap' \in Seq(Node) /\ Len(heap') = Len(heap)
    BY <1>1, <1>2, <2>3, <2>4, UpdateKeepsHeap
  <2>. QED  BY <1>1, <2>1, <2>5, HeapStepKeepsInvariant
<1>. QED  BY <1>3, <1>4

(* The loop test of a dictionary, with the key of the next entry.          *)
LEMMA DictLoopKeepsInvariant == IInv /\ DictLoop => IInv'
<1> SUFFICES ASSUME IInv, DictLoop PROVE IInv'
  OBVIOUS
<1>1. /\ stack # <<>> /\ heap \in Seq(Node) /\ input' = input
      /\ stack \in Seq(1..Len(heap)) /\ Len(heap) \in Nat
      /\ ret \in 0..Len(heap) /\ input \in Inputs
  BY DEF IInv, TypeOK, DictLoop, Ptr
<1>2. Top \in 1..Len(heap)
  BY <1>1 DEF Top
<1>3. CASE Byte(pos) = "e" /\ heap[Top].d = <<>>
  <2>1. /\ heap' = heap /\ mode' = "crash"
        /\ UNCHANGED <<input, pos, dataLen, stack, ret>>
    BY <1>3 DEF DictLoop
  <2>. QED  BY <1>1, <2>1, HeapStepKeepsInvariant
<1>4. CASE Byte(pos) = "e" /\ heap[Top].d # <<>>
  <2>1. Leave /\ heap' = heap
    BY <1>4 DEF DictLoop
  <2>. QED  BY <1>1, <2>1, LeaveKeepsInvariant
<1>5. CASE Byte(pos) # "e"
  <2>1. PICK key : key = DecodeStr(pos, dataLen)
    OBVIOUS
  <2>2. /\ key.str \in CStr /\ key.end \in Nat /\ key.end >= pos
        /\ pos <= Len(input) => key.end <= Len(input)
        /\ pos >= Len(input) => key.end = pos
    <3>1. /\ pos \in Nat /\ input \in Seq(Char) /\ dataLen \in Int
          /\ pos + dataLen = Len(input)
      BY InputsAssumption DEF IInv, TypeOK, CursorMatchesLength
    <3>. QED  BY <2>1, <3>1, DecodeStrProperties
  <2>3. PICK d : d = Append(heap[Top].d, [key |-> key.str, val |-> NULL])
    OBVIOUS
  <2>4. d \in Seq(Entry)
    <3>1. [key |-> key.str, val |-> NULL] \in Entry
      BY <2>2 DEF Entry, NULL
    <3>2. heap[Top].d \in Seq(Entry)
      BY <1>1, <1>2, UpdateKeepsHeap
    <3>. QED  BY <2>3, <3>1, <3>2, AppendProperties
  <2>5. /\ heap' = [heap EXCEPT ![Top].d = d]
        /\ MoveTo(key.end) /\ mode' = "call" /\ UNCHANGED <<input, stack, ret>>
    BY <1>2, <1>5, <2>1, <2>3 DEF DictLoop
  <2>6. heap' \in Seq(Node) /\ Len(heap') = Len(heap)
    BY <1>1, <1>2, <2>4, <2>5, UpdateKeepsHeap
  <2>7. /\ pos' \in Nat /\ dataLen' \in Int
        /\ CursorMatchesLength' /\ OpenFramesBounded'
    BY <2>2, <2>5, ForwardKeepsBounds DEF IInv
  <2>8. TypeOK'
    BY <1>1, <2>5, <2>6, <2>7 DEF TypeOK, Ptr
  <2>. QED  BY <2>7, <2>8 DEF IInv
<1>. QED  BY <1>3, <1>4, <1>5

(* A value of a dictionary is stored; the aliased test may make it leave.  *)
LEMMA DictItemKeepsInvariant == IInv /\ DictItem => IInv'
<1> SUFFICES ASSUME IInv, DictItem PROVE IInv'
  OBVIOUS
<1>1. /\ stack # <<>> /\ heap \in Seq(Node) /\ input' = input
      /\ stack \in Seq(1..Len(heap)) /\ Len(heap) \in Nat /\ ret \in 0..Len(heap)
  BY DEF IInv, TypeOK, DictItem, Ptr
<1>2. Top \in 1..Len(heap)
  BY <1>1 DEF Top
<1>3. heap[Top].d \in Seq(Entry)
  BY <1>1, <1>2, UpdateKeepsHeap
<1>4. PICK n \in Int : n = Len(heap[Top].d)
  BY <1>3
<1>5. PICK d : d = [heap[Top].d EXCEPT ![n].val = ret]
  OBVIOUS
<1>6. d \in Seq(Entry)
  <2>1. ret \in Nat
    BY <1>1
  <2>2. PICK e \in Seq(Entry) : e = heap[Top].d
    BY <1>3
  <2>. QED  BY <1>5, <2>1, <2>2, StoreKeepsEntries
<1>7. CASE AliasIsNull(d, n - 1)
  <2>1. PICK e : e = [d EXCEPT ![n].val = NULL]
    OBVIOUS
  <2>2. e \in Seq(Entry)
    BY <1>6, <2>1, StoreKeepsEntries DEF NULL
  <2>3. heap' = [heap EXCEPT ![Top].d = e] /\ Leave
    BY <1>4, <1>5, <1>7, <2>1 DEF DictItem
  <2>4. heap' \in Seq(Node) /\ Len(heap') = Len(heap)
    BY <1>1, <1>2, <2>2, <2>3, UpdateKeepsHeap
  <2>. QED  BY <1>1, <2>3, <2>4, LeaveKeepsInvariant
<1>8. CASE ~AliasIsNull(d, n - 1)
  <2>1. /\ heap' = [heap EXCEPT ![Top].d = d] /\ mode' = "loop"
        /\ UNCHANGED <<input, pos, dataLen, stack, ret>>
    BY <1>4, <1>5, <1>8 DEF DictItem
  <2>2. heap' \in Seq(Node) /\ Len(heap') = Len(heap)
    BY <1>1, <1>2, <1>6, <2>1, UpdateKeepsHeap
  <2>. QED  BY <1>1, <2>1, <2>2, HeapStepKeepsInvariant
<1>. QED  BY <1>7, <1>8

-----------------------------------------------------------------------------
(* The theorems.                                                           *)

(* One case per step of the decoder.                                       *)
LEMMA NextPreserves == IInv /\ [Next]_vars => IInv'
<1> SUFFICES ASSUME IInv, [Next]_vars PROVE IInv'
  OBVIOUS
<1>1. CASE NoDataLeft
  BY <1>1, NoDataLeftKeepsInvariant
<1>2. CASE OpenList
  BY <1>2, OpenKeepsInvariant DEF OpenList
<1>3. CASE OpenDict
  BY <1>3, OpenKeepsInvariant DEF OpenDict
<1>4. CASE DecodeInt
  BY <1>4, DecodeIntKeepsInvariant
<1>5. CASE DecodeString
  BY <1>5, DecodeStringKeepsInvariant
<1>6. CASE Invalid
  BY <1>6, InvalidKeepsInvariant
<1>7. CASE ListLoop
  BY <1>7, ListLoopKeepsInvariant
<1>8. CASE ListItem
  BY <1>8, ListItemKeepsInvariant
<1>9. CASE DictLoop
  BY <1>9, DictLoopKeepsInvariant
<1>10. CASE DictItem
  BY <1>10, DictItemKeepsInvariant
<1>11. CASE Finish
  BY <1>11, FinishKeepsInvariant
<1>12. CASE UNCHANGED vars
  BY <1>12 DEF vars, IInv, TypeOK, CursorMatchesLength, OpenFramesBounded, Ptr
<1>. QED
  BY <1>1, <1>2, <1>3, <1>4, <1>5, <1>6, <1>7, <1>8, <1>9, <1>10, <1>11,
     <1>12 DEF Next

(* Every reachable state of the decoder satisfies the inductive invariant, *)
(* for every set of texts.                                                 *)
THEOREM Invariance == Spec => []IInv
  BY InitEstablishes, NextPreserves, PTL DEF Spec

(* The decoder's variables keep their types: every pointer it stores or    *)
(* returns is NULL or a node it has allocated.                             *)
THEOREM TypeCorrect == Spec => []TypeOK
<1>1. IInv => TypeOK
  BY DEF IInv
<1>. QED  BY <1>1, Invariance, PTL

(* *data and *data_len, moved by separate assignments, never drift apart.  *)
THEOREM CursorNeverDrifts == Spec => []CursorMatchesLength
<1>1. IInv => CursorMatchesLength
  BY DEF IInv
<1>. QED  BY <1>1, Invariance, PTL

(* However the text is cut off, the decoder goes at most one length of the *)
(* text past its end.                                                      *)
THEOREM OverreadIsBounded == Spec => []CursorBounded
<1>1. IInv => CursorBounded
  <2> SUFFICES ASSUME IInv PROVE CursorBounded
    OBVIOUS
  <2>1. Len(input) \in Nat /\ Len(stack) \in Nat /\ pos \in Nat
    BY InputsAssumption DEF IInv, TypeOK
  <2>. QED  BY <2>1 DEF IInv, OpenFramesBounded, CursorBounded
<1>. QED  BY <1>1, Invariance, PTL

(* The lists and dictionaries still open never outnumber the bytes read:   *)
(* each opened with a byte, and past the end of the text a byte is skipped *)
(* only by closing one of them.                                            *)
THEOREM NestingIsPaidFor == Spec => []OpenFramesBounded
<1>1. IInv => OpenFramesBounded
  BY DEF IInv
<1>. QED  BY <1>1, Invariance, PTL

-----------------------------------------------------------------------------
(* The tree that the decoder leaves behind.                                *)

(* Pointer k of node p leads to node c.                                    *)
Refers(h, p, k, c) ==
    \/ k \in DOMAIN h[p].l /\ h[p].l[k] = c
    \/ k \in DOMAIN h[p].d /\ h[p].d[k].val = c /\ c # NULL

Unreferenced(h, c) == \A p \in 1..Len(h), k \in Nat : ~Refers(h, p, k, c)

(* Pointers lead to nodes allocated later, and no two to the same node.    *)
Forest(h) ==
    /\ \A p \in 1..Len(h), k, c \in Nat : Refers(h, p, k, c) => p < c /\ c <= Len(h)
    /\ \A p, q \in 1..Len(h), j, k, c \in Nat :
          Refers(h, p, k, c) /\ Refers(h, q, j, c) => p = q /\ k = j

(* Nothing points to a node that is still being filled, nor to the one     *)
(* that has just been returned, which is the newest of them.               *)
StackApart ==
    /\ \A a, b \in 1..Len(stack) : a < b => stack[a] < stack[b]
    /\ \A a \in 1..Len(stack) : Unreferenced(heap, stack[a])

RetApart ==
    mode \in {"return", "done"} /\ ret # NULL =>
        /\ Unreferenced(heap, ret)
        /\ \A a \in 1..Len(stack) : stack[a] < ret

TreeInv == Forest(heap) /\ StackApart /\ RetApart

-----------------------------------------------------------------------------

(* A new node points nowhere.                                              *)
LEMMA AllocRefers ==
    ASSUME NEW h \in Seq(Node), NEW n, n.l = <<>>, n.d = <<>>,
           NEW p \in 1..(Len(h) + 1), NEW k \in Nat, NEW c,
           Refers(Append(h, n), p, k, c)
    PROVE  p \in 1..Len(h) /\ Refers(h, p, k, c)
<1>1. Len(h) \in Nat
  OBVIOUS
<1>2. CASE p = Len(h) + 1
  <2>1. Append(h, n)[p] = n
    BY <1>1, <1>2, AppendProperties
  <2>2. k \in DOMAIN n.l \/ k \in DOMAIN n.d
    BY <2>1 DEF Refers
  <2>. QED  BY <2>2
<1>3. CASE p # Len(h) + 1
  <2>1. p \in 1..Len(h)
    BY <1>1, <1>3
  <2>2. Append(h, n)[p] = h[p]
    BY <2>1, AppendProperties
  <2>. QED  BY <2>1, <2>2 DEF Refers
<1>. QED  BY <1>2, <1>3

(* A forest with a node more.                                              *)
LEMMA AllocKeepsForest ==
    ASSUME NEW h \in Seq(Node), NEW n \in Node, n.l = <<>>, n.d = <<>>, Forest(h),
           NEW g, g = Append(h, n)
    PROVE  /\ Forest(g)
           /\ \A c \in Nat : Unreferenced(h, c) => Unreferenced(g, c)
           /\ Unreferenced(g, Len(h) + 1)
<1>1. Len(h) \in Nat /\ g \in Seq(Node) /\ Len(g) = Len(h) + 1
  BY AppendProperties
<1>2. \A p \in 1..Len(g), k \in Nat, c \in Nat :
         Refers(g, p, k, c) => p \in 1..Len(h) /\ Refers(h, p, k, c)
  BY <1>1, AllocRefers
<1>3. Forest(g)
  <2>1. ASSUME NEW p \in 1..Len(g), NEW k \in Nat, NEW c \in Nat, Refers(g, p, k, c)
        PROVE  p < c /\ c <= Len(g)
    <3>1. p < c /\ c <= Len(h)
      BY <1>2, <2>1 DEF Forest
    <3>. QED  BY <1>1, <3>1
  <2>2. ASSUME NEW p \in 1..Len(g), NEW q \in 1..Len(g), NEW j \in Nat,
               NEW k \in Nat, NEW c \in Nat, Refers(g, p, k, c), Refers(g, q, j, c)
        PROVE  p = q /\ k = j
    BY <1>2, <2>2 DEF Forest
  <2>. QED  BY <2>1, <2>2 DEF Forest
<1>4. \A c \in Nat : Unreferenced(h, c) => Unreferenced(g, c)
  BY <1>2 DEF Unreferenced
<1>5. Unreferenced(g, Len(h) + 1)
  <2>1. ASSUME NEW p \in 1..Len(g), NEW k \in Nat, Refers(g, p, k, Len(h) + 1)
        PROVE  FALSE
    <3>1. Len(h) + 1 \in Nat
      BY <1>1
    <3>2. Len(h) + 1 <= Len(h)
      BY <1>2, <2>1, <3>1 DEF Forest
    <3>. QED  BY <1>1, <3>2
  <2>. QED  BY <2>1 DEF Unreferenced
<1>. QED  BY <1>3, <1>4, <1>5

(* Heap g has the pointers of h, or fewer, and at most one more, to v.     *)
OneMore(h, g, p0, n, v) ==
    /\ Len(g) = Len(h)
    /\ \A p \in 1..Len(h), k, c \in Nat :
          Refers(g, p, k, c) =>
             Refers(h, p, k, c) \/ (p = p0 /\ k = n /\ c = v /\ v # NULL)

LEMMA OneMoreKeepsForest ==
    ASSUME NEW h, NEW g, NEW p0, NEW n, NEW v, OneMore(h, g, p0, n, v), Forest(h),
           v # NULL => p0 < v /\ v <= Len(h) /\ Unreferenced(h, v)
    PROVE  /\ Forest(g)
           /\ \A c \in Nat : Unreferenced(h, c) /\ (c # v \/ v = NULL)
                               => Unreferenced(g, c)
<1>1. ASSUME NEW p \in 1..Len(g), NEW k \in Nat, NEW c \in Nat, Refers(g, p, k, c)
      PROVE  p < c /\ c <= Len(g)
  BY <1>1 DEF OneMore, Forest
<1>2. ASSUME NEW p \in 1..Len(g), NEW q \in 1..Len(g), NEW j \in Nat,
             NEW k \in Nat, NEW c \in Nat, Refers(g, p, k, c), Refers(g, q, j, c)
      PROVE  p = q /\ k = j
  BY <1>2 DEF OneMore, Forest, Unreferenced
<1>3. ASSUME NEW c \in Nat, Unreferenced(h, c), c # v \/ v = NULL
      PROVE  Unreferenced(g, c)
  BY <1>3 DEF OneMore, Unreferenced
<1>. QED  BY <1>1, <1>2, <1>3 DEF Forest

(* Storing an item at the end of a list.                                   *)
LEMMA ListStore ==
    ASSUME NEW h \in Seq(Node), NEW p0 \in 1..Len(h), NEW v \in Nat, v # NULL
    PROVE  OneMore(h, [h EXCEPT ![p0].l = Append(@, v)], p0,
                   Len(h[p0].l) + 1, v)
<1>1. PICK l \in Seq(Nat) : l = h[p0].l
  <2>1. h[p0] \in Node
    OBVIOUS
  <2>. QED  BY <2>1 DEF Node
<1>2. PICK m : m = Append(l, v)
  OBVIOUS
<1>3. /\ Len(l) \in Nat /\ DOMAIN l = 1..Len(l)
      /\ DOMAIN m = 1..(Len(l) + 1)
      /\ \A k \in 1..Len(l) : m[k] = l[k]
      /\ m[Len(l) + 1] = v
  BY <1>2, AppendProperties
<1>4. PICK g : g = [h EXCEPT ![p0].l = m]
  OBVIOUS
<1>5. h[p0] \in Node /\ DOMAIN h = 1..Len(h) /\ Len(h) \in Nat
  OBVIOUS
<1>6. /\ g[p0] = [h[p0] EXCEPT !.l = m]
      /\ \A p \in 1..Len(h) : p # p0 => g[p] = h[p]
      /\ DOMAIN g = 1..Len(h)
  BY <1>4, <1>5
<1>7. g[p0].l = m /\ g[p0].d = h[p0].d
  BY <1>5, <1>6 DEF Node
<1>8. Len(g) = Len(h)
  <2>1. [h[p0] EXCEPT !.l = m] \in Node
    <3>1. m \in Seq(Nat)
      BY <1>2, AppendProperties
    <3>. QED  BY <1>5, <3>1 DEF Node
  <2>2. g = [h EXCEPT ![p0] = [h[p0] EXCEPT !.l = m]]
    BY <1>4
  <2>. QED  BY <2>1, <2>2, ExceptSeq
<1>9. ASSUME NEW p \in 1..Len(h), NEW k \in Nat, NEW c \in Nat, Refers(g, p, k, c)
      PROVE  Refers(h, p, k, c) \/ (p = p0 /\ k = Len(l) + 1 /\ c = v /\ v # NULL)
  <2>1. CASE p # p0
    BY <1>6, <1>9, <2>1 DEF Refers
  <2>2. CASE p = p0 /\ k \in DOMAIN m /\ m[k] = c
    <3>1. CASE k = Len(l) + 1
      BY <1>3, <2>2, <3>1
    <3>2. CASE k \in 1..Len(l)
      BY <1>1, <1>3, <2>2, <3>2 DEF Refers
    <3>. QED  BY <1>3, <2>2, <3>1, <3>2
  <2>3. CASE p = p0 /\ k \in DOMAIN h[p0].d /\ h[p0].d[k].val = c /\ c # NULL
    BY <2>3 DEF Refers
  <2>. QED  BY <1>7, <1>9, <2>1, <2>2, <2>3 DEF Refers
<1>10. g = [h EXCEPT ![p0].l = Append(@, v)]
  BY <1>1, <1>2, <1>4
<1>. QED  BY <1>1, <1>8, <1>9, <1>10 DEF OneMore

(* Replacing the entries of a dictionary: an entry keeps its value, has    *)
(* none, or gets the new one.                                              *)
LEMMA DictStore ==
    ASSUME NEW h \in Seq(Node), NEW p0 \in 1..Len(h), NEW v, NEW n,
           NEW e \in Seq(Entry),
           \A k \in DOMAIN e :
              \/ e[k].val = NULL
              \/ k \in DOMAIN h[p0].d /\ e[k].val = h[p0].d[k].val
              \/ k = n /\ e[k].val = v
    PROVE  OneMore(h, [h EXCEPT ![p0].d = e], p0, n, v)
<1>1. PICK g : g = [h EXCEPT ![p0].d = e]
  OBVIOUS
<1>2. h[p0] \in Node /\ DOMAIN h = 1..Len(h)
  OBVIOUS
<1>3. /\ g[p0] = [h[p0] EXCEPT !.d = e]
      /\ \A p \in 1..Len(h) : p # p0 => g[p] = h[p]
  BY <1>1, <1>2
<1>4. g[p0].d = e /\ g[p0].l = h[p0].l
  BY <1>2, <1>3 DEF Node
<1>5. Len(g) = Len(h)
  <2>1. [h[p0] EXCEPT !.d = e] \in Node
    BY <1>2 DEF Node
  <2>2. g = [h EXCEPT ![p0] = [h[p0] EXCEPT !.d = e]]
    BY <1>1
  <2>. QED  BY <2>1, <2>2, ExceptSeq
<1>6. ASSUME NEW p \in 1..Len(h), NEW k \in Nat, NEW c \in Nat, Refers(g, p, k, c)
      PROVE  Refers(h, p, k, c) \/ (p = p0 /\ k = n /\ c = v /\ v # NULL)
  <2>1. CASE p # p0
    BY <1>3, <1>6, <2>1 DEF Refers
  <2>2. CASE p = p0 /\ k \in DOMAIN e /\ e[k].val = c /\ c # NULL
    BY <2>2 DEF Refers
  <2>3. CASE p = p0 /\ k \in DOMAIN h[p0].l /\ h[p0].l[k] = c
    BY <2>3 DEF Refers
  <2>. QED  BY <1>4, <1>6, <2>1, <2>2, <2>3 DEF Refers
<1>. QED  BY <1>1, <1>5, <1>6 DEF OneMore

-----------------------------------------------------------------------------
(* The steps of the decoder keep the tree.                                 *)

(* What TypeOK says of heap, stack and ret.                                *)
LEMMA Typed ==
    ASSUME IInv
    PROVE  /\ heap \in Seq(Node) /\ Len(heap) \in Nat
           /\ stack \in Seq(1..Len(heap)) /\ Len(stack) \in Nat
           /\ \A a \in 1..Len(stack) : stack[a] \in Nat /\ stack[a] \in 1..Len(heap)
           /\ ret \in Nat /\ ret <= Len(heap)
           /\ stack # <<>> => Len(stack) >= 1 /\ Top \in 1..Len(heap)
<1>1. heap \in Seq(Node) /\ stack \in Seq(1..Len(heap)) /\ ret \in 0..Len(heap)
  BY DEF IInv, TypeOK, Ptr
<1>2. Len(heap) \in Nat /\ Len(stack) \in Nat
  BY <1>1
<1>3. \A a \in 1..Len(stack) : stack[a] \in 1..Len(heap)
  BY <1>1, ElementOfSeq
<1>4. stack # <<>> => Len(stack) >= 1
  BY <1>1, EmptySeq
<1>5. stack # <<>> => Top \in 1..Len(heap)
  BY <1>2, <1>3, <1>4 DEF Top
<1>6. ret \in Nat /\ ret <= Len(heap) /\ \A a \in 1..Len(heap) : a \in Nat
  BY <1>1, <1>2
<1>. QED  BY <1>1, <1>2, <1>3, <1>4, <1>5, <1>6

(* Nothing that matters has changed, or NULL is returned.                  *)
LEMMA QuietKeepsTree ==
    ASSUME TreeInv, UNCHANGED <<heap, stack>>,
           \/ mode' = "return" /\ ret' = NULL
           \/ mode' \in {"call", "loop", "crash"}
           \/ mode = "return" /\ mode' = "done" /\ ret' = ret
           \/ mode' = mode /\ ret' = ret
    PROVE  TreeInv'
  BY DEF TreeInv, Forest, StackApart, RetApart, Unreferenced, Refers

(* A node is allocated and either pushed or returned.                      *)
LEMMA AllocKeepsTree ==
    ASSUME IInv, TreeInv, NEW n \in Node, n.l = <<>>, n.d = <<>>,
           heap' = Append(heap, n),
           \/ stack' = Append(stack, Len(heap) + 1) /\ mode' = "loop"
           \/ stack' = stack /\ mode' = "return" /\ ret' = Len(heap) + 1
    PROVE  TreeInv'
<1>1. /\ heap \in Seq(Node) /\ Len(heap) \in Nat /\ Len(stack) \in Nat
      /\ stack \in Seq(1..Len(heap))
      /\ \A a \in 1..Len(stack) : stack[a] \in Nat /\ stack[a] \in 1..Len(heap)
  BY Typed
<1>2. PICK m \in Nat : m = Len(heap) + 1
  BY <1>1
<1>3. PICK g : g = heap'
  OBVIOUS
<1>4. /\ Forest(g) /\ Unreferenced(g, m)
      /\ \A c \in Nat : Unreferenced(heap, c) => Unreferenced(g, c)
  BY <1>1, <1>2, <1>3, AllocKeepsForest DEF TreeInv
<1>5. \A a \in 1..Len(stack) : stack[a] < m
  BY <1>1, <1>2
<1>6. \A a \in 1..Len(stack) : Unreferenced(g, stack[a])
  BY <1>1, <1>4 DEF TreeInv, StackApart
<1>7. CASE stack' = Append(stack, m) /\ mode' = "loop"
  <2>1. PICK t : t = stack'
    OBVIOUS
  <2>2. /\ Len(t) = Len(stack) + 1 /\ t[Len(stack) + 1] = m
        /\ \A a \in 1..Len(stack) : t[a] = stack[a]
    BY <1>1, <1>7, <2>1, AppendProperties
  <2>3. ASSUME NEW a \in 1..Len(t), NEW b \in 1..Len(t), a < b PROVE t[a] < t[b]
    <3>1. CASE b = Len(stack) + 1
      <4>1. a \in 1..Len(stack)
        BY <1>1, <2>2, <2>3, <3>1
      <4>. QED  BY <1>5, <2>2, <3>1, <4>1
    <3>2. CASE b # Len(stack) + 1
      <4>1. PICK l \in Nat : l = Len(stack)
        BY <1>1
      <4>2. a \in 1..(l + 1) /\ b \in 1..(l + 1) /\ b # l + 1
        BY <2>2, <3>2, <4>1, Zenon
      <4>3. a \in 1..l /\ b \in 1..l
        BY <2>3, <4>2
      <4>. QED  BY <2>2, <2>3, <4>1, <4>3 DEF TreeInv, StackApart
    <3>. QED  BY <3>1, <3>2
  <2>4. ASSUME NEW a \in 1..Len(t) PROVE Unreferenced(g, t[a])
    <3>1. CASE a = Len(stack) + 1
      BY <1>4, <2>2, <3>1
    <3>2. CASE a \in 1..Len(stack)
      BY <1>6, <2>2, <3>2
    <3>. QED  BY <1>1, <2>2, <2>4, <3>1, <3>2
  <2>5. StackApart'
    BY <1>3, <2>1, <2>3, <2>4 DEF StackApart
  <2>6. RetApart'
    BY <1>7 DEF RetApart
  <2>. QED  BY <1>3, <1>4, <2>5, <2>6 DEF TreeInv
<1>8. CASE stack' = stack /\ mode' = "return" /\ ret' = m
  <2>1. StackApart'
    BY <1>3, <1>6, <1>8 DEF TreeInv, StackApart
  <2>2. RetApart'
    BY <1>3, <1>4, <1>5, <1>8 DEF RetApart
  <2>. QED  BY <1>3, <1>4, <2>1, <2>2 DEF TreeInv
<1>. QED  BY <1>2, <1>7, <1>8

(* The value returned is stored in the innermost node, or is lost.         *)
LEMMA StoreKeepsTree ==
    ASSUME IInv, TreeInv, stack # <<>>, mode = "return", NEW n, NEW v,
           v = NULL \/ v = ret, OneMore(heap, heap', Top, n, v)
    PROVE  /\ Forest(heap')
           /\ \A a \in 1..Len(stack) : Unreferenced(heap', stack[a])
<1>1. /\ ret \in Nat /\ ret <= Len(heap) /\ Len(stack) \in Nat /\ Len(stack) >= 1
      /\ \A a \in 1..Len(stack) : stack[a] \in Nat
      /\ Top = stack[Len(stack)]
  BY Typed DEF Top
<1>2. v # NULL => /\ v = ret /\ Unreferenced(heap, v)
                  /\ \A a \in 1..Len(stack) : stack[a] < v
  BY DEF TreeInv, RetApart
<1>3. v # NULL => Top < v /\ v <= Len(heap) /\ Unreferenced(heap, v)
  BY <1>1, <1>2
<1>4. PICK g : g = heap'
  OBVIOUS
<1>5. /\ Forest(g)
      /\ \A c \in Nat : Unreferenced(heap, c) /\ (c # v \/ v = NULL)
                          => Unreferenced(g, c)
  BY <1>3, <1>4, OneMoreKeepsForest DEF TreeInv
<1>6. ASSUME NEW a \in 1..Len(stack) PROVE Unreferenced(g, stack[a])
  <2>1. stack[a] # v \/ v = NULL
    BY <1>1, <1>2
  <2>. QED  BY <1>1, <1>5, <2>1 DEF TreeInv, StackApart
<1>. QED  BY <1>4, <1>5, <1>6

(* The stack without its last frame, whose node is returned.               *)
LEMMA LeaveStack ==
    ASSUME IInv, stack # <<>>, Leave, NEW s \in Nat, s = Len(stack)
    PROVE  /\ s >= 1 /\ Len(stack') = s - 1
           /\ \A a \in 1..(s - 1) :
                 a \in 1..s /\ a < s /\ stack'[a] = stack[a]
           /\ Top = stack[s] /\ ret' = stack[s] /\ mode' = "return"
<1>1. /\ s >= 1 /\ stack \in Seq(1..Len(heap)) /\ Top = stack[s]
  BY Typed DEF Top
<1>2. PICK m \in Nat : m = s - 1
  BY <1>1
<1>3. \A a \in 1..m : a \in 1..s /\ a < s
  BY <1>1, <1>2
<1>4. PICK t : t = stack'
  OBVIOUS
<1>5. Len(t) = m /\ \A a \in 1..m : t[a] = stack[a]
  <2>1. t = SubSeq(stack, 1, m)
    BY <1>2, <1>4 DEF Leave
  <2>2. \A a \in 1..m : stack[a] \in 1..Len(heap)
    BY <1>1, <1>3, ElementOfSeq
  <2>3. Len(t) = (IF 1 <= m THEN m - 1 + 1 ELSE 0)
        /\ \A a \in 1..(m - 1 + 1) : t[a] = stack[1 + a - 1]
    BY <2>1, <2>2, SubSeqProperties
  <2>. QED  BY <2>3
<1>. QED  BY <1>1, <1>2, <1>3, <1>4, <1>5 DEF Leave, Return

(* A list or dictionary is complete: its node is the newest that nothing   *)
(* points to.                                                              *)
LEMMA LeaveKeepsTree ==
    ASSUME IInv, TreeInv, stack # <<>>, Leave, Forest(heap'),
           \A a \in 1..Len(stack) : Unreferenced(heap', stack[a])
    PROVE  TreeInv'
<1>1. /\ Len(stack) \in Nat /\ Len(stack) >= 1 /\ stack \in Seq(1..Len(heap))
      /\ Top = stack[Len(stack)]
  BY Typed DEF Top
<1>2. PICK m \in Nat : m = Len(stack) - 1
  BY <1>1
<1>3. PICK t : t = stack'
  OBVIOUS
<1>4. Len(t) = m /\ \A a \in 1..m : t[a] = stack[a] /\ a \in 1..Len(stack)
  BY <1>2, <1>3, LeaveStack
<1>5. ret' = stack[Len(stack)] /\ mode' = "return"
  BY <1>1 DEF Leave, Return
<1>6. StackApart'
  <2>1. ASSUME NEW a \in 1..m, NEW b \in 1..m, a < b PROVE t[a] < t[b]
    BY <1>4, <2>1 DEF TreeInv, StackApart
  <2>2. \A a \in 1..m : Unreferenced(heap', t[a])
    BY <1>4
  <2>. QED  BY <1>3, <1>4, <2>1, <2>2 DEF StackApart
<1>7. RetApart'
  <2>1. Unreferenced(heap', stack[Len(stack)])
    BY <1>1
  <2>2. ASSUME NEW a \in 1..m PROVE t[a] < stack[Len(stack)]
    <3>1. a \in 1..Len(stack) /\ Len(stack) \in 1..Len(stack) /\ a < Len(stack)
      BY <1>1, <1>2
    <3>. QED  BY <1>4, <3>1 DEF TreeInv, StackApart
  <2>. QED  BY <1>3, <1>4, <1>5, <2>1, <2>2 DEF RetApart
<1>. QED  BY <1>6, <1>7 DEF TreeInv

(* One case per step of the decoder: those that allocate, those that       *)
(* return to a loop, and those that leave it.                              *)
LEMMA TreeNext == IInv /\ TreeInv /\ [Next]_vars => TreeInv'
<1> SUFFICES ASSUME IInv, TreeInv, [Next]_vars PROVE TreeInv'
  OBVIOUS
<1>1. /\ heap \in Seq(Node) /\ Len(heap) \in Nat /\ ret \in Nat
      /\ stack # <<>> => Top \in 1..Len(heap)
      /\ mode = "loop" => stack # <<>>
  BY Typed DEF IInv, TypeOK
<1>2. ASSUME heap' = heap, Leave, stack # <<>> PROVE TreeInv'
  <2>1. Forest(heap') /\ \A a \in 1..Len(stack) : Unreferenced(heap', stack[a])
    BY <1>2 DEF TreeInv, StackApart
  <2>. QED  BY <1>2, <2>1, LeaveKeepsTree
<1>3. ASSUME NEW t \in {"list", "dict"},
             heap' = Append(heap, be_alloc(t)), mode' = "loop",
             stack' = Append(stack, Len(heap) + 1)
      PROVE  TreeInv'
  <2>1. be_alloc(t) \in Node /\ be_alloc(t).l = <<>> /\ be_alloc(t).d = <<>>
    BY AllocIsNode DEF be_alloc
  <2>. QED  BY <1>3, <2>1, AllocKeepsTree
<1>4. CASE NoDataLeft \/ Invalid
  BY <1>4, QuietKeepsTree DEF NoDataLeft, Invalid, Return
<1>5. CASE OpenList \/ OpenDict
  BY <1>3, <1>5 DEF OpenList, OpenDict, Open
<1>6. CASE DecodeInt
  <2>1. PICK number : number = Strtoll(pos + 1)
    OBVIOUS
  <2>2. stack' = stack /\ mode' = "return"
    BY <1>6 DEF DecodeInt, Return
  <2>3. CASE Byte(number.end) = "e"
    <3>1. /\ heap' = Append(heap, [be_alloc("int") EXCEPT !.i = number.value])
          /\ ret' = Len(heap) + 1
      BY <1>6, <2>1, <2>3 DEF DecodeInt, Return
    <3>2. PICK n : n = [be_alloc("int") EXCEPT !.i = number.value]
      OBVIOUS
    <3>3. number.value \in Int
      <4>1. input \in Seq(Char) /\ pos + 1 \in Nat
        BY InputsAssumption DEF IInv, TypeOK
      <4>. QED  BY <2>1, <4>1, StrtollProperties
    <3>4. n \in Node /\ n.l = <<>> /\ n.d = <<>>
      BY <3>2, <3>3, AllocIsNode DEF be_alloc
    <3>. QED  BY <2>2, <3>1, <3>2, <3>4, AllocKeepsTree
  <2>4. CASE Byte(number.end) # "e"
    <3>1. heap' = heap /\ ret' = NULL
      BY <1>6, <2>1, <2>4 DEF DecodeInt, Return
    <3>. QED  BY <2>2, <3>1, QuietKeepsTree
  <2>. QED  BY <2>3, <2>4
<1>7. CASE DecodeString
  <2>1. PICK str : str = DecodeStr(pos, dataLen)
    OBVIOUS
  <2>2. PICK n : n = [be_alloc("str") EXCEPT !.s = str.str]
    OBVIOUS
  <2>3. /\ heap' = Append(heap, n) /\ stack' = stack /\ mode' = "return"
        /\ ret' = Len(heap) + 1
    BY <1>7, <2>1, <2>2 DEF DecodeString, Return
  <2>4. str.str \in CStr
    <3>1. /\ pos \in Nat /\ input \in Seq(Char) /\ dataLen \in Int
          /\ pos + dataLen = Len(input)
      BY InputsAssumption DEF IInv, TypeOK, CursorMatchesLength
    <3>. QED  BY <2>1, <3>1, DecodeStrProperties
  <2>5. n \in Node /\ n.l = <<>> /\ n.d = <<>>
    BY <2>2, <2>4, AllocIsNode DEF be_alloc
  <2>. QED  BY <2>3, <2>5, AllocKeepsTree
<1>8. CASE ListLoop
  <2>1. heap' = heap /\ stack # <<>>
    BY <1>1, <1>8 DEF ListLoop
  <2>2. Leave \/ (mode' = "call" /\ stack' = stack)
    BY <1>8 DEF ListLoop
  <2>. QED  BY <1>2, <2>1, <2>2, QuietKeepsTree
<1>9. CASE ListItem
  <2>1. CASE ret = NULL
    BY <1>2, <1>9, <2>1 DEF ListItem
  <2>2. CASE ret # NULL
    <3>1. /\ heap' = [heap EXCEPT ![Top].l = Append(@, ret)]
          /\ mode = "return" /\ mode' = "loop" /\ stack' = stack /\ stack # <<>>
      BY <1>9, <2>2 DEF ListItem
    <3>2. PICK n : n = Len(heap[Top].l) + 1
      OBVIOUS
    <3>3. OneMore(heap, heap', Top, n, ret)
      BY <1>1, <2>2, <3>1, <3>2, ListStore
    <3>4. Forest(heap') /\ \A a \in 1..Len(stack) : Unreferenced(heap', stack[a])
      BY <3>1, <3>3, StoreKeepsTree
    <3>. QED  BY <3>1, <3>4 DEF TreeInv, StackApart, RetApart
  <2>. QED  BY <2>1, <2>2
<1>10. CASE DictLoop
  <2>1. stack # <<>>
    BY <1>1, <1>10 DEF DictLoop
  <2>2. CASE Byte(pos) = "e"
    <3>1. heap' = heap /\ (Leave \/ (mode' = "crash" /\ stack' = stack))
      BY <1>10, <2>2 DEF DictLoop
    <3>. QED  BY <1>2, <2>1, <3>1, QuietKeepsTree
  <2>3. CASE Byte(pos) # "e"
    <3>1. PICK key : key = DecodeStr(pos, dataLen)
      OBVIOUS
    <3>2. key.str \in CStr
      <4>1. /\ pos \in Nat /\ input \in Seq(Char) /\ dataLen \in Int
            /\ pos + dataLen = Len(input)
        BY InputsAssumption DEF IInv, TypeOK, CursorMatchesLength
      <4>. QED  BY <3>1, <4>1, DecodeStrProperties
    <3>3. PICK x : x = [key |-> key.str, val |-> NULL]
      OBVIOUS
    <3>4. x \in Entry /\ x.val = NULL
      BY <3>2, <3>3 DEF Entry, NULL
    <3>5. PICK d \in Seq(Entry) : d = heap[Top].d
      BY <1>1, <2>1, UpdateKeepsHeap
    <3>6. PICK e : e = Append(d, x)
      OBVIOUS
    <3>7. /\ heap' = [heap EXCEPT ![Top].d = e]
          /\ mode' = "call" /\ stack' = stack
      BY <1>1, <1>10, <2>1, <2>3, <3>1, <3>3, <3>5, <3>6 DEF DictLoop
    <3>8. e \in Seq(Entry)
      BY <3>4, <3>6, AppendProperties
    <3>9. ASSUME NEW k \in DOMAIN e
          PROVE  e[k].val = NULL \/ (k \in DOMAIN d /\ e[k].val = d[k].val)
      <4>1. /\ Len(d) \in Nat /\ DOMAIN d = 1..Len(d)
            /\ DOMAIN e = 1..(Len(d) + 1) /\ e[Len(d) + 1] = x
            /\ \A i \in 1..Len(d) : e[i] = d[i]
        BY <3>4, <3>6, AppendProperties
      <4>2. k = Len(d) + 1 \/ k \in 1..Len(d)
        BY <4>1
      <4>. QED  BY <3>4, <4>1, <4>2
    <3>10. OneMore(heap, heap', Top, 0, NULL)
      BY <1>1, <2>1, <3>5, <3>7, <3>8, <3>9, DictStore
    <3>11. /\ Forest(heap')
           /\ \A c \in Nat : Unreferenced(heap, c) => Unreferenced(heap', c)
      <4>1. PICK g : g = heap'
        OBVIOUS
      <4>2. /\ Forest(g)
            /\ \A c \in Nat : Unreferenced(heap, c) /\ (c # NULL \/ NULL = NULL)
                                => Unreferenced(g, c)
        BY <3>10, <4>1, OneMoreKeepsForest DEF TreeInv
      <4>. QED  BY <4>1, <4>2
    <3>12. \A a \in 1..Len(stack) : Unreferenced(heap', stack[a])
      BY <3>11, Typed DEF TreeInv, StackApart
    <3>. QED  BY <3>7, <3>11, <3>12 DEF TreeInv, StackApart, RetApart
  <2>. QED  BY <2>2, <2>3
<1>11. CASE DictItem
  <2>1. mode = "return" /\ stack # <<>>
    BY <1>11 DEF DictItem
  <2>2. PICK f \in Seq(Entry) : f = heap[Top].d
    BY <1>1, <2>1, UpdateKeepsHeap
  <2>3. PICK n \in Int : n = Len(f)
    BY <2>2
  <2>4. PICK d : d = [f EXCEPT ![n].val = ret]
    OBVIOUS
  <2>5. d \in Seq(Entry) /\ DOMAIN d = DOMAIN f
    BY <1>1, <2>4, StoreKeepsEntries
  <2>6. ASSUME NEW k \in DOMAIN d
        PROVE  d[k].val = f[k].val \/ (k = n /\ d[k].val = ret)
    <3>1. f[k] \in Entry
      BY <2>5, ElementOfSeq
    <3>2. CASE k = n
      BY <2>4, <2>5, <3>1, <3>2 DEF Entry
    <3>3. CASE k # n
      BY <2>4, <2>5, <3>3
    <3>. QED  BY <3>2, <3>3
  <2>7. CASE AliasIsNull(d, n - 1)
    <3>1. PICK e : e = [d EXCEPT ![n].val = NULL]
      OBVIOUS
    <3>2. e \in Seq(Entry) /\ DOMAIN e = DOMAIN d
      BY <2>3, <2>5, <3>1, StoreKeepsEntries DEF NULL
    <3>3. heap' = [heap EXCEPT ![Top].d = e] /\ Leave
      BY <1>11, <2>2, <2>3, <2>4, <2>7, <3>1 DEF DictItem
    <3>4. ASSUME NEW k \in DOMAIN e
          PROVE  e[k].val = NULL \/ (k \in DOMAIN f /\ e[k].val = f[k].val)
      <4>1. d[k] \in Entry
        BY <2>5, <3>2, ElementOfSeq
      <4>2. CASE k = n
        BY <3>1, <3>2, <4>1, <4>2 DEF Entry
      <4>3. CASE k # n
        <5>1. e[k] = d[k]
          BY <3>1, <3>2, <4>3
        <5>. QED  BY <2>5, <2>6, <3>2, <4>3, <5>1
      <4>. QED  BY <4>2, <4>3
    <3>5. OneMore(heap, heap', Top, 0, NULL)
      BY <1>1, <2>1, <2>2, <3>2, <3>3, <3>4, DictStore
    <3>6. Forest(heap') /\ \A a \in 1..Len(stack) : Unreferenced(heap', stack[a])
      BY <2>1, <3>5, StoreKeepsTree
    <3>. QED  BY <2>1, <3>3, <3>6, LeaveKeepsTree
  <2>8. CASE ~AliasIsNull(d, n - 1)
    <3>1. heap' = [heap EXCEPT ![Top].d = d] /\ mode' = "loop" /\ stack' = stack
      BY <1>11, <2>2, <2>3, <2>4, <2>8 DEF DictItem
    <3>2. OneMore(heap, heap', Top, n, ret)
      BY <1>1, <2>1, <2>2, <2>5, <2>6, <3>1, DictStore
    <3>3. Forest(heap') /\ \A a \in 1..Len(stack) : Unreferenced(heap', stack[a])
      BY <2>1, <3>2, StoreKeepsTree
    <3>. QED  BY <3>1, <3>3 DEF TreeInv, StackApart, RetApart
  <2>. QED  BY <2>7, <2>8
<1>12. CASE Finish
  BY <1>12, QuietKeepsTree DEF Finish
<1>13. CASE UNCHANGED vars
  BY <1>13, QuietKeepsTree DEF vars
<1>. QED
  BY <1>4, <1>5, <1>6, <1>7, <1>8, <1>9, <1>10, <1>11, <1>12, <1>13 DEF Next

-----------------------------------------------------------------------------
(* be_free.                                                                *)

CallType == [node: Nat, next: Nat \ {0}]

FreeTypes ==
    /\ phase \in {"decode", "dump", "dumped", "free", "released"}
    /\ phase # "decode" => mode = "done"
    /\ phase \in {"decode", "dump", "dumped"} => frames = <<>> /\ freed = <<>>
    /\ frames \in Seq(CallType)
    /\ freed \in Seq(Nat)

(* The calls of be_free follow pointers down from the root.                *)
CallsDescend ==
    /\ \A a \in 1..Len(frames) : frames[a].node \in 1..Len(heap)
    /\ \A a, b \in 1..Len(frames) : a < b => frames[a].node < frames[b].node
    /\ \A a \in 1..Len(frames) :
          \/ a = 1 /\ frames[a].node = ret /\ ret # NULL
          \/ /\ a - 1 \in 1..Len(frames)
             /\ \E k \in Nat : /\ k < frames[a - 1].next
                               /\ Refers(heap, frames[a - 1].node, k, frames[a].node)

(* A node was freed through a pointer that be_free is done with: it stands *)
(* in a node that is freed, or behind the counter of a call.               *)
Passed(done, active, p, k) ==
    \/ \E m \in 1..Len(done) : done[m] = p
    \/ \E a \in 1..Len(active) : active[a].node = p /\ k < active[a].next

FreedBehind ==
    \A m \in 1..Len(freed) :
        \/ freed[m] = ret
        \/ \E p \in 1..Len(heap), k \in Nat :
              Refers(heap, p, k, freed[m]) /\ Passed(freed, frames, p, k)

(* NeverTouchesFreed, over the lengths of the two sequences.               *)
FreedApart ==
    /\ \A m, n \in 1..Len(freed) : m # n => freed[m] # freed[n]
    /\ \A a \in 1..Len(frames), m \in 1..Len(freed) : frames[a].node # freed[m]

FreeInv == FreeTypes /\ CallsDescend /\ FreedBehind /\ FreedApart

(* A recursive call, for a child that the counter comes to.                *)
LEMMA DescendKeepsInvariant ==
    ASSUME IInv, TreeInv, FreeInv, phase = "free", frames # <<>>, NEW c \in Nat,
           Refers(heap, Current.node, Current.next, c), Descend(c),
           UNCHANGED <<heap, mode, ret, freed, phase>>
    PROVE  FreeInv'
<1>1. /\ frames \in Seq(CallType) /\ freed \in Seq(Nat)
      /\ mode = "done" /\ heap \in Seq(Node) /\ Len(heap) \in Nat
  BY Typed DEF FreeInv, FreeTypes
<1>2. PICK l \in Nat : l = Len(frames) /\ l >= 1
  BY <1>1, EmptySeq
<1>3. PICK f \in CallType : f = frames[l] /\ f = Current
  <2>1. l \in 1..Len(frames)
    BY <1>2
  <2>. QED  BY <1>1, <1>2, <2>1, ElementOfSeq DEF Current
<1>4. f.node \in Nat /\ f.next \in Nat /\ f.next >= 1
  BY DEF CallType
<1>5. PICK g : g = [f EXCEPT !.next = f.next + 1]
  OBVIOUS
<1>6. g \in CallType /\ g.node = f.node /\ g.next = f.next + 1
  BY <1>4, <1>5 DEF CallType
<1>7. PICK u : u = [frames EXCEPT ![l] = g]
  OBVIOUS
<1>8. /\ u \in Seq(CallType) /\ Len(u) = l /\ u[l] = g
      /\ \A a \in 1..l : a # l => u[a] = frames[a]
  BY <1>1, <1>2, <1>6, <1>7, ExceptSeq
<1>9. PICK x : x = Call(c)
  OBVIOUS
<1>10. x \in CallType /\ x.node = c
  BY <1>9 DEF Call, CallType
<1>11. PICK t : t = frames'
  OBVIOUS
<1>12. t = Append(u, x)
  BY <1>2, <1>3, <1>5, <1>7, <1>9, <1>11 DEF Descend
<1>13. /\ t \in Seq(CallType) /\ Len(t) = l + 1
       /\ \A a \in 1..l : t[a] = u[a]
       /\ t[l + 1] = x
  BY <1>8, <1>10, <1>12, AppendProperties
<1>14. /\ \A a \in 1..l : t[a].node = frames[a].node
       /\ \A a \in 1..l : \A k \in Nat : k < frames[a].next => k < t[a].next
       /\ f.next < t[l].next
  <2>1. ASSUME NEW a \in 1..l, a # l PROVE t[a] = frames[a]
    BY <1>8, <1>13, <2>1
  <2>2. l \in 1..l
    BY <1>2
  <2>3. t[l].node = frames[l].node /\ t[l].next = frames[l].next + 1
    BY <1>3, <1>6, <1>8, <1>13, <2>2
  <2>4. /\ \A k \in Nat : k < frames[l].next => k < t[l].next
        /\ f.next < t[l].next
    <3>1. PICK n \in Nat : n = f.next
      BY <1>4
    <3>2. frames[l].next = n /\ t[l].next = n + 1 /\ f.next = n
      BY <1>3, <2>3, <3>1, Zenon
    <3>3. n < n + 1 /\ \A k \in Nat : k < n => k < n + 1
      OBVIOUS
    <3>. QED  BY <3>2, <3>3, Zenon
  <2>. QED  BY <2>1, <2>3, <2>4
<1>15. /\ f.node \in 1..Len(heap)
       /\ \A a \in 1..l : frames[a].node \in 1..Len(heap) /\ frames[a].node \in Nat
       /\ \A a \in 1..l : frames[a].node = f.node \/ frames[a].node < f.node
  <2>1. \A a \in 1..l : frames[a].node \in 1..Len(heap)
    BY <1>2 DEF FreeInv, CallsDescend
  <2>2. l \in 1..l
    BY <1>2
  <2>3. ASSUME NEW a \in 1..l
        PROVE  frames[a].node = f.node \/ frames[a].node < f.node
    <3>1. a = l \/ a < l
      BY <1>2
    <3>. QED  BY <1>2, <1>3, <2>2, <3>1 DEF FreeInv, CallsDescend
  <2>4. \A q \in 1..Len(heap) : q \in Nat
    BY <1>1
  <2>. QED  BY <1>3, <2>1, <2>2, <2>3, <2>4
<1>16. f.node < c /\ c <= Len(heap) /\ c \in 1..Len(heap)
  <2>1. f.node < c /\ c <= Len(heap)
    BY <1>3, <1>4, <1>15 DEF TreeInv, Forest
  <2>. QED  BY <1>1, <1>4, <2>1
<1>17. \A a \in 1..l : frames[a].node < c
  BY <1>4, <1>15, <1>16
<1>18. ret # NULL
  <2>1. 1 \in 1..Len(frames) /\ ~(1 - 1 \in 1..Len(frames))
    BY <1>2
  <2>. QED  BY <2>1 DEF FreeInv, CallsDescend
<1>19. Unreferenced(heap, ret)
  BY <1>1, <1>18 DEF TreeInv, RetApart
<1>20. ASSUME NEW m \in 1..Len(freed) PROVE freed[m] # c
  <2>1. SUFFICES ASSUME freed[m] = c PROVE FALSE
    OBVIOUS
  <2>2. c # ret
    BY <1>3, <1>4, <1>15, <1>19 DEF Unreferenced
  <2>3. PICK p \in 1..Len(heap), k \in Nat :
          Refers(heap, p, k, c) /\ Passed(freed, frames, p, k)
    BY <2>1, <2>2 DEF FreeInv, FreedBehind
  <2>4. p = f.node /\ k = f.next
    BY <1>3, <1>4, <1>15, <2>3 DEF TreeInv, Forest
  <2>5. ASSUME NEW n \in 1..Len(freed), freed[n] = p PROVE FALSE
    <3>1. l \in 1..Len(frames)
      BY <1>2
    <3>. QED  BY <1>3, <2>4, <2>5, <3>1 DEF FreeInv, FreedApart
  <2>6. ASSUME NEW a \in 1..Len(frames), frames[a].node = p, k < frames[a].next
        PROVE  FALSE
    <3>1. a = l \/ a < l
      BY <1>2
    <3>2. CASE a = l
      <4>1. f.next < f.next
        BY <1>3, <2>4, <2>6, <3>2, Zenon
      <4>. QED  BY <1>4, <4>1
    <3>3. CASE a < l
      <4>1. l \in 1..Len(frames)
        BY <1>2
      <4>2. frames[a].node < f.node
        BY <1>3, <3>3, <4>1 DEF FreeInv, CallsDescend
      <4>. QED  BY <1>4, <2>4, <2>6, <4>2
    <3>. QED  BY <3>1, <3>2, <3>3
  <2>. QED  BY <2>3, <2>5, <2>6 DEF Passed
<1>21. FreeTypes'
  BY <1>11, <1>13 DEF FreeInv, FreeTypes
<1>22. CallsDescend'
  <2>1. ASSUME NEW a \in 1..(l + 1) PROVE t[a].node \in 1..Len(heap)
    <3>1. CASE a = l + 1
      BY <1>10, <1>13, <1>16, <3>1
    <3>2. CASE a \in 1..l
      BY <1>14, <1>15, <3>2
    <3>. QED  BY <1>2, <3>1, <3>2
  <2>2. ASSUME NEW a \in 1..(l + 1), NEW b \in 1..(l + 1), a < b
        PROVE  t[a].node < t[b].node
    <3>1. CASE b = l + 1
      <4>1. a \in 1..l
        BY <1>2, <2>2, <3>1
      <4>. QED  BY <1>10, <1>13, <1>14, <1>17, <3>1, <4>1
    <3>2. CASE b # l + 1
      <4>1. a \in 1..l /\ b \in 1..l
        BY <1>2, <2>2, <3>2
      <4>. QED  BY <1>2, <1>14, <2>2, <4>1 DEF FreeInv, CallsDescend
    <3>. QED  BY <3>1, <3>2
  <2>3. ASSUME NEW a \in 1..(l + 1)
        PROVE  \/ a = 1 /\ t[a].node = ret /\ ret # NULL
               \/ /\ a - 1 \in 1..(l + 1)
                  /\ \E k \in Nat : /\ k < t[a - 1].next
                                    /\ Refers(heap, t[a - 1].node, k, t[a].node)
    <3>1. CASE a = l + 1
      <4>1. a - 1 = l /\ l \in 1..l /\ l \in 1..(l + 1)
        BY <1>2, <3>1
      <4>2. /\ t[l].node = f.node /\ t[a].node = c /\ f.next < t[l].next
            /\ Refers(heap, f.node, f.next, c)
        BY <1>3, <1>10, <1>13, <1>14, <3>1, <4>1
      <4>. QED  BY <1>4, <4>1, <4>2
    <3>2. CASE a \in 1..l
      <4>1. \/ a = 1 /\ frames[a].node = ret /\ ret # NULL
            \/ /\ a - 1 \in 1..l
               /\ \E k \in Nat :
                     /\ k < frames[a - 1].next
                     /\ Refers(heap, frames[a - 1].node, k, frames[a].node)
        BY <1>2, <3>2 DEF FreeInv, CallsDescend
      <4>2. a - 1 \in 1..l => a - 1 \in 1..(l + 1)
        BY <1>2
      <4>. QED  BY <1>14, <3>2, <4>1, <4>2
    <3>. QED  BY <1>2, <3>1, <3>2
  <2>. QED  BY <1>11, <1>13, <2>1, <2>2, <2>3 DEF CallsDescend
<1>23. FreedBehind'
  <2>1. ASSUME NEW p, NEW k \in Nat, Passed(freed, frames, p, k)
        PROVE  Passed(freed, t, p, k)
    <3>1. \A a \in 1..l : a \in 1..(l + 1)
      BY <1>2
    <3>. QED  BY <1>2, <1>13, <1>14, <2>1, <3>1 DEF Passed
  <2>2. ASSUME NEW m \in 1..Len(freed)
        PROVE  \/ freed[m] = ret
               \/ \E p \in 1..Len(heap), k \in Nat :
                    Refers(heap, p, k, freed[m]) /\ Passed(freed, t, p, k)
    BY <2>1 DEF FreeInv, FreedBehind
  <2>. QED  BY <1>11, <2>2 DEF FreedBehind
<1>24. FreedApart'
  <2>1. ASSUME NEW a \in 1..(l + 1), NEW m \in 1..Len(freed)
        PROVE  t[a].node # freed[m]
    <3>1. CASE a = l + 1
      BY <1>10, <1>13, <1>20, <3>1
    <3>2. CASE a \in 1..l
      BY <1>2, <1>14, <3>2 DEF FreeInv, FreedApart
    <3>. QED  BY <1>2, <3>1, <3>2
  <2>. QED  BY <1>11, <1>13, <2>1 DEF FreeInv, FreedApart
<1>. QED  BY <1>21, <1>22, <1>23, <1>24 DEF FreeInv

(* free(node), and back to the caller.                                     *)
LEMMA ReleaseKeepsInvariant ==
    ASSUME IInv, TreeInv, FreeInv, phase = "free", frames # <<>>, Release,
           UNCHANGED <<heap, mode, ret, phase>>
    PROVE  FreeInv'
<1>1. frames \in Seq(CallType) /\ freed \in Seq(Nat)
  BY DEF FreeInv, FreeTypes
<1>2. PICK l \in Nat : l = Len(frames) /\ l >= 1
  BY <1>1, EmptySeq
<1>3. PICK x : x = frames[l].node /\ x = Current.node
  BY <1>2 DEF Current
<1>4. x \in Nat
  <2>1. l \in 1..Len(frames)
    BY <1>2
  <2>2. frames[l] \in CallType
    BY <1>1, <2>1, ElementOfSeq
  <2>. QED  BY <1>3, <2>2 DEF CallType
<1>5. PICK j \in Nat : j = l - 1
  BY <1>2
<1>6. PICK t : t = frames'
  OBVIOUS
<1>7. /\ t \in Seq(CallType) /\ Len(t) = j
      /\ \A a \in 1..j : t[a] = frames[a] /\ a \in 1..Len(frames) /\ a < l
  <2>1. t = SubSeq(frames, 1, j)
    BY <1>2, <1>5, <1>6 DEF Release
  <2>2. \A a \in 1..j : a \in 1..Len(frames) /\ a < l
    BY <1>2, <1>5
  <2>3. \A a \in 1..j : frames[a] \in CallType
    BY <1>1, <2>2, ElementOfSeq
  <2>4. /\ t \in Seq(CallType)
        /\ Len(t) = (IF 1 <= j THEN j - 1 + 1 ELSE 0)
        /\ \A a \in 1..(j - 1 + 1) : t[a] = frames[1 + a - 1]
    BY <2>1, <2>3, SubSeqProperties
  <2>. QED  BY <2>2, <2>4
<1>8. PICK n \in Nat : n = Len(freed)
  BY <1>1
<1>9. PICK e : e = freed'
  OBVIOUS
<1>10. /\ e \in Seq(Nat) /\ Len(e) = n + 1 /\ e[n + 1] = x
       /\ \A m \in 1..n : e[m] = freed[m]
  <2>1. e = Append(freed, x)
    BY <1>3, <1>9 DEF Release
  <2>. QED  BY <1>1, <1>4, <1>8, <2>1, AppendProperties
<1>11. l \in 1..Len(frames) /\ \A a \in 1..j : t[a].node < x
  <2>1. l \in 1..Len(frames)
    BY <1>2
  <2>. QED  BY <1>3, <1>7, <2>1 DEF FreeInv, CallsDescend
<1>12. \A a \in 1..j : t[a].node \in Nat
  <2>1. \A a \in 1..j : t[a] \in CallType
    BY <1>1, <1>7, ElementOfSeq
  <2>. QED  BY <2>1 DEF CallType
<1>13. FreeTypes'
  BY <1>6, <1>7, <1>9, <1>10 DEF FreeInv, FreeTypes
<1>14. CallsDescend'
  <2>1. \A a \in 1..j : t[a].node \in 1..Len(heap)
    BY <1>7 DEF FreeInv, CallsDescend
  <2>2. \A a, b \in 1..j : a < b => t[a].node < t[b].node
    BY <1>7 DEF FreeInv, CallsDescend
  <2>3. ASSUME NEW a \in 1..j
        PROVE  \/ a = 1 /\ t[a].node = ret /\ ret # NULL
               \/ /\ a - 1 \in 1..j
                  /\ \E k \in Nat : /\ k < t[a - 1].next
                                    /\ Refers(heap, t[a - 1].node, k, t[a].node)
    <3>1. \/ a = 1 /\ frames[a].node = ret /\ ret # NULL
          \/ /\ a - 1 \in 1..Len(frames)
             /\ \E k \in Nat : /\ k < frames[a - 1].next
                               /\ Refers(heap, frames[a - 1].node, k, frames[a].node)
      BY <1>7 DEF FreeInv, CallsDescend
    <3>2. a - 1 \in 1..Len(frames) => a - 1 \in 1..j
      BY <1>2, <1>5
    <3>. QED  BY <1>7, <3>1, <3>2
  <2>. QED  BY <1>6, <1>7, <2>1, <2>2, <2>3 DEF CallsDescend
<1>15. FreedBehind'
  <2>1. ASSUME NEW p, NEW k \in Nat, Passed(freed, frames, p, k)
        PROVE  Passed(e, t, p, k)
    <3>1. CASE \E m \in 1..n : freed[m] = p
      <4>1. \A m \in 1..n : m \in 1..(n + 1)
        OBVIOUS
      <4>. QED  BY <1>10, <3>1, <4>1 DEF Passed
    <3>2. ASSUME NEW a \in 1..l, frames[a].node = p, k < frames[a].next
          PROVE  Passed(e, t, p, k)
      <4>1. CASE a = l
        <5>1. e[n + 1] = p
          BY <1>3, <1>10, <3>2, <4>1, Zenon
        <5>2. n + 1 \in 1..Len(e)
          BY <1>10
        <5>. QED  BY <5>1, <5>2 DEF Passed
      <4>2. CASE a # l
        <5>1. a \in 1..j
          BY <1>5, <4>2
        <5>. QED  BY <1>7, <3>2, <5>1 DEF Passed
      <4>. QED  BY <4>1, <4>2
    <3>. QED  BY <1>2, <1>8, <2>1, <3>1, <3>2 DEF Passed
  <2>2. ASSUME NEW m \in 1..n
        PROVE  \/ e[m] = ret
               \/ \E p \in 1..Len(heap), k \in Nat :
                    Refers(heap, p, k, e[m]) /\ Passed(e, t, p, k)
    BY <1>8, <1>10, <2>1 DEF FreeInv, FreedBehind
  <2>3. \/ x = ret
        \/ \E p \in 1..Len(heap), k \in Nat :
             Refers(heap, p, k, x) /\ Passed(e, t, p, k)
    <3>1. CASE l = 1
      <4>1. ~(l - 1 \in 1..Len(frames))
        BY <1>2, <3>1
      <4>. QED  BY <1>3, <1>11, <4>1 DEF FreeInv, CallsDescend
    <3>2. CASE l # 1
      <4>1. PICK k \in Nat :
              k < frames[j].next /\ Refers(heap, frames[j].node, k, x)
        BY <1>3, <1>5, <1>11, <3>2 DEF FreeInv, CallsDescend
      <4>2. j \in 1..j /\ j \in 1..Len(frames)
        BY <1>2, <1>5, <3>2
      <4>3. frames[j].node \in 1..Len(heap)
        BY <4>2 DEF FreeInv, CallsDescend
      <4>4. Passed(freed, frames, frames[j].node, k)
        BY <4>1, <4>2 DEF Passed
      <4>. QED  BY <2>1, <4>1, <4>3, <4>4
    <3>. QED  BY <3>1, <3>2
  <2>4. ASSUME NEW m \in 1..Len(e)
        PROVE  \/ e[m] = ret
               \/ \E p \in 1..Len(heap), k \in Nat :
                    Refers(heap, p, k, e[m]) /\ Passed(e, t, p, k)
    <3>1. m = n + 1 \/ m \in 1..n
      BY <1>10
    <3>. QED  BY <1>10, <2>2, <2>3, <3>1
  <2>. QED  BY <1>6, <1>9, <2>4 DEF FreedBehind
<1>16. FreedApart'
  <2>1. \A m \in 1..n : freed[m] # x
    BY <1>3, <1>8, <1>11 DEF FreeInv, FreedApart
  <2>2. ASSUME NEW m \in 1..(n + 1), NEW k \in 1..(n + 1), m # k PROVE e[m] # e[k]
    <3>1. CASE m = n + 1
      <4>1. k \in 1..n
        BY <2>2, <3>1
      <4>. QED  BY <1>10, <2>1, <3>1, <4>1
    <3>2. CASE k = n + 1
      <4>1. m \in 1..n
        BY <2>2, <3>2
      <4>. QED  BY <1>10, <2>1, <3>2, <4>1
    <3>3. CASE m # n + 1 /\ k # n + 1
      <4>1. m \in 1..n /\ k \in 1..n
        BY <3>3
      <4>. QED  BY <1>8, <1>10, <2>2, <4>1 DEF FreeInv, FreedApart
    <3>. QED  BY <3>1, <3>2, <3>3
  <2>3. ASSUME NEW a \in 1..j, NEW m \in 1..(n + 1) PROVE t[a].node # e[m]
    <3>1. CASE m = n + 1
      <4>1. t[a].node # x
        BY <1>4, <1>11, <1>12
      <4>. QED  BY <1>10, <3>1, <4>1
    <3>2. CASE m # n + 1
      <4>1. m \in 1..n
        BY <3>2
      <4>. QED  BY <1>7, <1>8, <1>10, <4>1 DEF FreeInv, FreedApart
    <3>. QED  BY <3>1, <3>2
  <2>. QED  BY <1>6, <1>7, <1>9, <1>10, <2>2, <2>3 DEF FreedApart
<1>. QED  BY <1>13, <1>14, <1>15, <1>16 DEF FreeInv

(* A step that leaves be_free's state alone.                               *)
LEMMA AsideKeepsFree ==
    ASSUME FreeInv, UNCHANGED freeVars,
           \/ phase' = phase /\ UNCHANGED vars
           \/ phase = "decode" /\ phase' = "decode"
           \/ mode = "done" /\ phase # "free" /\ phase' \in {"dump", "dumped"}
                /\ frames = <<>> /\ freed = <<>> /\ UNCHANGED vars
           \/ phase = "free" /\ phase' = "released" /\ UNCHANGED vars
    PROVE  FreeInv'
<1>1. UNCHANGED <<frames, freed>>
  BY DEF freeVars
<1>2. CASE phase = "decode" /\ phase' = "decode"
  <2>1. frames = <<>> /\ freed = <<>> /\ Len(frames) = 0 /\ Len(freed) = 0
    BY <1>2, EmptySeq DEF FreeInv, FreeTypes
  <2>. QED  BY <1>1, <1>2, <2>1
            DEF FreeInv, FreeTypes, CallsDescend, FreedBehind, FreedApart
<1>3. CASE UNCHANGED vars
  <2>1. UNCHANGED <<heap, mode, ret>>
    BY <1>3 DEF vars
  <2>2. FreeTypes'
    BY <1>1, <1>2, <2>1 DEF FreeInv, FreeTypes
  <2>3. CallsDescend' /\ FreedBehind' /\ FreedApart'
    BY <1>1, <2>1 DEF FreeInv, CallsDescend, FreedBehind, FreedApart
  <2>. QED  BY <2>2, <2>3 DEF FreeInv
<1>. QED  BY <1>2, <1>3

(* The caller passes the tree to be_free.                                  *)
LEMMA CallFreeKeepsInvariant == IInv /\ FreeInv /\ CallFree => FreeInv'
<1> SUFFICES ASSUME IInv, FreeInv, CallFree PROVE FreeInv'
  OBVIOUS
<1>1. /\ frames = <<>> /\ freed = <<>> /\ freed' = freed /\ mode = "done"
      /\ UNCHANGED <<heap, mode, ret>>
  BY DEF FreeInv, FreeTypes, CallFree, vars
<1>2. Len(freed) = 0 /\ Len(frames) = 0 /\ freed \in Seq(Nat)
      /\ frames \in Seq(CallType)
  BY <1>1, EmptySeq
<1>3. CASE ret = NULL
  <2>1. frames' = frames /\ phase' = "released"
    BY <1>3 DEF CallFree
  <2>2. FreeTypes'
    BY <1>1, <1>2, <2>1 DEF FreeTypes
  <2>. QED  BY <1>1, <1>2, <2>1, <2>2
            DEF FreeInv, CallsDescend, FreedBehind, FreedApart
<1>4. CASE ret # NULL
  <2>1. frames' = <<Call(ret)>> /\ phase' = "free"
    BY <1>4 DEF CallFree
  <2>2. PICK x : x = Call(ret)
    OBVIOUS
  <2>3. ret \in Nat /\ ret \in 1..Len(heap)
    BY <1>4, Typed DEF NULL
  <2>4. x \in CallType /\ x.node = ret
    BY <2>2, <2>3 DEF Call, CallType
  <2>5. PICK t : t = frames'
    OBVIOUS
  <2>6. t \in Seq(CallType) /\ Len(t) = 1 /\ t[1] = x
    BY <2>1, <2>2, <2>4, <2>5
  <2>7. \A a \in 1..Len(t) : a = 1
    BY <2>6
  <2>8. FreeTypes'
    BY <1>1, <1>2, <2>1, <2>5, <2>6 DEF FreeTypes
  <2>9. CallsDescend'
    <3>1. \A a \in 1..Len(t) : a = 1 /\ t[a].node = ret /\ t[a].node \in 1..Len(heap)
      BY <2>3, <2>4, <2>6, <2>7
    <3>2. \A a, b \in 1..Len(t) : ~(a < b)
      BY <2>6
    <3>. QED  BY <1>1, <1>4, <2>5, <3>1, <3>2 DEF CallsDescend
  <2>10. FreedBehind' /\ FreedApart'
    BY <1>1, <1>2 DEF FreedBehind, FreedApart
  <2>. QED  BY <2>8, <2>9, <2>10 DEF FreeInv
<1>. QED  BY <1>3, <1>4

(* One case per step of decoding, dumping and releasing.                   *)
LEMMA FreeNextPreserves ==
    IInv /\ TreeInv /\ FreeInv /\ [FreeNext]_allVars => FreeInv'
<1> SUFFICES ASSUME IInv, TreeInv, FreeInv, [FreeNext]_allVars PROVE FreeInv'
  OBVIOUS
<1>1. CASE Decoding
  <2>1. mode # "done"
    BY <1>1 DEF Decoding, Next, NoDataLeft, OpenList, OpenDict, Open, DecodeInt,
                DecodeString, Invalid, ListLoop, ListItem, DictLoop, DictItem,
                Finish, Calling
  <2>2. phase = "decode"
    BY <2>1 DEF FreeInv, FreeTypes
  <2>3. UNCHANGED freeVars /\ phase' = phase
    BY <1>1 DEF Decoding, dumpVars
  <2>. QED  BY <2>2, <2>3, AsideKeepsFree
<1>2. CASE DumpNext /\ UNCHANGED freeVars
  <2>1. UNCHANGED vars
    BY <1>2 DEF DumpNext, CallDump, DumpLeaf, DumpItem, DumpEntry, DumpEnd, Dumped
  <2>2. \/ phase' = phase
        \/ phase = "decode" /\ phase' = "dump" /\ mode = "done"
        \/ phase = "dump" /\ phase' = "dumped"
    BY <1>2 DEF DumpNext, CallDump, DumpLeaf, DumpItem, DumpEntry, DumpEnd, Dumped
  <2>3. phase' # phase => /\ mode = "done" /\ phase # "free"
                          /\ frames = <<>> /\ freed = <<>>
    BY <2>2 DEF FreeInv, FreeTypes
  <2>. QED  BY <1>2, <2>1, <2>2, <2>3, AsideKeepsFree
<1>3. CASE CallFree
  BY <1>3, CallFreeKeepsInvariant
<1>4. CASE FreeLeaf \/ FreeContainer
  <2>1. /\ phase = "free" /\ frames # <<>> /\ Release
        /\ UNCHANGED <<heap, mode, ret, phase>>
    BY <1>4 DEF FreeLeaf, FreeContainer, CurrentIs, vars, dumpVars
  <2>. QED  BY <2>1, ReleaseKeepsInvariant
<1>5. CASE FreeItem \/ FreeEntry
  <2>1. phase = "free" /\ frames # <<>> /\ UNCHANGED <<heap, mode, ret, freed, phase>>
    BY <1>5 DEF FreeItem, FreeEntry, CurrentIs, vars, dumpVars
  <2>2. /\ Len(frames) \in 1..Len(frames)
        /\ Current \in CallType
        /\ heap[Current.node] \in Node
    <3>1. frames \in Seq(CallType) /\ heap \in Seq(Node)
      BY Typed DEF FreeInv, FreeTypes
    <3>2. Len(frames) \in 1..Len(frames)
      BY <2>1, <3>1, EmptySeq
    <3>3. Current \in CallType
      BY <3>1, <3>2, ElementOfSeq DEF Current
    <3>4. Current.node \in 1..Len(heap)
      BY <3>2 DEF FreeInv, CallsDescend, Current
    <3>. QED  BY <3>1, <3>2, <3>3, <3>4, ElementOfSeq
  <2>3. PICK k \in Nat : k = Current.next /\ k >= 1
    BY <2>2 DEF CallType
  <2>4. ASSUME NEW c \in Nat, Descend(c), Refers(heap, Current.node, k, c)
        PROVE  FreeInv'
    BY <2>1, <2>3, <2>4, DescendKeepsInvariant
  <2>5. PICK l \in Seq(Nat), d \in Seq(Entry) :
          l = heap[Current.node].l /\ d = heap[Current.node].d
    BY <2>2 DEF Node
  <2>6. CASE FreeItem
    <3>1. k <= Len(l) /\ Descend(l[k])
      BY <2>3, <2>5, <2>6 DEF FreeItem, ItemToFree
    <3>2. k \in 1..Len(l) /\ DOMAIN l = 1..Len(l)
      BY <2>3, <3>1
    <3>3. l[k] \in Nat
      BY <3>2, ElementOfSeq
    <3>4. Refers(heap, Current.node, k, l[k])
      BY <2>5, <3>2 DEF Refers
    <3>. QED  BY <2>4, <3>1, <3>3, <3>4
  <2>7. CASE FreeEntry
    <3>1. k <= Len(d) /\ d[k].val # NULL /\ Descend(d[k].val)
      BY <2>3, <2>5, <2>7 DEF FreeEntry, EntryToFree
    <3>2. k \in 1..Len(d) /\ DOMAIN d = 1..Len(d)
      BY <2>3, <3>1
    <3>3. d[k] \in Entry
      BY <3>2, ElementOfSeq
    <3>4. d[k].val \in Nat
      BY <3>3 DEF Entry
    <3>5. Refers(heap, Current.node, k, d[k].val)
      BY <2>5, <3>1, <3>2 DEF Refers
    <3>. QED  BY <2>4, <3>1, <3>4, <3>5
  <2>. QED  BY <1>5, <2>6, <2>7
<1>6. CASE Released
  BY <1>6, AsideKeepsFree DEF Released
<1>7. CASE UNCHANGED allVars
  BY <1>7, AsideKeepsFree DEF allVars, dumpVars
<1>. QED  BY <1>1, <1>2, <1>3, <1>4, <1>5, <1>6, <1>7 DEF FreeNext

(* Whatever the text, be_free passes no node to free() twice and looks at  *)
(* none after that: the decoder leaves a tree, also when it stores a value *)
(* and overwrites it, or breaks off, because pointers lead only to newer   *)
(* nodes that nothing points to yet.                                       *)
THEOREM TreeIsFreedOnce == FreeSpec => []NeverTouchesFreed
<1>1. FreeInit => IInv /\ TreeInv /\ FreeInv
  <2> SUFFICES ASSUME FreeInit PROVE IInv /\ TreeInv /\ FreeInv
    OBVIOUS
  <2>1. /\ Init /\ heap = <<>> /\ stack = <<>> /\ ret = NULL /\ phase = "decode"
        /\ frames = <<>> /\ freed = <<>>
    BY DEF FreeInit, DumpInit, Init
  <2>2. Len(<<>>) = 0 /\ frames \in Seq(CallType) /\ freed \in Seq(Nat)
    BY <2>1, EmptySeq
  <2>3. TreeInv
    BY <2>1, <2>2 DEF TreeInv, Forest, StackApart, RetApart
  <2>4. FreeInv
    BY <2>1, <2>2 DEF FreeInv, FreeTypes, CallsDescend, FreedBehind, FreedApart
  <2>. QED  BY <2>1, <2>3, <2>4, InitEstablishes
<1>2. IInv /\ TreeInv /\ FreeInv /\ [FreeNext]_allVars
        => IInv' /\ TreeInv' /\ FreeInv'
  <2> SUFFICES ASSUME IInv, TreeInv, FreeInv, [FreeNext]_allVars
               PROVE  IInv' /\ TreeInv' /\ FreeInv'
    OBVIOUS
  <2>1. [Next]_vars
    BY DEF FreeNext, Decoding, DumpNext, CallDump, DumpLeaf, DumpItem, DumpEntry,
           DumpEnd, Dumped, CallFree, FreeLeaf, FreeItem, FreeEntry,
           FreeContainer, Released, allVars
  <2>. QED  BY <2>1, NextPreserves, TreeNext, FreeNextPreserves
<1>3. FreeInv => NeverTouchesFreed
  <2> SUFFICES ASSUME FreeInv PROVE NeverTouchesFreed
    OBVIOUS
  <2>1. DOMAIN freed = 1..Len(freed) /\ DOMAIN frames = 1..Len(frames)
    BY DEF FreeInv, FreeTypes
  <2>. QED  BY <2>1 DEF FreeInv, FreedApart, NeverTouchesFreed
<1>. QED  BY <1>1, <1>2, <1>3, PTL DEF FreeSpec

-----------------------------------------------------------------------------
(* Nothing that the decoder allocates is lost, but through an entry        *)
(* without a value.                                                        *)

(* Something points to node c.                                             *)
Referenced(h, c) == ~Unreferenced(h, c)

(* Only a list has items, only a dictionary entries.                       *)
ShapeInv ==
    \A p \in 1..Len(heap) : /\ heap[p].type # "list" => heap[p].l = <<>>
                            /\ heap[p].type # "dict" => heap[p].d = <<>>

(* A suspended loop over a dictionary has an entry that waits for its      *)
(* value.                                                                  *)
Waits(d) == d # <<>> /\ d[Len(d)].val = NULL
AwaitsValue ==
    \A a \in 1..Len(stack) :
        /\ heap[stack[a]].type = "dict"
        /\ a < Len(stack) \/ mode # "loop"
        => Waits(heap[stack[a]].d)

(* An entry has no value, and no call is still to bring it.                *)
ValueLost ==
    \E p \in 1..Len(heap) : \E k \in DOMAIN heap[p].d :
        /\ heap[p].d[k].val = NULL
        /\ \/ k < Len(heap[p].d)
           \/ \A a \in 1..Len(stack) :
                 stack[a] = p => a = Len(stack) /\ mode = "loop"

(* Every node is being filled, or has just been returned, or something     *)
(* points to it.                                                           *)
Owned ==
    \A c \in 1..Len(heap) :
        \/ \E a \in 1..Len(stack) : stack[a] = c
        \/ mode \in {"return", "done"} /\ ret = c
        \/ Referenced(heap, c)

OwnInv ==
    /\ ShapeInv
    /\ mode # "crash" => AwaitsValue /\ (ValueLost \/ Owned)

(* A step that leaves nodes and open loops alone, at most a list's loop    *)
(* calls the decoder, which may return nothing.                            *)
LEMMA QuietKeepsOwn ==
    ASSUME IInv, OwnInv, UNCHANGED <<heap, stack>>,
           \/ mode = "call" /\ mode' = "return"
           \/ mode = "loop" /\ mode' = "call" /\ heap[Top].type = "list"
           \/ mode = "return" /\ mode' = "done" /\ stack = <<>> /\ ret' = ret
           \/ mode' = mode /\ ret' = ret
           \/ mode' = "crash"
    PROVE  OwnInv'
<1>1. /\ Len(stack) \in Nat /\ Top = stack[Len(stack)]
      /\ \A a \in 1..Len(stack) : stack[a] \in 1..Len(heap)
  BY Typed DEF Top
<1>2. ShapeInv' /\ (mode' = "crash" => OwnInv')
  BY DEF OwnInv, ShapeInv
<1>3. CASE mode = "loop" /\ mode' = "call" /\ heap[Top].type = "list"
  <2>1. /\ AwaitsValue /\ (ValueLost \/ Owned)
    BY <1>3 DEF OwnInv
  <2>2. AwaitsValue'
    <3>1. ASSUME NEW a \in 1..Len(stack), heap[stack[a]].type = "dict"
          PROVE  Waits(heap[stack[a]].d)
      <4>1. a = Len(stack) \/ a < Len(stack)
        BY <1>1
      <4>2. a # Len(stack)
        BY <1>1, <1>3, <3>1
      <4>. QED  BY <2>1, <3>1, <4>1, <4>2 DEF AwaitsValue
    <3>. QED  BY <3>1 DEF AwaitsValue
  <2>3. CASE ValueLost
    <3>20. PICK p \in 1..Len(heap) : \E k \in DOMAIN heap[p].d :
             /\ heap[p].d[k].val = NULL
             /\ \/ k < Len(heap[p].d)
                \/ \A a \in 1..Len(stack) :
                      stack[a] = p => a = Len(stack) /\ mode = "loop"
      BY <2>3 DEF ValueLost
    <3>1. PICK k \in DOMAIN heap[p].d :
             /\ heap[p].d[k].val = NULL
             /\ \/ k < Len(heap[p].d)
                \/ \A a \in 1..Len(stack) :
                      stack[a] = p => a = Len(stack) /\ mode = "loop"
      BY <3>20
    <3>2. p # Top
      <4>1. DOMAIN <<>> = {}
        OBVIOUS
      <4>. QED  BY <1>3, <3>1, <4>1 DEF OwnInv, ShapeInv
    <3>3. k < Len(heap[p].d) \/ \A a \in 1..Len(stack) : stack[a] # p
      BY <1>1, <3>1, <3>2
    <3>. QED  BY <1>2, <2>2, <3>1, <3>3 DEF OwnInv, ValueLost
  <2>4. CASE Owned
    BY <1>2, <1>3, <2>2, <2>4 DEF OwnInv, Owned
  <2>. QED  BY <2>1, <2>3, <2>4
<1>4. CASE mode = "call" /\ mode' = "return"
  BY <1>2, <1>4 DEF OwnInv, AwaitsValue, ValueLost, Owned
<1>5. CASE mode = "return" /\ mode' = "done" /\ stack = <<>> /\ ret' = ret
  BY <1>2, <1>5 DEF OwnInv, AwaitsValue, ValueLost, Owned
<1>6. CASE mode' = mode /\ ret' = ret
  BY <1>2, <1>6 DEF OwnInv, AwaitsValue, ValueLost, Owned
<1>. QED  BY <1>2, <1>3, <1>4, <1>5, <1>6

(* A new node is being filled or has just been returned.                   *)
LEMMA AllocKeepsOwn ==
    ASSUME IInv, OwnInv, NEW n \in Node, n.l = <<>>, n.d = <<>>, mode = "call",
           heap' = Append(heap, n),
           \/ stack' = Append(stack, Len(heap) + 1) /\ mode' = "loop"
           \/ stack' = stack /\ mode' = "return" /\ ret' = Len(heap) + 1
    PROVE  OwnInv'
<1>1. /\ heap \in Seq(Node) /\ stack \in Seq(1..Len(heap))
      /\ \A a \in 1..Len(stack) : stack[a] \in Nat /\ stack[a] \in 1..Len(heap)
  BY Typed
<1>2. PICK l \in Nat, s \in Nat : l = Len(heap) /\ s = Len(stack)
  BY Typed
<1>3. PICK g : g = heap'
  OBVIOUS
<1>4. /\ Len(g) = l + 1 /\ g[l + 1] = n
      /\ \A p \in 1..l : g[p] = heap[p] /\ p \in 1..(l + 1) /\ p # l + 1
  BY <1>1, <1>2, <1>3, AppendProperties
<1>5. PICK t : t = stack'
  OBVIOUS
<1>6. /\ \A a \in 1..s : t[a] = stack[a]
      /\ \/ Len(t) = s + 1 /\ t[s + 1] = l + 1 /\ mode' = "loop"
         \/ Len(t) = s /\ mode' = "return" /\ ret' = l + 1
  BY <1>1, <1>2, <1>5, AppendProperties
<1>7. AwaitsValue /\ (ValueLost \/ Owned) /\ ShapeInv
  BY DEF OwnInv
<1>8. ShapeInv'
  <2>1. ASSUME NEW p \in 1..(l + 1)
        PROVE  /\ g[p].type # "list" => g[p].l = <<>>
               /\ g[p].type # "dict" => g[p].d = <<>>
    <3>1. p = l + 1 \/ p \in 1..l
      OBVIOUS
    <3>. QED  BY <1>2, <1>4, <1>7, <3>1 DEF ShapeInv
  <2>. QED  BY <1>3, <1>4, <2>1 DEF ShapeInv
<1>9. AwaitsValue'
  <2>1. ASSUME NEW a \in 1..Len(t), g[t[a]].type = "dict",
               a < Len(t) \/ mode' # "loop"
        PROVE  Waits(g[t[a]].d)
    <3>1. a \in 1..s
      BY <1>6, <2>1
    <3>2. t[a] = stack[a] /\ g[stack[a]] = heap[stack[a]]
      BY <1>1, <1>2, <1>4, <1>6, <3>1
    <3>. QED  BY <1>2, <1>7, <2>1, <3>1, <3>2 DEF AwaitsValue
  <2>. QED  BY <1>3, <1>5, <2>1 DEF AwaitsValue
<1>10. CASE ValueLost
  <2>20. PICK p \in 1..l : \E k \in DOMAIN heap[p].d :
           /\ heap[p].d[k].val = NULL
           /\ k < Len(heap[p].d) \/ \A a \in 1..s : stack[a] # p
    BY <1>2, <1>10 DEF ValueLost
  <2>1. PICK k \in DOMAIN heap[p].d :
           /\ heap[p].d[k].val = NULL
           /\ k < Len(heap[p].d) \/ \A a \in 1..s : stack[a] # p
    BY <2>20
  <2>2. k < Len(heap[p].d) \/ \A a \in 1..Len(t) : t[a] # p
    <3>1. ASSUME NEW a \in 1..Len(t), \A b \in 1..s : stack[b] # p
          PROVE  t[a] # p
      <4>1. a \in 1..s \/ (a = s + 1 /\ t[a] = l + 1)
        BY <1>6
      <4>. QED  BY <1>4, <1>6, <3>1, <4>1
    <3>. QED  BY <2>1, <3>1
  <2>3. p \in 1..Len(g) /\ g[p] = heap[p]
    BY <1>4
  <2>4. ValueLost'
    BY <1>3, <1>5, <2>1, <2>2, <2>3 DEF ValueLost
  <2>. QED  BY <1>8, <1>9, <2>4 DEF OwnInv
<1>11. CASE Owned
  <2>1. ASSUME NEW c \in 1..Len(g)
        PROVE  \/ \E a \in 1..Len(t) : t[a] = c
               \/ mode' \in {"return", "done"} /\ ret' = c
               \/ Referenced(g, c)
    <3>1. CASE c = l + 1
      <4>1. s + 1 \in 1..(s + 1)
        OBVIOUS
      <4>. QED  BY <1>6, <3>1, <4>1
    <3>2. CASE c \in 1..l /\ \E a \in 1..s : stack[a] = c
      <4>1. \A a \in 1..s : a \in 1..Len(t)
        BY <1>6
      <4>. QED  BY <1>6, <3>2, <4>1
    <3>3. CASE c \in 1..l /\ Referenced(heap, c)
      <4>1. PICK p \in 1..l, k \in Nat : Refers(heap, p, k, c)
        BY <1>2, <3>3 DEF Referenced, Unreferenced
      <4>2. Refers(g, p, k, c) /\ p \in 1..Len(g)
        BY <1>4, <4>1 DEF Refers
      <4>. QED  BY <4>2 DEF Referenced, Unreferenced
    <3>4. c = l + 1 \/ c \in 1..l
      BY <1>4
    <3>. QED  BY <1>2, <1>11, <3>1, <3>2, <3>3, <3>4 DEF Owned
  <2>2. Owned'
    BY <1>3, <1>5, <2>1 DEF Owned
  <2>. QED  BY <1>8, <1>9, <2>2 DEF OwnInv
<1>. QED  BY <1>7, <1>10, <1>11

(* A list or dictionary is complete: its node is returned, and what is     *)
(* lost stays lost.                                                        *)
LEMMA LeaveKeepsOwn ==
    ASSUME IInv, OwnInv, stack # <<>>, Leave, heap' = heap,
           mode = "loop" \/ (mode = "return" /\ ret = NULL)
    PROVE  OwnInv'
<1>1. PICK s \in Nat : s = Len(stack)
  BY Typed
<1>2. PICK t : t = stack'
  OBVIOUS
<1>3. /\ s >= 1 /\ Len(t) = s - 1
      /\ \A a \in 1..(s - 1) : a \in 1..s /\ a < s /\ t[a] = stack[a]
      /\ ret' = stack[s] /\ mode' = "return"
  BY <1>1, <1>2, LeaveStack
<1>4. ShapeInv /\ AwaitsValue /\ (ValueLost \/ Owned)
  BY DEF OwnInv
<1>5. ShapeInv'
  BY <1>4 DEF ShapeInv
<1>6. AwaitsValue'
  <2>1. ASSUME NEW a \in 1..Len(t), heap[t[a]].type = "dict" PROVE Waits(heap[t[a]].d)
    <3>1. a \in 1..s /\ a < s /\ t[a] = stack[a]
      BY <1>3
    <3>. QED  BY <1>1, <1>4, <2>1, <3>1 DEF AwaitsValue
  <2>. QED  BY <1>2, <2>1 DEF AwaitsValue
<1>7. CASE ValueLost
  <2>1. PICK p \in 1..Len(heap) : \E k \in DOMAIN heap[p].d :
           /\ heap[p].d[k].val = NULL
           /\ k < Len(heap[p].d) \/ \A a \in 1..s : stack[a] = p => a = s
    BY <1>1, <1>7 DEF ValueLost
  <2>2. ASSUME \A a \in 1..s : stack[a] = p => a = s, NEW a \in 1..Len(t)
        PROVE  t[a] # p
    <3>1. a \in 1..s /\ a < s /\ t[a] = stack[a]
      BY <1>3
    <3>. QED  BY <2>2, <3>1
  <2>3. ValueLost'
    BY <1>2, <2>1, <2>2 DEF ValueLost
  <2>. QED  BY <1>5, <1>6, <2>3 DEF OwnInv
<1>8. CASE Owned
  <2>1. ASSUME NEW c \in 1..Len(heap)
        PROVE  \/ \E a \in 1..Len(t) : t[a] = c
               \/ ret' = c
               \/ Referenced(heap, c)
    <3>1. ASSUME NEW a \in 1..s, stack[a] = c
          PROVE  ret' = c \/ \E b \in 1..Len(t) : t[b] = c
      <4>1. a = s \/ a \in 1..(s - 1)
        BY <1>3
      <4>2. a \in 1..(s - 1) => a \in 1..Len(t) /\ t[a] = stack[a]
        BY <1>3
      <4>. QED  BY <1>3, <3>1, <4>1, <4>2
    <3>2. ~(mode = "return" /\ ret = c) /\ mode # "done"
      BY Typed DEF NULL
    <3>. QED  BY <1>1, <1>8, <3>1, <3>2 DEF Owned
  <2>2. Owned'
    BY <1>2, <1>3, <2>1 DEF Owned
  <2>. QED  BY <1>5, <1>6, <2>2 DEF OwnInv
<1>. QED  BY <1>4, <1>7, <1>8

(* An item is stored in a list: it is referenced from there on.            *)
LEMMA ItemKeepsOwn ==
    ASSUME IInv, OwnInv, stack # <<>>, heap[Top].type = "list",
           mode = "return", mode' = "loop", UNCHANGED <<stack, ret>>,
           ret # NULL, heap' = [heap EXCEPT ![Top].l = Append(@, ret)]
    PROVE  OwnInv'
<1>1. /\ heap \in Seq(Node) /\ Top \in 1..Len(heap) /\ Top = stack[Len(stack)]
      /\ Len(stack) \in Nat /\ ret \in Nat
      /\ \A a \in 1..Len(stack) : stack[a] \in 1..Len(heap)
  BY Typed DEF Top
<1>2. PICK l \in Seq(Nat) : l = heap[Top].l
  BY <1>1, UpdateKeepsHeap
<1>3. PICK m : m = Append(l, ret)
  OBVIOUS
<1>4. /\ m \in Seq(Nat) /\ DOMAIN l = 1..Len(l) /\ DOMAIN m = 1..(Len(l) + 1)
      /\ \A k \in 1..Len(l) : m[k] = l[k]
      /\ m[Len(l) + 1] = ret /\ Len(l) \in Nat
  BY <1>1, <1>3, AppendProperties
<1>5. PICK g : g = heap'
  OBVIOUS
<1>6. g = [heap EXCEPT ![Top].l = m]
  BY <1>1, <1>2, <1>3, <1>5
<1>7. Len(g) = Len(heap)
  BY <1>1, <1>4, <1>6, UpdateKeepsHeap
<1>8. /\ \A p \in 1..Len(heap) : /\ p # Top => g[p] = heap[p]
                                 /\ g[p].type = heap[p].type /\ g[p].d = heap[p].d
      /\ g[Top].l = m
  <2>1. heap[Top] \in Node /\ DOMAIN heap = 1..Len(heap)
    BY <1>1
  <2>2. g[Top] = [heap[Top] EXCEPT !.l = m]
    BY <1>1, <1>6, <2>1
  <2>3. g[Top].type = heap[Top].type /\ g[Top].d = heap[Top].d /\ g[Top].l = m
    BY <2>1, <2>2 DEF Node
  <2>4. \A p \in 1..Len(heap) : p # Top => g[p] = heap[p]
    BY <1>6, <2>1
  <2>. QED  BY <2>3, <2>4
<1>9. ShapeInv /\ AwaitsValue /\ (ValueLost \/ Owned)
  BY DEF OwnInv
<1>10. ShapeInv'
  <2>1. ASSUME NEW p \in 1..Len(g)
        PROVE  /\ g[p].type # "list" => g[p].l = <<>>
               /\ g[p].type # "dict" => g[p].d = <<>>
    BY <1>7, <1>8, <1>9 DEF ShapeInv
  <2>. QED  BY <1>5, <2>1 DEF ShapeInv
<1>11. AwaitsValue'
  <2>1. ASSUME NEW a \in 1..Len(stack), g[stack[a]].type = "dict",
               a < Len(stack) \/ mode' # "loop"
        PROVE  Waits(g[stack[a]].d)
    BY <1>1, <1>8, <1>9, <2>1 DEF AwaitsValue
  <2>. QED  BY <1>5, <2>1 DEF AwaitsValue
<1>12. CASE ValueLost
  <2>1. PICK p \in 1..Len(heap) : \E k \in DOMAIN heap[p].d :
           /\ heap[p].d[k].val = NULL
           /\ k < Len(heap[p].d) \/ \A a \in 1..Len(stack) : stack[a] # p
    BY <1>12 DEF ValueLost
  <2>2. g[p].d = heap[p].d /\ p \in 1..Len(g)
    BY <1>7, <1>8
  <2>3. ValueLost'
    BY <1>5, <2>1, <2>2 DEF ValueLost
  <2>. QED  BY <1>10, <1>11, <2>3 DEF OwnInv
<1>13. CASE Owned
  <2>1. ASSUME NEW c \in 1..Len(g)
        PROVE  (\E a \in 1..Len(stack) : stack[a] = c) \/ Referenced(g, c)
    <3>1. CASE ret = c
      <4>1. Len(l) + 1 \in DOMAIN m /\ Len(l) + 1 \in Nat
        BY <1>4
      <4>2. Refers(g, Top, Len(l) + 1, c)
        BY <1>4, <1>8, <3>1, <4>1 DEF Refers
      <4>. QED  BY <1>1, <1>7, <4>1, <4>2 DEF Referenced, Unreferenced
    <3>2. CASE Referenced(heap, c)
      <4>1. PICK p \in 1..Len(heap), k \in Nat : Refers(heap, p, k, c)
        BY <3>2 DEF Referenced, Unreferenced
      <4>2. Refers(g, p, k, c)
        <5>1. CASE k \in DOMAIN heap[p].l /\ heap[p].l[k] = c /\ p = Top
          <6>1. k \in 1..Len(l) /\ l[k] = c
            BY <1>2, <1>4, <5>1
          <6>2. k \in DOMAIN m /\ m[k] = c
            BY <1>4, <6>1
          <6>. QED  BY <1>8, <5>1, <6>2 DEF Refers
        <5>. QED  BY <1>8, <4>1, <5>1 DEF Refers
      <4>. QED  BY <1>7, <4>1, <4>2 DEF Referenced, Unreferenced
    <3>. QED  BY <1>7, <1>13, <3>1, <3>2 DEF Owned
  <2>2. Owned'
    BY <1>5, <2>1 DEF Owned
  <2>. QED  BY <1>10, <1>11, <2>2 DEF OwnInv
<1>. QED  BY <1>9, <1>12, <1>13

(* The entries of the innermost dictionary change; what is referenced      *)
(* stays so.                                                               *)
LEMMA EntriesChange ==
    ASSUME IInv, OwnInv, stack # <<>>, heap[Top].type = "dict",
           NEW e \in Seq(Entry), heap' = [heap EXCEPT ![Top].d = e]
    PROVE  /\ Len(heap') = Len(heap) /\ Top \in 1..Len(heap) /\ Len(heap) \in Nat
           /\ \A p \in 1..Len(heap) : /\ p # Top => heap'[p] = heap[p]
                                      /\ heap'[p].type = heap[p].type
                                      /\ heap'[p].l = heap[p].l
           /\ heap'[Top].d = e
           /\ ShapeInv'
<1>1. heap \in Seq(Node) /\ Top \in 1..Len(heap) /\ Len(heap) \in Nat
  BY Typed
<1>9. PICK g : g = heap'
  OBVIOUS
<1>2. Len(g) = Len(heap)
  BY <1>1, <1>9, UpdateKeepsHeap
<1>3. heap[Top] \in Node /\ DOMAIN heap = 1..Len(heap)
  BY <1>1
<1>4. g[Top] = [heap[Top] EXCEPT !.d = e]
  BY <1>1, <1>3, <1>9
<1>5. g[Top].type = heap[Top].type /\ g[Top].l = heap[Top].l /\ g[Top].d = e
  BY <1>3, <1>4 DEF Node
<1>6. \A p \in 1..Len(heap) : p # Top => g[p] = heap[p]
  BY <1>3, <1>9
<1>7. ShapeInv'
  <2>1. ASSUME NEW p \in 1..Len(heap)
        PROVE  /\ g[p].type # "list" => g[p].l = <<>>
               /\ g[p].type # "dict" => g[p].d = <<>>
    BY <1>5, <1>6 DEF OwnInv, ShapeInv
  <2>. QED  BY <1>2, <1>9, <2>1 DEF ShapeInv
<1>. QED  BY <1>1, <1>2, <1>5, <1>6, <1>7, <1>9

(* The key of a new entry has been decoded; its value is awaited.          *)
LEMMA KeyKeepsOwn ==
    ASSUME IInv, TreeInv, OwnInv, stack # <<>>, heap[Top].type = "dict",
           mode = "loop", mode' = "call", UNCHANGED stack,
           NEW x \in Entry, x.val = NULL,
           heap' = [heap EXCEPT ![Top].d = Append(heap[Top].d, x)]
    PROVE  OwnInv'
<1>1. /\ heap \in Seq(Node) /\ Top \in 1..Len(heap) /\ Top = stack[Len(stack)]
      /\ Len(stack) \in Nat /\ Len(stack) >= 1
      /\ \A a \in 1..Len(stack) : stack[a] \in 1..Len(heap)
  BY Typed DEF Top
<1>2. PICK d \in Seq(Entry) : d = heap[Top].d
  BY <1>1, UpdateKeepsHeap
<1>3. PICK n \in Nat : n = Len(d)
  OBVIOUS
<1>4. PICK e \in Seq(Entry) : e = Append(d, x)
  BY AppendProperties
<1>5. /\ DOMAIN d = 1..n /\ DOMAIN e = 1..(n + 1) /\ Len(e) = n + 1
      /\ \A k \in 1..n : e[k] = d[k] /\ k \in 1..(n + 1) /\ k < n + 1
      /\ e[n + 1] = x
  BY <1>3, <1>4, AppendProperties
<1>6. PICK g : g = heap'
  OBVIOUS
<1>7. heap' = [heap EXCEPT ![Top].d = e]
  BY <1>2, <1>4
<1>8. /\ Len(g) = Len(heap)
      /\ \A p \in 1..Len(heap) : /\ p # Top => g[p] = heap[p]
                                 /\ g[p].type = heap[p].type
                                 /\ g[p].l = heap[p].l
      /\ g[Top].d = e /\ ShapeInv'
  BY <1>6, <1>7, EntriesChange
<1>9. AwaitsValue /\ (ValueLost \/ Owned)
  BY DEF OwnInv
<1>10. AwaitsValue'
  <2>1. ASSUME NEW a \in 1..Len(stack), g[stack[a]].type = "dict"
        PROVE  Waits(g[stack[a]].d)
    <3>1. CASE stack[a] = Top
      <4>1. e # <<>>
        BY <1>5, EmptySeq
      <4>. QED  BY <1>5, <1>8, <3>1, <4>1 DEF Waits
    <3>2. CASE stack[a] # Top
      <4>1. a < Len(stack)
        BY <1>1, <3>2
      <4>. QED  BY <1>1, <1>8, <1>9, <2>1, <3>2, <4>1 DEF AwaitsValue
    <3>. QED  BY <3>1, <3>2
  <2>. QED  BY <1>6, <2>1 DEF AwaitsValue
<1>11. CASE ValueLost
  <2>1. PICK p \in 1..Len(heap) : \E k \in DOMAIN heap[p].d :
           /\ heap[p].d[k].val = NULL
           /\ \/ k < Len(heap[p].d)
              \/ \A a \in 1..Len(stack) : stack[a] = p => a = Len(stack)
    BY <1>11 DEF ValueLost
  <2>2. ASSUME p = Top PROVE ValueLost'
    <3>1. PICK k \in 1..n : d[k].val = NULL
      BY <1>2, <1>5, <2>1, <2>2
    <3>2. k \in DOMAIN e /\ e[k].val = NULL /\ k < Len(e)
      BY <1>5, <3>1
    <3>3. p \in 1..Len(g) /\ g[p].d = e
      BY <1>8, <2>2
    <3>. QED  BY <1>6, <3>2, <3>3, Zenon DEF ValueLost
  <2>3. ASSUME p # Top PROVE ValueLost'
    <3>1. ASSUME \A a \in 1..Len(stack) : stack[a] = p => a = Len(stack)
          PROVE  \A a \in 1..Len(stack) : stack[a] # p
      BY <1>1, <2>3, <3>1
    <3>2. g[p] = heap[p] /\ p \in 1..Len(g)
      BY <1>8, <2>3
    <3>3. \E k \in DOMAIN g[p].d :
             /\ g[p].d[k].val = NULL
             /\ k < Len(g[p].d) \/ \A a \in 1..Len(stack) : stack[a] # p
      BY <2>1, <3>1, <3>2, Zenon
    <3>. QED  BY <1>6, <3>2, <3>3, Zenon DEF ValueLost
  <2>4. ValueLost'
    BY <2>2, <2>3
  <2>. QED  BY <1>8, <1>10, <2>4 DEF OwnInv
<1>12. CASE Owned
  <2>1. ASSUME NEW c \in 1..Len(g)
        PROVE  (\E a \in 1..Len(stack) : stack[a] = c) \/ Referenced(g, c)
    <3>1. CASE Referenced(heap, c)
      <4>1. PICK p \in 1..Len(heap), k \in Nat : Refers(heap, p, k, c)
        BY <3>1 DEF Referenced, Unreferenced
      <4>2. Refers(g, p, k, c)
        <5>1. CASE k \in DOMAIN heap[p].d /\ heap[p].d[k].val = c /\ c # NULL /\ p = Top
          <6>1. k \in 1..n /\ d[k].val = c
            BY <1>2, <1>5, <5>1
          <6>2. k \in DOMAIN e /\ e[k].val = c
            BY <1>5, <6>1
          <6>. QED  BY <1>8, <5>1, <6>2 DEF Refers
        <5>. QED  BY <1>8, <4>1, <5>1 DEF Refers
      <4>. QED  BY <1>8, <4>1, <4>2 DEF Referenced, Unreferenced
    <3>. QED  BY <1>8, <1>12, <3>1 DEF Owned
  <2>2. Owned'
    BY <1>6, <2>1 DEF Owned
  <2>. QED  BY <1>8, <1>10, <2>2 DEF OwnInv
<1>. QED  BY <1>9, <1>11, <1>12

(* The awaited value is stored: the returned node is referenced, or the    *)
(* entry stays without a value.                                            *)
LEMMA ValueKeepsOwn ==
    ASSUME IInv, TreeInv, OwnInv, stack # <<>>, heap[Top].type = "dict",
           mode = "return", mode' = "loop", UNCHANGED <<stack, ret>>,
           NEW d \in Seq(Entry), d = heap[Top].d, NEW n \in Int, n = Len(d),
           heap' = [heap EXCEPT ![Top].d = [d EXCEPT ![n].val = ret]]
    PROVE  OwnInv'
<1>1. /\ heap \in Seq(Node) /\ Top \in 1..Len(heap) /\ Top = stack[Len(stack)]
      /\ Len(stack) \in Nat /\ Len(stack) \in 1..Len(stack) /\ ret \in Nat
      /\ \A a \in 1..Len(stack) : stack[a] \in Nat /\ stack[a] \in 1..Len(heap)
  BY Typed DEF Top
<1>2. AwaitsValue /\ (ValueLost \/ Owned)
  BY DEF OwnInv
<1>3. n \in 1..n /\ DOMAIN d = 1..n /\ d[n].val = NULL
  <2>1. Waits(d)
    BY <1>1, <1>2 DEF AwaitsValue
  <2>. QED  BY <2>1, EmptySeq DEF Waits
<1>4. PICK e : e = [d EXCEPT ![n].val = ret]
  OBVIOUS
<1>5. /\ e \in Seq(Entry) /\ DOMAIN e = 1..n /\ Len(e) = n /\ e[n].val = ret
      /\ \A k \in 1..n : k # n => e[k] = d[k]
  <2>1. e \in Seq(Entry)
    BY <1>1, <1>4, StoreKeepsEntries
  <2>2. DOMAIN e = 1..n /\ \A k \in 1..n : k # n => e[k] = d[k]
    BY <1>3, <1>4
  <2>3. d[n] \in Entry
    BY <1>3, ElementOfSeq
  <2>4. e[n].val = ret
    BY <1>3, <1>4, <2>3 DEF Entry
  <2>. QED  BY <2>1, <2>2, <2>4
<1>6. PICK g : g = heap'
  OBVIOUS
<1>7. heap' = [heap EXCEPT ![Top].d = e]
  BY <1>4
<1>8. /\ Len(g) = Len(heap)
      /\ \A p \in 1..Len(heap) : /\ p # Top => g[p] = heap[p]
                                 /\ g[p].type = heap[p].type
                                 /\ g[p].l = heap[p].l
      /\ g[Top].d = e /\ ShapeInv'
  BY <1>5, <1>6, <1>7, EntriesChange
<1>9. \A a \in 1..Len(stack) : stack[a] = Top => a = Len(stack)
  <2>1. \A a \in 1..Len(stack) : a < Len(stack) => stack[a] < Top
    BY <1>1 DEF TreeInv, StackApart
  <2>. QED  BY <1>1, <2>1
<1>10. AwaitsValue'
  <2>1. ASSUME NEW a \in 1..Len(stack), g[stack[a]].type = "dict", a < Len(stack)
        PROVE  Waits(g[stack[a]].d)
    <3>1. stack[a] # Top
      BY <1>1, <1>9, <2>1
    <3>. QED  BY <1>1, <1>2, <1>8, <2>1, <3>1 DEF AwaitsValue
  <2>. QED  BY <1>6, <2>1 DEF AwaitsValue
<1>11. CASE ret = NULL
  <2>1. n \in DOMAIN g[Top].d /\ g[Top].d[n].val = NULL
    BY <1>3, <1>5, <1>8, <1>11
  <2>2. ValueLost'
    BY <1>1, <1>6, <1>8, <1>9, <2>1 DEF ValueLost
  <2>. QED  BY <1>8, <1>10, <2>2 DEF OwnInv
<1>12. CASE ValueLost /\ ret # NULL
  <2>1. PICK p \in 1..Len(heap) : \E k \in DOMAIN heap[p].d :
           /\ heap[p].d[k].val = NULL
           /\ k < Len(heap[p].d) \/ \A a \in 1..Len(stack) : stack[a] # p
    BY <1>12 DEF ValueLost
  <2>2. ASSUME p = Top PROVE ValueLost'
    <3>1. PICK k \in 1..n : d[k].val = NULL /\ k < n
      BY <1>1, <1>3, <2>1, <2>2
    <3>2. k \in DOMAIN e /\ e[k].val = NULL /\ k < Len(e)
      BY <1>5, <3>1
    <3>3. p \in 1..Len(g) /\ g[p].d = e
      BY <1>8, <2>2
    <3>. QED  BY <1>6, <3>2, <3>3, Zenon DEF ValueLost
  <2>3. ASSUME p # Top PROVE ValueLost'
    <3>1. g[p] = heap[p] /\ p \in 1..Len(g)
      BY <1>8, <2>3
    <3>2. \E k \in DOMAIN g[p].d :
             /\ g[p].d[k].val = NULL
             /\ k < Len(g[p].d) \/ \A a \in 1..Len(stack) : stack[a] # p
      BY <2>1, <3>1, Zenon
    <3>. QED  BY <1>6, <3>1, <3>2, Zenon DEF ValueLost
  <2>4. ValueLost'
    BY <2>2, <2>3
  <2>. QED  BY <1>8, <1>10, <2>4 DEF OwnInv
<1>13. CASE Owned /\ ret # NULL
  <2>1. ASSUME NEW c \in 1..Len(g)
        PROVE  (\E a \in 1..Len(stack) : stack[a] = c) \/ Referenced(g, c)
    <3>1. CASE ret = c
      <4>1. n \in Nat /\ Refers(g, Top, n, c)
        BY <1>3, <1>5, <1>8, <1>13, <3>1 DEF Refers
      <4>. QED  BY <1>1, <1>8, <4>1 DEF Referenced, Unreferenced
    <3>2. CASE Referenced(heap, c)
      <4>1. PICK p \in 1..Len(heap), k \in Nat : Refers(heap, p, k, c)
        BY <3>2 DEF Referenced, Unreferenced
      <4>2. Refers(g, p, k, c)
        <5>1. CASE k \in DOMAIN heap[p].d /\ heap[p].d[k].val = c /\ c # NULL /\ p = Top
          <6>1. k \in 1..n /\ d[k].val = c /\ k # n
            BY <1>3, <5>1
          <6>2. k \in DOMAIN e /\ e[k].val = c
            BY <1>5, <6>1
          <6>. QED  BY <1>8, <5>1, <6>2 DEF Refers
        <5>. QED  BY <1>8, <4>1, <5>1 DEF Refers
      <4>. QED  BY <1>8, <4>1, <4>2 DEF Referenced, Unreferenced
    <3>. QED  BY <1>8, <1>13, <3>1, <3>2 DEF Owned
  <2>2. Owned'
    BY <1>6, <2>1 DEF Owned
  <2>. QED  BY <1>8, <1>10, <2>2 DEF OwnInv
<1>. QED  BY <1>2, <1>11, <1>12, <1>13

(* The aliased test stops the loop: the value just stored is overwritten   *)
(* by NULL, and its entry stays without one.                               *)
LEMMA OverwriteKeepsOwn ==
    ASSUME IInv, TreeInv, OwnInv, stack # <<>>, heap[Top].type = "dict",
           mode = "return", Leave,
           NEW e \in Seq(Entry), heap' = [heap EXCEPT ![Top].d = e],
           NEW n \in DOMAIN e, e[n].val = NULL
    PROVE  OwnInv'
<1>1. PICK s \in Nat : s = Len(stack)
  BY Typed
<1>2. PICK t : t = stack'
  OBVIOUS
<1>3. /\ s >= 1 /\ Len(t) = s - 1
      /\ \A a \in 1..(s - 1) : a \in 1..s /\ a < s /\ t[a] = stack[a]
      /\ Top = stack[s] /\ mode' = "return" /\ s \in 1..s
  BY <1>1, <1>2, LeaveStack
<1>4. PICK g : g = heap'
  OBVIOUS
<1>5. /\ Len(g) = Len(heap) /\ Top \in 1..Len(heap)
      /\ \A p \in 1..Len(heap) : p # Top => g[p] = heap[p]
      /\ g[Top].d = e /\ ShapeInv'
  BY <1>4, EntriesChange
<1>6. ASSUME NEW a \in 1..Len(t)
      PROVE  a \in 1..s /\ a < s /\ t[a] = stack[a] /\ t[a] # Top
             /\ t[a] \in 1..Len(heap)
  <2>1. a \in 1..s /\ a < s /\ t[a] = stack[a]
    BY <1>3, <1>6
  <2>2. stack[a] < stack[s] /\ stack[a] \in Nat /\ stack[a] \in 1..Len(heap)
    BY <1>1, <1>3, <2>1, Typed DEF TreeInv, StackApart
  <2>3. stack[a] # Top
    BY <1>3, <2>2
  <2>. QED  BY <2>1, <2>2, <2>3
<1>7. AwaitsValue'
  <2>1. ASSUME NEW a \in 1..Len(t), g[t[a]].type = "dict" PROVE Waits(g[t[a]].d)
    <3>1. g[t[a]] = heap[t[a]]
      BY <1>5, <1>6
    <3>2. Waits(heap[stack[a]].d)
      BY <1>1, <1>6, <2>1, <3>1 DEF OwnInv, AwaitsValue
    <3>. QED  BY <1>6, <3>1, <3>2
  <2>. QED  BY <1>2, <1>4, <2>1 DEF AwaitsValue
<1>8. ValueLost'
  BY <1>2, <1>4, <1>5, <1>6 DEF ValueLost
<1>. QED  BY <1>5, <1>7, <1>8 DEF OwnInv

(* One case per step of the decoder.                                       *)
LEMMA OwnNext == IInv /\ TreeInv /\ OwnInv /\ [Next]_vars => OwnInv'
<1> SUFFICES ASSUME IInv, TreeInv, OwnInv, [Next]_vars PROVE OwnInv'
  OBVIOUS
<1>1. /\ heap \in Seq(Node) /\ Len(heap) \in Nat /\ ret \in Nat
      /\ stack # <<>> => Top \in 1..Len(heap)
      /\ mode = "loop" => stack # <<>>
  BY Typed DEF IInv, TypeOK
<1>2. /\ pos \in Nat /\ input \in Seq(Char) /\ dataLen \in Int
      /\ pos + dataLen = Len(input)
  BY InputsAssumption DEF IInv, TypeOK, CursorMatchesLength
<1>3. ASSUME NEW t \in {"list", "dict"}, mode = "call",
             heap' = Append(heap, be_alloc(t)), mode' = "loop",
             stack' = Append(stack, Len(heap) + 1)
      PROVE  OwnInv'
  <2>1. be_alloc(t) \in Node /\ be_alloc(t).l = <<>> /\ be_alloc(t).d = <<>>
    BY AllocIsNode DEF be_alloc
  <2>. QED  BY <1>3, <2>1, AllocKeepsOwn
<1>4. CASE NoDataLeft \/ Invalid
  BY <1>4, QuietKeepsOwn DEF NoDataLeft, Invalid, Return
<1>5. CASE OpenList \/ OpenDict
  BY <1>3, <1>5 DEF OpenList, OpenDict, Open, Calling
<1>6. CASE DecodeInt
  <2>1. PICK number : number = Strtoll(pos + 1)
    OBVIOUS
  <2>2. stack' = stack /\ mode = "call" /\ mode' = "return"
    BY <1>6 DEF DecodeInt, Return, Calling
  <2>3. CASE Byte(number.end) = "e"
    <3>1. /\ heap' = Append(heap, [be_alloc("int") EXCEPT !.i = number.value])
          /\ ret' = Len(heap) + 1
      BY <1>6, <2>1, <2>3 DEF DecodeInt, Return
    <3>2. PICK n : n = [be_alloc("int") EXCEPT !.i = number.value]
      OBVIOUS
    <3>3. number.value \in Int
      <4>1. pos + 1 \in Nat
        BY <1>2
      <4>. QED  BY <1>2, <2>1, <4>1, StrtollProperties
    <3>4. n \in Node /\ n.l = <<>> /\ n.d = <<>>
      BY <3>2, <3>3, AllocIsNode DEF be_alloc
    <3>. QED  BY <2>2, <3>1, <3>2, <3>4, AllocKeepsOwn
  <2>4. CASE Byte(number.end) # "e"
    <3>1. heap' = heap
      BY <1>6, <2>1, <2>4 DEF DecodeInt
    <3>. QED  BY <2>2, <3>1, QuietKeepsOwn
  <2>. QED  BY <2>3, <2>4
<1>7. CASE DecodeString
  <2>1. PICK str : str = DecodeStr(pos, dataLen)
    OBVIOUS
  <2>2. PICK n : n = [be_alloc("str") EXCEPT !.s = str.str]
    OBVIOUS
  <2>3. /\ heap' = Append(heap, n) /\ stack' = stack /\ mode' = "return"
        /\ ret' = Len(heap) + 1 /\ mode = "call"
    BY <1>7, <2>1, <2>2 DEF DecodeString, Return, Calling
  <2>4. str.str \in CStr
    BY <1>2, <2>1, DecodeStrProperties
  <2>5. n \in Node /\ n.l = <<>> /\ n.d = <<>>
    BY <2>2, <2>4, AllocIsNode DEF be_alloc
  <2>. QED  BY <2>3, <2>5, AllocKeepsOwn
<1>8. CASE ListLoop
  <2>1. heap' = heap /\ stack # <<>> /\ mode = "loop" /\ heap[Top].type = "list"
    BY <1>1, <1>8 DEF ListLoop
  <2>2. Leave \/ (mode' = "call" /\ stack' = stack)
    BY <1>8 DEF ListLoop
  <2>. QED  BY <2>1, <2>2, LeaveKeepsOwn, QuietKeepsOwn
<1>9. CASE ListItem
  <2>1. mode = "return" /\ stack # <<>> /\ heap[Top].type = "list"
    BY <1>9 DEF ListItem
  <2>2. CASE ret = NULL
    <3>1. Leave /\ heap' = heap
      BY <1>9, <2>2 DEF ListItem
    <3>. QED  BY <2>1, <2>2, <3>1, LeaveKeepsOwn
  <2>3. CASE ret # NULL
    <3>1. /\ heap' = [heap EXCEPT ![Top].l = Append(@, ret)]
          /\ mode' = "loop" /\ UNCHANGED <<stack, ret>>
      BY <1>9, <2>3 DEF ListItem
    <3>. QED  BY <2>1, <2>3, <3>1, ItemKeepsOwn
  <2>. QED  BY <2>2, <2>3
<1>10. CASE DictLoop
  <2>1. mode = "loop" /\ stack # <<>> /\ heap[Top].type = "dict"
    BY <1>1, <1>10 DEF DictLoop
  <2>2. CASE Byte(pos) = "e"
    <3>1. heap' = heap /\ (Leave \/ (mode' = "crash" /\ stack' = stack))
      BY <1>10, <2>2 DEF DictLoop
    <3>. QED  BY <2>1, <3>1, LeaveKeepsOwn, QuietKeepsOwn
  <2>3. CASE Byte(pos) # "e"
    <3>1. PICK key : key = DecodeStr(pos, dataLen)
      OBVIOUS
    <3>2. key.str \in CStr
      BY <1>2, <3>1, DecodeStrProperties
    <3>3. PICK x : x = [key |-> key.str, val |-> NULL]
      OBVIOUS
    <3>4. x \in Entry /\ x.val = NULL
      BY <3>2, <3>3 DEF Entry, NULL
    <3>5. /\ heap' = [heap EXCEPT ![Top].d = Append(heap[Top].d, x)]
          /\ mode' = "call" /\ UNCHANGED stack
      BY <1>1, <1>10, <2>1, <2>3, <3>1, <3>3 DEF DictLoop
    <3>. QED  BY <2>1, <3>4, <3>5, KeyKeepsOwn
  <2>. QED  BY <2>2, <2>3
<1>11. CASE DictItem
  <2>1. mode = "return" /\ stack # <<>> /\ heap[Top].type = "dict"
    BY <1>11 DEF DictItem
  <2>2. PICK f \in Seq(Entry) : f = heap[Top].d
    BY <1>1, <2>1, UpdateKeepsHeap
  <2>3. PICK n \in Int : n = Len(f)
    BY <2>2
  <2>4. PICK d : d = [f EXCEPT ![n].val = ret]
    OBVIOUS
  <2>5. d \in Seq(Entry) /\ DOMAIN d = DOMAIN f
    BY <1>1, <2>4, StoreKeepsEntries
  <2>6. CASE AliasIsNull(d, n - 1)
    <3>1. PICK e : e = [d EXCEPT ![n].val = NULL]
      OBVIOUS
    <3>2. heap' = [heap EXCEPT ![Top].d = e] /\ Leave
      BY <1>11, <2>2, <2>3, <2>4, <2>6, <3>1 DEF DictItem
    <3>3. e \in Seq(Entry) /\ DOMAIN e = DOMAIN d
      BY <2>3, <2>5, <3>1, StoreKeepsEntries DEF NULL
    <3>4. n \in DOMAIN d
      <4>1. Waits(f)
        <5>1. Len(stack) \in 1..Len(stack) /\ Top = stack[Len(stack)]
          BY <2>1, Typed DEF Top
        <5>. QED  BY <2>1, <2>2, <5>1 DEF OwnInv, AwaitsValue
      <4>2. n \in 1..n /\ DOMAIN f = 1..n
        BY <2>3, <4>1, EmptySeq DEF Waits
      <4>. QED  BY <2>5, <4>2
    <3>5. e[n].val = NULL
      <4>1. d[n] \in Entry
        BY <2>5, <3>4, ElementOfSeq
      <4>. QED  BY <3>1, <3>4, <4>1 DEF Entry
    <3>. QED  BY <2>1, <3>2, <3>3, <3>4, <3>5, OverwriteKeepsOwn
  <2>7. CASE ~AliasIsNull(d, n - 1)
    <3>1. /\ heap' = [heap EXCEPT ![Top].d = d] /\ mode' = "loop"
          /\ UNCHANGED <<stack, ret>>
      BY <1>11, <2>2, <2>3, <2>4, <2>7 DEF DictItem
    <3>. QED  BY <2>1, <2>2, <2>3, <2>4, <3>1, ValueKeepsOwn
  <2>. QED  BY <2>6, <2>7
<1>12. CASE Finish
  BY <1>12, QuietKeepsOwn DEF Finish
<1>13. CASE UNCHANGED vars
  BY <1>13, QuietKeepsOwn DEF vars
<1>. QED
  BY <1>4, <1>5, <1>6, <1>7, <1>8, <1>9, <1>10, <1>11, <1>12, <1>13 DEF Next

(* When the decoder is done and no entry is left without a value, every    *)
(* node but the root is referenced.                                        *)
NoNullEntry ==
    \A p \in 1..Len(heap) : \A k \in DOMAIN heap[p].d : heap[p].d[k].val # NULL

LEMMA RestIsReferenced ==
    ASSUME IInv, TreeInv, OwnInv, mode = "done", NoNullEntry, stack = <<>>
    PROVE  \A c \in 1..Len(heap) : c = ret \/ Referenced(heap, c)
<1>1. ~ValueLost
  BY DEF ValueLost, NoNullEntry
<1>2. Owned
  BY <1>1 DEF OwnInv
<1>3. Len(stack) = 0
  BY EmptySeq
<1>. QED  BY <1>2, <1>3 DEF Owned

-----------------------------------------------------------------------------
(* be_free comes to everything that is referenced.                         *)

(* be_free has come to node c: it is freed, or its call is active.         *)
Reached(done, active, c) ==
    \/ \E m \in 1..Len(done) : done[m] = c
    \/ \E a \in 1..Len(active) : active[a].node = c

(* The innermost call, by its parts.                                       *)
LEMMA CurrentCall ==
    ASSUME FreeTypes, CallsDescend, frames # <<>>, heap \in Seq(Node)
    PROVE  /\ Len(frames) \in Nat /\ Len(frames) \in 1..Len(frames)
           /\ Current = frames[Len(frames)] /\ Current \in CallType
           /\ Current.node \in 1..Len(heap) /\ Current.node \in Nat
           /\ Current.next \in Nat /\ Current.next >= 1
           /\ heap[Current.node] \in Node
<1>1. frames \in Seq(CallType) /\ Len(frames) \in Nat /\ Len(heap) \in Nat
  BY DEF FreeTypes
<1>2. Len(frames) \in 1..Len(frames) /\ Current = frames[Len(frames)]
  BY <1>1, EmptySeq DEF Current
<1>3. Current \in CallType
  BY <1>1, <1>2, ElementOfSeq
<1>4. Current.node \in 1..Len(heap)
  BY <1>2 DEF CallsDescend
<1>5. Current.node \in Nat /\ heap[Current.node] \in Node
  BY <1>1, <1>4, ElementOfSeq
<1>. QED  BY <1>1, <1>2, <1>3, <1>4, <1>5 DEF CallType

(* A recursive call passes one pointer, and comes to the node there.       *)
LEMMA DescendPasses ==
    ASSUME FreeTypes, CallsDescend, frames # <<>>, heap \in Seq(Node),
           NEW c \in Nat, Descend(c), freed' = freed
    PROVE  /\ \A p, k \in Nat : k >= 1 =>
                 (Passed(freed', frames', p, k)
                    <=> \/ Passed(freed, frames, p, k)
                        \/ p = Current.node /\ k = Current.next)
           /\ \A q \in Nat : Reached(freed', frames', q)
                               <=> Reached(freed, frames, q) \/ q = c
<1>1. frames \in Seq(CallType) /\ freed \in Seq(Nat)
  BY DEF FreeTypes
<1>2. PICK l \in Nat : l = Len(frames) /\ l >= 1 /\ l \in 1..l
  BY <1>1, EmptySeq
<1>3. PICK f \in CallType : f = frames[l] /\ f = Current
  BY <1>2, CurrentCall
<1>4. f.node \in Nat /\ f.next \in Nat /\ f.next >= 1
  BY DEF CallType
<1>5. PICK g : g = [f EXCEPT !.next = f.next + 1]
  OBVIOUS
<1>6. g \in CallType /\ g.node = f.node /\ g.next = f.next + 1
  BY <1>4, <1>5 DEF CallType
<1>7. PICK u : u = [frames EXCEPT ![l] = g]
  OBVIOUS
<1>8. /\ u \in Seq(CallType) /\ Len(u) = l /\ u[l] = g
      /\ \A a \in 1..l : a # l => u[a] = frames[a]
  BY <1>1, <1>2, <1>6, <1>7, ExceptSeq
<1>9. PICK x : x = Call(c)
  OBVIOUS
<1>10. x \in CallType /\ x.node = c /\ x.next = 1
  BY <1>9 DEF Call, CallType
<1>11. PICK t : t = frames'
  OBVIOUS
<1>12. t = Append(u, x)
  BY <1>2, <1>3, <1>5, <1>7, <1>9, <1>11 DEF Descend
<1>13. /\ Len(t) = l + 1 /\ t[l + 1] = x /\ t[l] = g
       /\ \A a \in 1..l : a # l => t[a] = frames[a]
       /\ l \in 1..(l + 1) /\ l + 1 \in 1..(l + 1)
       /\ \A a \in 1..l : a \in 1..(l + 1)
       /\ \A a \in 1..(l + 1) : a = l \/ a = l + 1 \/ (a \in 1..l /\ a # l)
  <2>1. /\ Len(t) = l + 1 /\ \A a \in 1..l : t[a] = u[a]
        /\ t[l + 1] = x
    BY <1>8, <1>10, <1>12, AppendProperties
  <2>. QED  BY <1>2, <1>8, <2>1
<1>14. ASSUME NEW p \in Nat, NEW k \in Nat, k >= 1
       PROVE  (\E a \in 1..(l + 1) : t[a].node = p /\ k < t[a].next)
                <=> \/ \E a \in 1..l : frames[a].node = p /\ k < frames[a].next
                    \/ p = f.node /\ k = f.next
  <2>1. k < g.next <=> k < f.next \/ k = f.next
    BY <1>4, <1>6
  <2>2. ~(k < x.next)
    BY <1>10, <1>14
  <2>3. ASSUME NEW a \in 1..(l + 1), t[a].node = p, k < t[a].next
        PROVE  \/ \E b \in 1..l : frames[b].node = p /\ k < frames[b].next
               \/ p = f.node /\ k = f.next
    <3>1. CASE a = l
      BY <1>2, <1>3, <1>6, <1>13, <2>1, <2>3, <3>1, Zenon
    <3>2. CASE a = l + 1
      BY <1>13, <2>2, <2>3, <3>2, Zenon
    <3>3. CASE a \in 1..l /\ a # l
      BY <1>13, <2>3, <3>3, Zenon
    <3>. QED  BY <1>13, <3>1, <3>2, <3>3, Zenon
  <2>4. ASSUME NEW a \in 1..l, frames[a].node = p, k < frames[a].next
        PROVE  \E b \in 1..(l + 1) : t[b].node = p /\ k < t[b].next
    <3>1. CASE a = l
      BY <1>3, <1>6, <1>13, <2>1, <2>4, <3>1, Zenon
    <3>2. CASE a # l
      BY <1>13, <2>4, <3>2, Zenon
    <3>. QED  BY <3>1, <3>2
  <2>5. ASSUME p = f.node, k = f.next
        PROVE  \E b \in 1..(l + 1) : t[b].node = p /\ k < t[b].next
    BY <1>6, <1>13, <2>1, <2>5, Zenon
  <2>. QED  BY <2>3, <2>4, <2>5, Zenon
<1>15. ASSUME NEW q \in Nat
       PROVE  (\E a \in 1..(l + 1) : t[a].node = q)
                <=> (\E a \in 1..l : frames[a].node = q) \/ q = c
  <2>1. ASSUME NEW a \in 1..(l + 1), t[a].node = q
        PROVE  (\E b \in 1..l : frames[b].node = q) \/ q = c
    BY <1>2, <1>3, <1>6, <1>10, <1>13, <2>1, Zenon
  <2>2. ASSUME NEW a \in 1..l, frames[a].node = q
        PROVE  \E b \in 1..(l + 1) : t[b].node = q
    BY <1>2, <1>3, <1>6, <1>13, <2>2, Zenon
  <2>3. ASSUME q = c PROVE \E b \in 1..(l + 1) : t[b].node = q
    BY <1>10, <1>13, <2>3, Zenon
  <2>. QED  BY <2>1, <2>2, <2>3, Zenon
<1>16. ASSUME NEW p \in Nat, NEW k \in Nat, k >= 1
       PROVE  Passed(freed, t, p, k)
                <=> Passed(freed, frames, p, k) \/ (p = f.node /\ k = f.next)
  <2>1. (\E a \in 1..Len(t) : t[a].node = p /\ k < t[a].next)
          <=> \/ \E a \in 1..Len(frames) : frames[a].node = p /\ k < frames[a].next
              \/ p = f.node /\ k = f.next
    <3>1. Len(t) = l + 1 /\ Len(frames) = l
      BY <1>2, <1>13, Zenon
    <3>2. (\E a \in 1..(l + 1) : t[a].node = p /\ k < t[a].next)
            <=> \/ \E a \in 1..l : frames[a].node = p /\ k < frames[a].next
                \/ p = f.node /\ k = f.next
      BY <1>14, <1>16, Zenon
    <3>. QED  BY <3>1, <3>2
  <2>. QED  BY <2>1, Zenon DEF Passed
<1>17. ASSUME NEW q \in Nat
       PROVE  Reached(freed, t, q) <=> Reached(freed, frames, q) \/ q = c
  <2>1. (\E a \in 1..Len(t) : t[a].node = q)
          <=> (\E a \in 1..Len(frames) : frames[a].node = q) \/ q = c
    BY <1>2, <1>13, <1>15, Zenon
  <2>. QED  BY <2>1, Zenon DEF Reached
<1>18. freed' = freed /\ frames' = t /\ Current = f
  BY <1>3, <1>11
<1>. QED  BY <1>16, <1>17, <1>18, Zenon

(* To free a node passes all pointers of it.                               *)
LEMMA ReleasePasses ==
    ASSUME FreeTypes, CallsDescend, frames # <<>>, heap \in Seq(Node), Release
    PROVE  /\ \A p, k \in Nat : Passed(freed', frames', p, k)
                                  <=> Passed(freed, frames, p, k) \/ p = Current.node
           /\ \A q \in Nat : Reached(freed', frames', q)
                               <=> Reached(freed, frames, q)
<1>1. frames \in Seq(CallType) /\ freed \in Seq(Nat)
  BY DEF FreeTypes
<1>2. PICK l \in Nat : l = Len(frames) /\ l >= 1 /\ l \in 1..l
  BY <1>1, EmptySeq
<1>3. PICK x \in Nat : x = frames[l].node /\ x = Current.node
  BY <1>2, CurrentCall
<1>4. PICK j \in Nat : j = l - 1
  BY <1>2
<1>5. PICK t : t = frames'
  OBVIOUS
<1>6. /\ Len(t) = j /\ \A a \in 1..j : t[a] = frames[a] /\ a \in 1..l
      /\ \A a \in 1..l : a = l \/ a \in 1..j
  <2>1. t = SubSeq(frames, 1, j)
    BY <1>2, <1>4, <1>5 DEF Release
  <2>2. \A a \in 1..j : a \in 1..l
    BY <1>2, <1>4
  <2>3. \A a \in 1..j : frames[a] \in CallType
    BY <1>1, <1>2, <2>2, ElementOfSeq
  <2>4. /\ Len(t) = (IF 1 <= j THEN j - 1 + 1 ELSE 0)
        /\ \A a \in 1..(j - 1 + 1) : t[a] = frames[1 + a - 1]
    BY <2>1, <2>3, SubSeqProperties
  <2>. QED  BY <1>2, <1>4, <2>2, <2>4
<1>7. PICK n \in Nat : n = Len(freed)
  BY <1>1
<1>8. PICK e : e = freed'
  OBVIOUS
<1>9. /\ Len(e) = n + 1 /\ e[n + 1] = x /\ n + 1 \in 1..(n + 1)
      /\ \A m \in 1..n : e[m] = freed[m] /\ m \in 1..(n + 1)
      /\ \A m \in 1..(n + 1) : m = n + 1 \/ m \in 1..n
  <2>1. e = Append(freed, x)
    BY <1>3, <1>8 DEF Release
  <2>. QED  BY <1>1, <1>7, <2>1, AppendProperties
<1>10. ASSUME NEW p \in Nat
       PROVE  (\E m \in 1..(n + 1) : e[m] = p)
                <=> (\E m \in 1..n : freed[m] = p) \/ p = x
  <2>1. ASSUME NEW m \in 1..(n + 1), e[m] = p
        PROVE  (\E i \in 1..n : freed[i] = p) \/ p = x
    BY <1>9, <2>1, Zenon
  <2>2. ASSUME NEW m \in 1..n, freed[m] = p PROVE \E i \in 1..(n + 1) : e[i] = p
    BY <1>9, <2>2, Zenon
  <2>3. ASSUME p = x PROVE \E i \in 1..(n + 1) : e[i] = p
    BY <1>9, <2>3, Zenon
  <2>. QED  BY <2>1, <2>2, <2>3, Zenon
<1>11. ASSUME NEW p \in Nat, NEW k \in Nat
       PROVE  Passed(e, t, p, k) <=> Passed(freed, frames, p, k) \/ p = x
  <2>1. ASSUME NEW a \in 1..j, t[a].node = p, k < t[a].next
        PROVE  \E b \in 1..l : frames[b].node = p /\ k < frames[b].next
    BY <1>6, <2>1, Zenon
  <2>2. ASSUME NEW a \in 1..l, frames[a].node = p, k < frames[a].next
        PROVE  p = x \/ \E b \in 1..j : t[b].node = p /\ k < t[b].next
    BY <1>3, <1>6, <2>2, Zenon
  <2>3. Passed(e, t, p, k) <=> \/ \E m \in 1..(n + 1) : e[m] = p
                               \/ \E a \in 1..j : t[a].node = p /\ k < t[a].next
    BY <1>6, <1>9, Zenon DEF Passed
  <2>4. Passed(freed, frames, p, k)
          <=> \/ \E m \in 1..n : freed[m] = p
              \/ \E a \in 1..l : frames[a].node = p /\ k < frames[a].next
    BY <1>2, <1>7, Zenon DEF Passed
  <2>. QED  BY <1>10, <2>1, <2>2, <2>3, <2>4, Zenon
<1>12. ASSUME NEW q \in Nat
       PROVE  Reached(e, t, q) <=> Reached(freed, frames, q)
  <2>1. ASSUME NEW a \in 1..j, t[a].node = q PROVE \E b \in 1..l : frames[b].node = q
    BY <1>6, <2>1, Zenon
  <2>2. ASSUME NEW a \in 1..l, frames[a].node = q
        PROVE  q = x \/ \E b \in 1..j : t[b].node = q
    BY <1>3, <1>6, <2>2, Zenon
  <2>3. Reached(e, t, q) <=> \/ \E m \in 1..(n + 1) : e[m] = q
                             \/ \E a \in 1..j : t[a].node = q
    BY <1>6, <1>9, Zenon DEF Reached
  <2>4. Reached(freed, frames, q) <=> \/ \E m \in 1..n : freed[m] = q
                                      \/ \E a \in 1..l : frames[a].node = q
    BY <1>2, <1>7, Zenon DEF Reached
  <2>5. q = x => \E a \in 1..l : frames[a].node = q
    BY <1>2, <1>3, Zenon
  <2>. QED  BY <1>10, <2>1, <2>2, <2>3, <2>4, <2>5, Zenon
<1>13. freed' = e /\ frames' = t /\ Current.node = x
  BY <1>3, <1>5, <1>8
<1>. QED  BY <1>11, <1>12, <1>13, Zenon

(* What a passed pointer leads to has been reached.                        *)
Covered ==
    \A p \in 1..Len(heap), k, c \in Nat :
        Refers(heap, p, k, c) /\ Passed(freed, frames, p, k)
            => Reached(freed, frames, c)

(* The keys freed are those of the entries passed.                         *)
KeysPassed ==
    \A p \in 1..Len(heap), k \in Nat :
        <<p, k>> \in keys
            <=> k \in DOMAIN heap[p].d /\ Passed(freed, frames, p, k)

(* be_free forgets nothing that is behind it.                              *)
Complete == (ret # NULL => Reached(freed, frames, ret)) /\ Covered /\ KeysPassed

LeakInv ==
    /\ mode = "done" => stack = <<>>
    /\ keys \subseteq (1..Len(heap)) \X Nat
    /\ \A m \in 1..Len(freed) : freed[m] \in 1..Len(heap)
    /\ phase \in {"decode", "dump", "dumped"} => keys = {}
    /\ phase = "released" => frames = <<>>
    /\ phase \in {"free", "released"} /\ NoNullEntry => Complete

(* A step that leaves be_free's state alone.                               *)
LEMMA AsideKeepsLeak ==
    ASSUME FreeInv, LeakInv, UNCHANGED freeVars,
           \/ phase' = phase /\ UNCHANGED vars
           \/ phase = "decode" /\ phase' = "decode" /\ (mode' = "done" => stack' = <<>>)
           \/ mode = "done" /\ phase \in {"decode", "dump"}
                /\ phase' \in {"dump", "dumped"} /\ UNCHANGED vars
           \/ phase = "free" /\ frames = <<>> /\ phase' = "released" /\ UNCHANGED vars
    PROVE  LeakInv'
<1>1. UNCHANGED <<frames, freed, keys>>
  BY DEF freeVars
<1>2. CASE phase = "decode" /\ phase' = "decode" /\ (mode' = "done" => stack' = <<>>)
  <2>1. keys = {} /\ Len(freed) = 0
    BY <1>2, EmptySeq DEF FreeInv, FreeTypes, LeakInv
  <2>. QED  BY <1>1, <1>2, <2>1 DEF LeakInv
<1>3. CASE UNCHANGED vars
  <2>1. UNCHANGED <<heap, mode, ret, stack>>
    BY <1>3 DEF vars
  <2>2. Complete => Complete'
    BY <1>1, <2>1 DEF Complete, Covered, KeysPassed
  <2>3. NoNullEntry' => NoNullEntry
    BY <2>1 DEF NoNullEntry
  <2>. QED  BY <1>1, <1>2, <2>1, <2>2, <2>3 DEF LeakInv
<1>. QED  BY <1>2, <1>3

(* be_free starts at the root.                                             *)
LEMMA CallFreeKeepsLeak == IInv /\ FreeInv /\ LeakInv /\ CallFree => LeakInv'
<1> SUFFICES ASSUME IInv, FreeInv, LeakInv, CallFree PROVE LeakInv'
  OBVIOUS
<1>1. /\ frames = <<>> /\ freed = <<>> /\ freed' = freed /\ keys = {} /\ keys' = keys
      /\ UNCHANGED <<heap, mode, ret, stack>>
      /\ heap \in Seq(Node) /\ ret \in Nat
  BY Typed DEF FreeInv, FreeTypes, LeakInv, CallFree, vars
<1>2. Len(freed) = 0 /\ Len(frames) = 0
  BY <1>1, EmptySeq
<1>3. Complete' /\ (phase' = "released" => frames' = <<>>)
  <2>1. CASE ret = NULL
    <3>1. frames' = frames
      BY <2>1 DEF CallFree
    <3>2. \A p, k : ~Passed(freed', frames', p, k)
      BY <1>1, <1>2, <3>1 DEF Passed
    <3>. QED  BY <1>1, <2>1, <3>1, <3>2 DEF Complete, Covered, KeysPassed
  <2>2. CASE ret # NULL
    <3>1. PICK t : t = frames'
      OBVIOUS
    <3>2. PICK x : x = Call(ret)
      OBVIOUS
    <3>3. t = <<x>> /\ x.node = ret /\ x.next = 1 /\ phase' = "free"
      BY <2>2, <3>1, <3>2 DEF CallFree, Call
    <3>4. Len(t) = 1 /\ t[1] = x /\ \A a \in 1..1 : a = 1
      BY <3>3
    <3>5. Reached(freed', frames', ret)
      BY <3>1, <3>3, <3>4 DEF Reached
    <3>6. \A p, k \in Nat : Passed(freed', frames', p, k) => k < 1
      BY <1>1, <1>2, <3>1, <3>3, <3>4 DEF Passed
    <3>7. ASSUME NEW p \in 1..Len(heap), NEW k \in Nat,
                 k \in DOMAIN heap[p].l \/ k \in DOMAIN heap[p].d
          PROVE  ~Passed(freed', frames', p, k)
      <4>1. heap[p] \in Node /\ p \in Nat
        BY <1>1
      <4>2. k >= 1
        BY <3>7, <4>1 DEF Node
      <4>. QED  BY <3>6, <4>1, <4>2
    <3>8. Covered' /\ KeysPassed'
      BY <1>1, <3>7 DEF Covered, KeysPassed, Refers
    <3>. QED  BY <1>1, <3>3, <3>5, <3>8 DEF Complete
  <2>. QED  BY <2>1, <2>2
<1>4. phase' \in {"free", "released"}
  BY DEF CallFree
<1>. QED  BY <1>1, <1>2, <1>3, <1>4 DEF LeakInv

(* A recursive call comes to what the pointer passed leads to.             *)
LEMMA DescendKeepsLeak ==
    ASSUME IInv, FreeInv, LeakInv, phase = "free", frames # <<>>,
           UNCHANGED <<heap, stack, mode, ret, freed, phase>>,
           NEW c \in Nat, Descend(c),
           \A q \in Nat : Refers(heap, Current.node, Current.next, q) => q = c,
           IF Current.next \in DOMAIN heap[Current.node].d
           THEN keys' = keys \cup {<<Current.node, Current.next>>}
           ELSE keys' = keys
    PROVE  LeakInv'
<1>1. heap \in Seq(Node) /\ ret \in Nat /\ Len(heap) \in Nat
  BY Typed
<1>2. PICK x \in 1..Len(heap), n \in Nat : x = Current.node /\ n = Current.next /\ n >= 1
  BY <1>1, CurrentCall DEF FreeInv
<1>3. /\ \A p, k \in Nat : k >= 1 =>
            (Passed(freed', frames', p, k)
               <=> Passed(freed, frames, p, k) \/ (p = x /\ k = n))
      /\ \A q \in Nat : Reached(freed', frames', q)
                          <=> Reached(freed, frames, q) \/ q = c
  BY <1>1, <1>2, DescendPasses DEF FreeInv
<1>4. \A p \in 1..Len(heap), k \in Nat :
         k \in DOMAIN heap[p].l \/ k \in DOMAIN heap[p].d => k >= 1 /\ p \in Nat
  <2>1. \A p \in 1..Len(heap) : heap[p] \in Node /\ p \in Nat
    BY <1>1
  <2>. QED  BY <2>1 DEF Node
<1>5. ASSUME Complete PROVE Complete'
  <2>1. ret' # NULL => Reached(freed', frames', ret')
    BY <1>1, <1>3, <1>5 DEF Complete
  <2>2. ASSUME NEW p \in 1..Len(heap), NEW k \in Nat, NEW q \in Nat,
               Refers(heap, p, k, q), Passed(freed', frames', p, k)
        PROVE  Reached(freed', frames', q)
    <3>1. k >= 1 /\ p \in Nat
      BY <1>4, <2>2 DEF Refers
    <3>2. Passed(freed, frames, p, k) \/ (p = x /\ k = n)
      BY <1>3, <2>2, <3>1
    <3>3. CASE p = x /\ k = n
      BY <1>2, <1>3, <2>2, <3>3
    <3>4. CASE Passed(freed, frames, p, k)
      BY <1>3, <1>5, <2>2, <3>4 DEF Complete, Covered
    <3>. QED  BY <3>2, <3>3, <3>4
  <2>3. ASSUME NEW p \in 1..Len(heap), NEW k \in Nat
        PROVE  <<p, k>> \in keys'
                 <=> k \in DOMAIN heap[p].d /\ Passed(freed', frames', p, k)
    <3>1. <<p, k>> \in keys' <=> \/ <<p, k>> \in keys
                                 \/ p = x /\ k = n /\ k \in DOMAIN heap[p].d
      BY <1>2
    <3>2. <<p, k>> \in keys <=> k \in DOMAIN heap[p].d /\ Passed(freed, frames, p, k)
      BY <1>5 DEF Complete, KeysPassed
    <3>3. k \in DOMAIN heap[p].d =>
            (Passed(freed', frames', p, k)
               <=> Passed(freed, frames, p, k) \/ (p = x /\ k = n))
      BY <1>3, <1>4
    <3>. QED  BY <3>1, <3>2, <3>3
  <2>4. Covered' /\ KeysPassed'
    BY <2>2, <2>3 DEF Covered, KeysPassed
  <2>. QED  BY <2>1, <2>4 DEF Complete
<1>6. keys' \subseteq (1..Len(heap)) \X Nat
  <2>1. keys \subseteq (1..Len(heap)) \X Nat
    BY DEF LeakInv
  <2>2. <<x, n>> \in (1..Len(heap)) \X Nat
    OBVIOUS
  <2>3. keys' = keys \/ keys' = keys \cup {<<x, n>>}
    BY <1>2
  <2>. QED  BY <2>1, <2>2, <2>3
<1>7. NoNullEntry' => NoNullEntry
  BY DEF NoNullEntry
<1>. QED  BY <1>5, <1>6, <1>7 DEF LeakInv

(* To free a node passes no new pointer: its loops have come to the end    *)
(* of the arrays, if no entry is without a value.                          *)
LEMMA ReleaseKeepsLeak ==
    ASSUME IInv, FreeInv, LeakInv, phase = "free", frames # <<>>, Release,
           UNCHANGED <<heap, stack, mode, ret, keys, phase>>,
           NoNullEntry => \A k \in Nat :
              \/ k \in DOMAIN heap[Current.node].l
              \/ k \in DOMAIN heap[Current.node].d
              => k < Current.next
    PROVE  LeakInv'
<1>1. heap \in Seq(Node) /\ ret \in Nat /\ Len(heap) \in Nat
  BY Typed
<1>2. PICK x \in 1..Len(heap) : x = Current.node
  BY <1>1, CurrentCall DEF FreeInv
<1>3. /\ \A p, k \in Nat : Passed(freed', frames', p, k)
                             <=> Passed(freed, frames, p, k) \/ p = x
      /\ \A q \in Nat : Reached(freed', frames', q) <=> Reached(freed, frames, q)
  BY <1>1, <1>2, ReleasePasses DEF FreeInv
<1>4. \A p \in 1..Len(heap) : p \in Nat
  BY <1>1
<1>5. ASSUME Complete, NoNullEntry PROVE Complete'
  <2>1. ret' # NULL => Reached(freed', frames', ret')
    BY <1>1, <1>3, <1>5 DEF Complete
  <2>2. ASSUME NEW p \in 1..Len(heap), NEW k \in Nat,
               k \in DOMAIN heap[p].l \/ k \in DOMAIN heap[p].d
        PROVE  Passed(freed', frames', p, k) <=> Passed(freed, frames, p, k)
    <3>1. CASE p # x
      BY <1>3, <1>4, <3>1
    <3>2. CASE p = x
      <4>1. k < Current.next
        BY <1>2, <1>5, <2>2, <3>2
      <4>2. /\ Len(frames) \in 1..Len(frames)
            /\ frames[Len(frames)] = Current
        BY <1>1, CurrentCall DEF FreeInv
      <4>3. Passed(freed, frames, p, k)
        BY <1>2, <3>2, <4>1, <4>2 DEF Passed
      <4>. QED  BY <1>3, <1>4, <4>3
    <3>. QED  BY <3>1, <3>2
  <2>3. Covered'
    <3>1. ASSUME NEW p \in 1..Len(heap), NEW k \in Nat, NEW q \in Nat,
                 Refers(heap, p, k, q), Passed(freed', frames', p, k)
          PROVE  Reached(freed', frames', q)
      <4>1. Passed(freed, frames, p, k)
        BY <2>2, <3>1 DEF Refers
      <4>. QED  BY <1>3, <1>5, <3>1, <4>1 DEF Complete, Covered
    <3>. QED  BY <3>1 DEF Covered
  <2>4. KeysPassed'
    BY <1>5, <2>2 DEF Complete, KeysPassed
  <2>. QED  BY <2>1, <2>3, <2>4 DEF Complete
<1>6. \A m \in 1..Len(freed') : freed'[m] \in 1..Len(heap')
  <2>1. freed \in Seq(Nat)
    BY DEF FreeInv, FreeTypes
  <2>2. freed \in Seq(1..Len(heap))
    BY <2>1 DEF LeakInv
  <2>3. freed' = Append(freed, x)
    BY <1>2 DEF Release
  <2>4. freed' \in Seq(1..Len(heap))
    BY <2>2, <2>3, AppendProperties
  <2>. QED  BY <2>4, ElementOfSeq
<1>7. NoNullEntry' => NoNullEntry
  BY DEF NoNullEntry
<1>8. keys' \subseteq (1..Len(heap')) \X Nat
  BY DEF LeakInv
<1>. QED  BY <1>5, <1>6, <1>7, <1>8 DEF LeakInv

(* One case per step of decoding, dumping and releasing.                   *)
LEMMA LeakNext ==
    IInv /\ OwnInv /\ FreeInv /\ LeakInv /\ [FreeNext]_allVars => LeakInv'
<1> SUFFICES ASSUME IInv, OwnInv, FreeInv, LeakInv, [FreeNext]_allVars
             PROVE  LeakInv'
  OBVIOUS
<1>1. CASE Decoding
  <2>1. mode # "done" /\ (mode' = "done" => stack' = <<>>)
    BY <1>1 DEF Decoding, Next, NoDataLeft, OpenList, OpenDict, Open, DecodeInt,
                DecodeString, Invalid, ListLoop, ListItem, DictLoop, DictItem,
                Finish, Calling, Leave, Return
  <2>2. phase = "decode"
    BY <2>1 DEF FreeInv, FreeTypes
  <2>3. UNCHANGED freeVars /\ phase' = phase
    BY <1>1 DEF Decoding, dumpVars
  <2>. QED  BY <2>1, <2>2, <2>3, AsideKeepsLeak
<1>2. CASE DumpNext /\ UNCHANGED freeVars
  <2>1. UNCHANGED vars
    BY <1>2 DEF DumpNext, CallDump, DumpLeaf, DumpItem, DumpEntry, DumpEnd, Dumped
  <2>2. \/ phase' = phase
        \/ phase = "decode" /\ phase' = "dump" /\ mode = "done"
        \/ phase = "dump" /\ phase' = "dumped" /\ mode = "done"
    BY <1>2 DEF DumpNext, CallDump, DumpLeaf, DumpItem, DumpEntry, DumpEnd, Dumped,
                FreeInv, FreeTypes
  <2>. QED  BY <1>2, <2>1, <2>2, AsideKeepsLeak
<1>3. CASE CallFree
  BY <1>3, CallFreeKeepsLeak
<1>4. ASSUME phase = "free", frames # <<>>
      PROVE  /\ Current.node \in 1..Len(heap) /\ Current.next \in Nat
             /\ Current.next >= 1 /\ heap[Current.node] \in Node
             /\ heap[Current.node].l \in Seq(Nat)
             /\ heap[Current.node].d \in Seq(Entry)
             /\ heap[Current.node].type # "list" => heap[Current.node].l = <<>>
             /\ heap[Current.node].type # "dict" => heap[Current.node].d = <<>>
  <2>1. heap \in Seq(Node)
    BY Typed
  <2>2. /\ Current.node \in 1..Len(heap) /\ Current.next \in Nat
        /\ Current.next >= 1 /\ heap[Current.node] \in Node
    BY <1>4, <2>1, CurrentCall DEF FreeInv
  <2>. QED  BY <2>2 DEF OwnInv, ShapeInv, Node
<1>5. CASE FreeLeaf
  <2>1. /\ phase = "free" /\ frames # <<>> /\ Release
        /\ UNCHANGED <<heap, stack, mode, ret, keys, phase>>
        /\ heap[Current.node].type \in {"str", "int"}
    BY <1>5 DEF FreeLeaf, CurrentIs, vars, dumpVars
  <2>2. heap[Current.node].l = <<>> /\ heap[Current.node].d = <<>>
    BY <1>4, <2>1
  <2>3. DOMAIN heap[Current.node].l = {} /\ DOMAIN heap[Current.node].d = {}
    BY <2>2
  <2>. QED  BY <2>1, <2>3, ReleaseKeepsLeak
<1>6. CASE FreeContainer
  <2>1. /\ phase = "free" /\ frames # <<>> /\ Release
        /\ UNCHANGED <<heap, stack, mode, ret, keys, phase>>
        /\ ~ItemToFree(Current) /\ ~EntryToFree(Current)
    BY <1>6 DEF FreeContainer, CurrentIs, vars, dumpVars
  <2>2. PICK n \in Nat, x \in 1..Len(heap), l \in Seq(Nat), d \in Seq(Entry) :
          /\ n = Current.next /\ x = Current.node /\ l = heap[x].l /\ d = heap[x].d
          /\ n >= 1
    BY <1>4, <2>1
  <2>3. ~(n <= Len(l)) /\ ~(n <= Len(d) /\ d[n].val # NULL)
    BY <2>1, <2>2 DEF ItemToFree, EntryToFree
  <2>4. ASSUME NoNullEntry, NEW k \in Nat, k \in DOMAIN l \/ k \in DOMAIN d
        PROVE  k < n
    <3>1. n \in DOMAIN d => d[n].val # NULL
      BY <2>2, <2>4 DEF NoNullEntry
    <3>2. ~(n <= Len(d))
      BY <2>2, <2>3, <3>1
    <3>. QED  BY <2>3, <2>4, <3>2
  <2>. QED  BY <2>1, <2>2, <2>4, ReleaseKeepsLeak
<1>7. CASE FreeItem
  <2>1. /\ phase = "free" /\ frames # <<>> /\ ItemToFree(Current)
        /\ UNCHANGED <<heap, stack, mode, ret, freed, keys, phase>>
        /\ heap[Current.node].type = "list"
        /\ Descend(heap[Current.node].l[Current.next])
    BY <1>7 DEF FreeItem, CurrentIs, vars, dumpVars
  <2>2. PICK l \in Seq(Nat) :
          l = heap[Current.node].l /\ DOMAIN heap[Current.node].d = {}
    BY <1>4, <2>1
  <2>3. Current.next \in 1..Len(l)
    BY <1>4, <2>1, <2>2 DEF ItemToFree
  <2>4. PICK c \in Nat : c = l[Current.next]
    BY <2>3, ElementOfSeq
  <2>5. \A q \in Nat : Refers(heap, Current.node, Current.next, q) => q = c
    BY <2>2, <2>4 DEF Refers
  <2>. QED  BY <2>1, <2>2, <2>4, <2>5, DescendKeepsLeak
<1>8. CASE FreeEntry
  <2>1. /\ phase = "free" /\ frames # <<>> /\ EntryToFree(Current)
        /\ UNCHANGED <<heap, stack, mode, ret, freed, phase>>
        /\ keys' = keys \cup {<<Current.node, Current.next>>}
        /\ heap[Current.node].type = "dict"
        /\ Descend(heap[Current.node].d[Current.next].val)
    BY <1>8 DEF FreeEntry, CurrentIs, vars, dumpVars
  <2>2. PICK d \in Seq(Entry) :
          d = heap[Current.node].d /\ DOMAIN heap[Current.node].l = {}
    BY <1>4, <2>1
  <2>3. Current.next \in 1..Len(d) /\ DOMAIN d = 1..Len(d)
    BY <1>4, <2>1, <2>2 DEF EntryToFree
  <2>4. d[Current.next] \in Entry
    BY <2>3, ElementOfSeq
  <2>5. PICK c \in Nat : c = d[Current.next].val
    BY <2>4 DEF Entry
  <2>6. \A q \in Nat : Refers(heap, Current.node, Current.next, q) => q = c
    BY <2>2, <2>5 DEF Refers
  <2>. QED  BY <2>1, <2>2, <2>3, <2>5, <2>6, DescendKeepsLeak
<1>9. CASE Released
  BY <1>9, AsideKeepsLeak DEF Released
<1>10. CASE UNCHANGED allVars
  BY <1>10, AsideKeepsLeak DEF allVars, dumpVars
<1>. QED
  BY <1>1, <1>2, <1>3, <1>5, <1>6, <1>7, <1>8, <1>9, <1>10 DEF FreeNext

(* Nothing is left when be_free has returned.  The oldest node not freed   *)
(* would be the root or have a pointer to it in an older one, which is     *)
(* freed and has been passed.                                              *)
LEMMA NothingIsLeft ==
    ASSUME IInv, TreeInv, OwnInv, FreeInv, LeakInv, phase = "released", NoNullEntry
    PROVE  \A c \in 1..Len(heap) : \E m \in 1..Len(freed) : freed[m] = c
<1>1. /\ mode = "done" /\ stack = <<>> /\ frames = <<>> /\ Complete
      /\ Len(frames) = 0 /\ Len(heap) \in Nat
  BY EmptySeq, Typed DEF FreeInv, FreeTypes, LeakInv
<1>2. \A q : Reached(freed, frames, q) => \E m \in 1..Len(freed) : freed[m] = q
  BY <1>1 DEF Reached
<1>. DEFINE Left == {c \in 1..Len(heap) : ~\E m \in 1..Len(freed) : freed[m] = c}
<1>3. SUFFICES ASSUME Left # {} PROVE FALSE
  OBVIOUS
<1>4. Left \subseteq Nat
  BY <1>1
<1>5. PICK c \in Left : \A y \in Left : c <= y
  <2>. HIDE DEF Left
  <2>. QED  BY <1>3, <1>4, MinOfNaturals
<1>6. c # ret
  <2>1. c # NULL
    BY <1>1 DEF NULL
  <2>. QED  BY <1>1, <1>2, <1>5, <2>1 DEF Complete
<1>7. PICK p \in 1..Len(heap), k \in Nat : Refers(heap, p, k, c)
  <2>1. c \in 1..Len(heap)
    OBVIOUS
  <2>2. Referenced(heap, c)
    BY <1>1, <1>6, <2>1, RestIsReferenced
  <2>. QED  BY <2>2 DEF Referenced, Unreferenced
<1>8. c \in Nat /\ p \in Nat /\ p < c
  <2>1. c \in Nat /\ p \in Nat
    BY <1>1
  <2>. QED  BY <1>7, <2>1 DEF TreeInv, Forest
<1>9. p \notin Left
  BY <1>5, <1>8
<1>10. PICK m \in 1..Len(freed) : freed[m] = p
  BY <1>9
<1>11. Reached(freed, frames, c)
  <2>1. Passed(freed, frames, p, k)
    BY <1>10 DEF Passed
  <2>. QED  BY <1>1, <1>7, <1>8, <2>1 DEF Complete, Covered
<1>. QED  BY <1>2, <1>11

(* Memory is lost only through a dictionary entry that ended up without a  *)
(* value: for every text, if there is none, be_free releases every node    *)
(* that the decoder allocated, and every key.                              *)
THEOREM LeaksAreNullEntries == FreeSpec => []LeaksOnlyThroughNullEntries
<1>. DEFINE AllInv == IInv /\ TreeInv /\ OwnInv /\ FreeInv /\ LeakInv
<1>1. FreeInit => AllInv
  <2> SUFFICES ASSUME FreeInit PROVE AllInv
    OBVIOUS
  <2>1. /\ Init /\ heap = <<>> /\ stack = <<>> /\ ret = NULL /\ phase = "decode"
        /\ frames = <<>> /\ freed = <<>> /\ keys = {} /\ mode = "call"
    BY DEF FreeInit, DumpInit, Init
  <2>2. Len(<<>>) = 0 /\ frames \in Seq(CallType) /\ freed \in Seq(Nat)
    BY <2>1, EmptySeq
  <2>3. TreeInv
    BY <2>1, <2>2 DEF TreeInv, Forest, StackApart, RetApart
  <2>4. OwnInv
    BY <2>1, <2>2 DEF OwnInv, ShapeInv, AwaitsValue, Owned
  <2>5. FreeInv /\ LeakInv
    BY <2>1, <2>2
       DEF FreeInv, FreeTypes, CallsDescend, FreedBehind, FreedApart, LeakInv
  <2>. QED  BY <2>1, <2>3, <2>4, <2>5, InitEstablishes
<1>2. AllInv /\ [FreeNext]_allVars => AllInv'
  <2> SUFFICES ASSUME AllInv, [FreeNext]_allVars PROVE AllInv'
    OBVIOUS
  <2>1. [Next]_vars
    BY DEF FreeNext, Decoding, DumpNext, CallDump, DumpLeaf, DumpItem, DumpEntry,
           DumpEnd, Dumped, CallFree, FreeLeaf, FreeItem, FreeEntry,
           FreeContainer, Released, allVars
  <2>. QED  BY <2>1, NextPreserves, TreeNext, OwnNext, FreeNextPreserves, LeakNext
<1>3. AllInv => LeaksOnlyThroughNullEntries
  <2> SUFFICES ASSUME AllInv, phase = "released",
                      \A p \in DOMAIN heap : \A k \in DOMAIN heap[p].d :
                          heap[p].d[k].val # NULL
               PROVE  /\ Range(freed) = DOMAIN heap
                      /\ keys = UNION {{p} \X (DOMAIN heap[p].d) : p \in DOMAIN heap}
    BY DEF LeaksOnlyThroughNullEntries
  <2>1. DOMAIN heap = 1..Len(heap) /\ DOMAIN freed = 1..Len(freed)
        /\ heap \in Seq(Node)
    BY Typed DEF FreeInv, FreeTypes
  <2>2. NoNullEntry
    BY <2>1 DEF NoNullEntry
  <2>3. \A c \in 1..Len(heap) : \E m \in 1..Len(freed) : freed[m] = c
    BY <2>2, NothingIsLeft
  <2>4. Range(freed) = DOMAIN heap
    BY <2>1, <2>3 DEF LeakInv, Range
  <2>5. Complete /\ keys \subseteq (1..Len(heap)) \X Nat
    BY <2>2 DEF LeakInv
  <2>6. ASSUME NEW p \in 1..Len(heap), NEW k \in Nat
        PROVE  <<p, k>> \in keys <=> k \in DOMAIN heap[p].d
    BY <2>3, <2>5 DEF Complete, KeysPassed, Passed
  <2>7. \A p \in 1..Len(heap) : DOMAIN heap[p].d \subseteq Nat
    <3>1. \A p \in 1..Len(heap) : heap[p] \in Node
      BY <2>1
    <3>. QED  BY <3>1 DEF Node
  <2>8. ASSUME NEW e
        PROVE  e \in keys
                 <=> e \in UNION {{p} \X (DOMAIN heap[p].d) : p \in 1..Len(heap)}
    <3>1. ASSUME e \in keys
          PROVE  e \in UNION {{p} \X (DOMAIN heap[p].d) : p \in 1..Len(heap)}
      <4>1. PICK p \in 1..Len(heap), k \in Nat : e = <<p, k>>
        BY <2>5, <3>1
      <4>2. e \in {p} \X (DOMAIN heap[p].d)
        BY <2>6, <3>1, <4>1
      <4>. QED  BY <4>2
    <3>2. ASSUME e \in UNION {{p} \X (DOMAIN heap[p].d) : p \in 1..Len(heap)}
          PROVE  e \in keys
      <4>1. PICK p \in 1..Len(heap) : e \in {p} \X (DOMAIN heap[p].d)
        BY <3>2
      <4>2. PICK k \in DOMAIN heap[p].d : e = <<p, k>>
        BY <4>1
      <4>. QED  BY <2>6, <2>7, <4>2
    <3>. QED  BY <3>1, <3>2
  <2>. QED  BY <2>1, <2>4, <2>8
<1>. QED  BY <1>1, <1>2, <1>3, PTL DEF FreeSpec

-----------------------------------------------------------------------------
(* be_dump and be_free show and release the same nodes: the paths that a   *)
(* walk over the tree has gone, and a walk that has come to its end.       *)

(* The loops of be_dump and be_free come to pointer k of node p if none    *)
(* before it ends the array.                                               *)
LiveAt(p, j) ==
    \/ j \in DOMAIN heap[p].l
    \/ j \in DOMAIN heap[p].d /\ heap[p].d[j].val # NULL
Leads(p, k, c) == Refers(heap, p, k, c) /\ \A j \in 1..k : LiveAt(p, j)

(* No active call has still to come to pointer k of node p.                *)
Behind(active, p, k) ==
    \A a \in 1..Len(active) : active[a].node = p => k < active[a].next

(* What a walk over the tree has visited, and where its calls are: V is    *)
(* what the pointers behind the calls lead to from the root, all of it and *)
(* nothing else.                                                           *)
Walk(V, active) ==
    /\ ret \in V /\ V \subseteq 1..Len(heap)
    /\ \A a \in 1..Len(active) :
          active[a].node \in V /\ active[a].next \in Nat /\ active[a].next >= 1
    /\ \A a, b \in 1..Len(active) : active[a].node = active[b].node => a = b
    /\ \A a \in 1..Len(active), j \in Nat :
          j >= 1 /\ j < active[a].next => LiveAt(active[a].node, j)
    /\ \A p \in V, k, c \in Nat : Leads(p, k, c) /\ Behind(active, p, k) => c \in V
    /\ \A c \in V : c = ret \/ \E p \in V, k \in Nat :
                                  Leads(p, k, c) /\ Behind(active, p, k)

(* The innermost call of u moves on by one and calls for c.                *)
Down(u, t, c) ==
    /\ Len(t) = Len(u) + 1
    /\ \A a \in 1..Len(u) : a # Len(u) => t[a] = u[a]
    /\ t[Len(u)].node = u[Len(u)].node
    /\ t[Len(u)].next = u[Len(u)].next + 1
    /\ t[Len(u) + 1].node = c /\ t[Len(u) + 1].next = 1

(* The innermost call of u has returned.                                   *)
Up(u, t) == Len(t) = Len(u) - 1 /\ \A a \in 1..Len(t) : t[a] = u[a]

(* Pointers are counted from 1.                                            *)
LEMMA PointersFromOne ==
    ASSUME heap \in Seq(Node), NEW p \in 1..Len(heap), NEW k \in Nat,
           LiveAt(p, k) \/ \E c : Refers(heap, p, k, c)
    PROVE  k >= 1
<1>1. heap[p] \in Node
  OBVIOUS
<1>2. k \in DOMAIN heap[p].l \/ k \in DOMAIN heap[p].d
  BY DEF LiveAt, Refers
<1>. QED  BY <1>1, <1>2 DEF Node

(* The first call, for the root.                                           *)
LEMMA WalkStart ==
    ASSUME heap \in Seq(Node), ret \in 1..Len(heap), NEW t, Len(t) = 1,
           t[1].node = ret, t[1].next = 1
    PROVE  Walk({ret}, t)
<1>1. \A a \in 1..Len(t) : a = 1
  OBVIOUS
<1>2. \A p \in {ret}, k, c \in Nat : ~(Leads(p, k, c) /\ Behind(t, p, k))
  <2>1. ASSUME NEW k \in Nat, NEW c \in Nat, Leads(ret, k, c), Behind(t, ret, k)
        PROVE  FALSE
    <3>1. k >= 1
      BY <2>1, PointersFromOne DEF Leads
    <3>2. k < 1
      <4>1. 1 \in 1..Len(t)
        OBVIOUS
      <4>. QED  BY <2>1, <4>1 DEF Behind
    <3>. QED  BY <3>1, <3>2
  <2>. QED  BY <2>1
<1>. QED  BY <1>1, <1>2 DEF Walk

(* A call for what the next pointer leads to: a node not visited before.   *)
LEMMA WalkDown ==
    ASSUME IInv, TreeInv, mode = "done", ret # NULL,
           NEW V, NEW u, NEW t, NEW c \in Nat, NEW l \in Nat, l = Len(u), l >= 1,
           Walk(V, u), Down(u, t, c), LiveAt(u[l].node, u[l].next),
           \A q \in Nat : Refers(heap, u[l].node, u[l].next, q) <=> q = c
    PROVE  c \notin V /\ Walk(V \cup {c}, t)
<1>1. heap \in Seq(Node) /\ Len(heap) \in Nat /\ Unreferenced(heap, ret)
  BY Typed DEF TreeInv, RetApart
<1>2. /\ l \in 1..l /\ l + 1 \in 1..(l + 1) /\ l \in 1..(l + 1)
      /\ \A a \in 1..(l + 1) : a = l + 1 \/ a = l \/ (a \in 1..l /\ a # l)
      /\ \A a \in 1..l : a \in 1..(l + 1)
  OBVIOUS
<1>3. PICK x \in V, n \in Nat : x = u[l].node /\ n = u[l].next
  BY <1>2 DEF Walk
<1>4. x \in 1..Len(heap) /\ x \in Nat /\ LiveAt(x, n) /\ Refers(heap, x, n, c)
  BY <1>1, <1>3 DEF Walk
<1>5. n >= 1
  BY <1>1, <1>4, PointersFromOne
<1>6. x < c /\ c \in 1..Len(heap)
  BY <1>1, <1>4 DEF TreeInv, Forest
<1>7. /\ Len(t) = l + 1
      /\ \A a \in 1..l : a # l => t[a] = u[a]
      /\ t[l].node = x /\ t[l].next = n + 1
      /\ t[l + 1].node = c /\ t[l + 1].next = 1
  BY <1>3 DEF Down
<1>8. c \notin V
  <2>1. SUFFICES ASSUME c \in V PROVE FALSE
    OBVIOUS
  <2>2. c # ret
    BY <1>1, <1>4 DEF Unreferenced
  <2>3. PICK p \in V, k \in Nat : Leads(p, k, c) /\ Behind(u, p, k)
    BY <2>1, <2>2 DEF Walk
  <2>4. p = x /\ k = n
    <3>1. p \in 1..Len(heap) /\ Refers(heap, p, k, c)
      BY <2>3 DEF Walk, Leads
    <3>. QED  BY <1>4, <3>1 DEF TreeInv, Forest
  <2>5. n < n
    BY <1>2, <1>3, <2>3, <2>4, Zenon DEF Behind
  <2>. QED  BY <2>5
<1>9. \A a \in 1..(l + 1) :
         /\ a = l + 1 => t[a].node = c /\ t[a].next = 1
         /\ a = l => t[a].node = x /\ t[a].next = n + 1
         /\ a \in 1..l /\ a # l => t[a] = u[a]
  BY <1>7, Zenon
<1>10. \A a \in 1..(l + 1) :
          t[a].node \in V \cup {c} /\ t[a].next \in Nat /\ t[a].next >= 1
  <2>1. \A a \in 1..l : u[a].node \in V /\ u[a].next \in Nat /\ u[a].next >= 1
    BY DEF Walk
  <2>2. n + 1 \in Nat /\ 1 \in Nat /\ n + 1 >= 1 /\ 1 >= 1
    OBVIOUS
  <2>. QED  BY <1>2, <1>3, <1>9, <2>1, <2>2, Zenon
<1>11. ASSUME NEW a \in 1..(l + 1), NEW b \in 1..(l + 1), t[a].node = t[b].node
       PROVE  a = b
  <2>1. \A i \in 1..l : u[i].node \in V /\ t[i].node = u[i].node
    BY <1>2, <1>3, <1>9, Zenon DEF Walk
  <2>2. \A i, j \in 1..l : u[i].node = u[j].node => i = j
    BY DEF Walk
  <2>3. \A i \in 1..l : t[i].node # c /\ t[l + 1].node = c
    BY <1>7, <1>8, <2>1, Zenon
  <2>4. CASE a = l + 1
    <3>1. b \notin 1..l
      BY <1>11, <2>3, <2>4, Zenon
    <3>. QED  BY <1>2, <2>4, <3>1, Zenon
  <2>5. CASE b = l + 1
    <3>1. a \notin 1..l
      BY <1>11, <2>3, <2>5, Zenon
    <3>. QED  BY <1>2, <2>5, <3>1, Zenon
  <2>6. CASE a \in 1..l /\ b \in 1..l
    BY <1>11, <2>1, <2>2, <2>6, Zenon
  <2>. QED  BY <1>2, <2>4, <2>5, <2>6, Zenon
<1>12. ASSUME NEW a \in 1..(l + 1), NEW j \in Nat, j >= 1, j < t[a].next
       PROVE  LiveAt(t[a].node, j)
  <2>1. CASE a = l + 1
    <3>1. j < 1
      BY <1>7, <1>12, <2>1, Zenon
    <3>. QED  BY <1>12, <3>1
  <2>2. CASE a = l
    <3>1. j < n + 1 /\ t[a].node = x
      BY <1>7, <1>12, <2>2, Zenon
    <3>2. j < n \/ j = n
      BY <3>1
    <3>3. j < n => LiveAt(x, j)
      BY <1>2, <1>3, <1>12 DEF Walk
    <3>. QED  BY <1>4, <3>1, <3>2, <3>3, Zenon
  <2>3. CASE a \in 1..l /\ a # l
    <3>1. t[a] = u[a]
      BY <1>7, <2>3
    <3>. QED  BY <1>12, <2>3, <3>1 DEF Walk
  <2>. QED  BY <1>2, <2>1, <2>2, <2>3
<1>13. ASSUME NEW p \in V, NEW k \in Nat
       PROVE  Behind(t, p, k) <=> Behind(u, p, k) \/ (p = x /\ k = n)
  <2>1. p # c
    BY <1>8
  <2>2. k < n + 1 <=> k < n \/ k = n
    OBVIOUS
  <2>3. Behind(t, p, k) <=> \A a \in 1..l : u[a].node = p => k < t[a].next
    <3>1. \A a \in 1..l : t[a].node = u[a].node
      BY <1>2, <1>3, <1>9, Zenon
    <3>. QED  BY <1>2, <1>7, <2>1, <3>1, Zenon DEF Behind
  <2>4. CASE p = x
    <3>1. \A a \in 1..l : u[a].node = p => a = l
      BY <1>2, <1>3, <2>4 DEF Walk
    <3>2. Behind(t, p, k) <=> k < n + 1
      BY <1>2, <1>3, <1>7, <2>3, <2>4, <3>1, Zenon
    <3>3. Behind(u, p, k) <=> k < n
      BY <1>2, <1>3, <2>4, <3>1, Zenon DEF Behind
    <3>. QED  BY <2>2, <2>4, <3>2, <3>3, Zenon
  <2>5. CASE p # x
    <3>1. \A a \in 1..l : u[a].node = p => a # l /\ t[a] = u[a]
      BY <1>3, <1>7, <2>5, Zenon
    <3>. QED  BY <2>3, <2>5, <3>1, Zenon DEF Behind
  <2>. QED  BY <2>4, <2>5
<1>14. ASSUME NEW p \in V \cup {c}, NEW k \in Nat, NEW q \in Nat,
              Leads(p, k, q), Behind(t, p, k)
       PROVE  q \in V \cup {c}
  <2>1. CASE p \in V
    <3>1. Behind(u, p, k) \/ (p = x /\ k = n)
      BY <1>13, <1>14, <2>1
    <3>2. CASE p = x /\ k = n
      BY <1>3, <1>14, <3>2 DEF Leads
    <3>3. CASE Behind(u, p, k)
      BY <1>14, <2>1, <3>3 DEF Walk
    <3>. QED  BY <3>1, <3>2, <3>3
  <2>2. CASE p = c
    <3>1. k >= 1
      BY <1>1, <1>6, <1>14, <2>2, PointersFromOne DEF Leads
    <3>2. k < 1
      BY <1>2, <1>7, <1>14, <2>2, Zenon DEF Behind
    <3>. QED  BY <3>1, <3>2
  <2>. QED  BY <2>1, <2>2
<1>15. ASSUME NEW q \in V \cup {c}
       PROVE  q = ret \/ \E p \in V \cup {c}, k \in Nat :
                            Leads(p, k, q) /\ Behind(t, p, k)
  <2>1. CASE q \in V
    <3>1. q = ret \/ \E p \in V, k \in Nat : Leads(p, k, q) /\ Behind(u, p, k)
      BY <2>1 DEF Walk
    <3>. QED  BY <1>13, <3>1
  <2>2. CASE q = c
    <3>1. \A j \in 1..n : LiveAt(x, j)
      <4>1. \A j \in Nat : j >= 1 /\ j < n => LiveAt(x, j)
        BY <1>2, <1>3 DEF Walk
      <4>. QED  BY <1>4, <4>1
    <3>2. Leads(x, n, c) /\ Behind(t, x, n)
      BY <1>4, <1>13, <3>1 DEF Leads
    <3>. QED  BY <2>2, <3>2
  <2>. QED  BY <2>1, <2>2
<1>16. ret \in V \cup {c} /\ V \cup {c} \subseteq 1..Len(heap)
  BY <1>6 DEF Walk
<1>17. Walk(V \cup {c}, t)
  BY <1>7, <1>10, <1>11, <1>12, <1>14, <1>15, <1>16 DEF Walk
<1>. QED  BY <1>8, <1>17

(* A call returns when the next pointer would end the array.               *)
LEMMA WalkUp ==
    ASSUME NEW V, NEW u, NEW t, NEW l \in Nat, l = Len(u), l >= 1,
           Walk(V, u), Up(u, t), ~LiveAt(u[l].node, u[l].next)
    PROVE  Walk(V, t)
<1>1. PICK j \in Nat : j = l - 1
  OBVIOUS
<1>2. /\ Len(t) = j /\ l \in 1..l
      /\ \A a \in 1..j : t[a] = u[a] /\ a \in 1..l /\ a # l
      /\ \A a \in 1..l : a = l \/ a \in 1..j
  BY <1>1 DEF Up
<1>3. PICK x \in V, n \in Nat : x = u[l].node /\ n = u[l].next
  BY <1>2 DEF Walk
<1>4. ASSUME NEW p \in V, NEW k \in Nat, \A i \in 1..k : LiveAt(p, i)
      PROVE  Behind(t, p, k) <=> Behind(u, p, k)
  <2>1. CASE p = x
    <3>1. n >= 1
      BY <1>2, <1>3 DEF Walk
    <3>2. k < n
      BY <1>3, <1>4, <2>1, <3>1
    <3>3. \A a \in 1..l : u[a].node = p => a = l
      BY <1>2, <1>3, <2>1 DEF Walk
    <3>4. Behind(u, p, k)
      BY <1>3, <3>2, <3>3, Zenon DEF Behind
    <3>5. Behind(t, p, k)
      BY <1>2, <3>3, Zenon DEF Behind
    <3>. QED  BY <3>4, <3>5
  <2>2. CASE p # x
    BY <1>2, <1>3, <2>2, Zenon DEF Behind
  <2>. QED  BY <2>1, <2>2
<1>. QED  BY <1>2, <1>3, <1>4 DEF Walk, Leads

(* When all calls have returned, the tree itself says what was visited.    *)
LEMMA WalkEnd ==
    ASSUME Forest(heap), Len(heap) \in Nat, NEW V, NEW W,
           Walk(V, <<>>), Walk(W, <<>>)
    PROVE  V \subseteq W
<1>. DEFINE Left == {c \in V : c \notin W}
<1>1. SUFFICES ASSUME Left # {} PROVE FALSE
  OBVIOUS
<1>2. V \subseteq Nat /\ W \subseteq 1..Len(heap) /\ V \subseteq 1..Len(heap)
  BY DEF Walk
<1>3. PICK c \in Left : \A y \in Left : c <= y
  <2>1. Left \subseteq Nat
    BY <1>2
  <2>. HIDE DEF Left
  <2>. QED  BY <1>1, <2>1, MinOfNaturals
<1>4. c \in V /\ c \in Nat /\ c # ret
  BY <1>2, <1>3 DEF Walk
<1>5. PICK p \in V, k \in Nat : Leads(p, k, c)
  BY <1>4 DEF Walk
<1>6. p \in Nat /\ p < c
  BY <1>2, <1>4, <1>5 DEF Leads, Forest
<1>7. p \in W
  BY <1>2, <1>3, <1>4, <1>6
<1>8. Behind(<<>>, p, k)
  BY EmptySeq DEF Behind
<1>9. c \in W
  BY <1>4, <1>5, <1>7, <1>8 DEF Walk
<1>. QED  BY <1>3, <1>9

(* How a sequence of calls is shortened.                                   *)
LEMMA UpIsMade ==
    ASSUME NEW S, NEW u \in Seq(S), u # <<>>, NEW t, t = SubSeq(u, 1, Len(u) - 1)
    PROVE  t \in Seq(S) /\ Up(u, t)
<1>1. Len(u) \in Nat /\ Len(u) >= 1
  BY EmptySeq
<1>2. PICK j \in Int : j = Len(u) - 1
  BY <1>1
<1>3. t = SubSeq(u, 1, j)
  BY <1>2, Zenon
<1>4. \A a \in 1..j : u[a] \in S
  BY <1>1, <1>2, ElementOfSeq
<1>5. /\ t \in Seq(S)
      /\ Len(t) = (IF 1 <= j THEN j - 1 + 1 ELSE 0)
      /\ \A a \in 1..(j - 1 + 1) : t[a] = u[1 + a - 1]
  BY <1>3, <1>4, SubSeqProperties
<1>. QED  BY <1>1, <1>2, <1>5 DEF Up

(* What be_free has come to.                                               *)
Met == {c \in 1..Len(heap) : Reached(freed, frames, c)}

FreeWalk ==
    phase \in {"free", "released"} /\ ret # NULL => Walk(Met, frames)

(* The node of a call has a pointer at the counter exactly if its loop     *)
(* goes on.                                                                *)
LEMMA LoopGoesOn ==
    ASSUME heap \in Seq(Node), ShapeInv, NEW p \in 1..Len(heap), NEW n \in Nat, n >= 1
    PROVE  /\ LiveAt(p, n)
                <=> n <= Len(heap[p].l) \/ (n <= Len(heap[p].d) /\ heap[p].d[n].val # NULL)
           /\ heap[p].type \notin {"list", "dict"} => ~LiveAt(p, n)
           /\ \A q \in Nat : n <= Len(heap[p].l) =>
                  (Refers(heap, p, n, q) <=> q = heap[p].l[n])
           /\ n <= Len(heap[p].l) => heap[p].l[n] \in Nat
           /\ n <= Len(heap[p].d) => heap[p].d[n].val \in Nat
           /\ \A q \in Nat : n <= Len(heap[p].d) /\ heap[p].d[n].val # NULL =>
                  (Refers(heap, p, n, q) <=> q = heap[p].d[n].val)
<1>1. heap[p] \in Node
  OBVIOUS
<1>2. PICK l \in Seq(Nat), d \in Seq(Entry) : l = heap[p].l /\ d = heap[p].d
  BY <1>1 DEF Node
<1>3. /\ n \in DOMAIN l <=> n <= Len(l)
      /\ n \in DOMAIN d <=> n <= Len(d)
  OBVIOUS
<1>4. l = <<>> \/ d = <<>>
  BY <1>2 DEF ShapeInv
<1>5. ~(n <= Len(l)) \/ ~(n <= Len(d))
  BY <1>4, EmptySeq
<1>6. heap[p].type \notin {"list", "dict"} => ~(n <= Len(l)) /\ ~(n <= Len(d))
  BY <1>2, EmptySeq DEF ShapeInv
<1>7. n <= Len(l) => l[n] \in Nat
  BY <1>3, ElementOfSeq
<1>8. n <= Len(d) => d[n].val \in Nat
  <2>1. n <= Len(d) => d[n] \in Entry
    BY <1>3, ElementOfSeq
  <2>. QED  BY <2>1 DEF Entry
<1>9. LiveAt(p, n) <=> n <= Len(l) \/ (n <= Len(d) /\ d[n].val # NULL)
  BY <1>2, <1>3 DEF LiveAt
<1>10. \A q \in Nat : Refers(heap, p, n, q)
                        <=> \/ n <= Len(l) /\ l[n] = q
                            \/ n <= Len(d) /\ d[n].val = q /\ q # NULL
  BY <1>2, <1>3 DEF Refers
<1>. QED  BY <1>2, <1>5, <1>6, <1>7, <1>8, <1>9, <1>10

(* A step that leaves the tree alone leaves the paths in it alone.         *)
LEMMA WalkIsOnTree ==
    ASSUME UNCHANGED <<heap, ret>>,
           NEW V, V = {c \in 1..Len(heap) : Reached(freed', frames', c)},
           Walk(V, frames')
    PROVE  Walk(Met, frames)'
<1>1. Met' = V /\ heap' = heap /\ ret' = ret
  BY DEF Met
<1>. QED  BY <1>1 DEF Walk, Leads, LiveAt

(* be_free goes down a pointer that its loop comes to.                     *)
LEMMA FreeDown ==
    ASSUME IInv, TreeInv, OwnInv, FreeInv, FreeWalk, phase = "free", frames # <<>>,
           ret # NULL, NEW c \in Nat, Descend(c), UNCHANGED <<heap, ret, freed>>,
           LiveAt(Current.node, Current.next),
           \A q \in Nat : Refers(heap, Current.node, Current.next, q) <=> q = c
    PROVE  Walk(Met, frames)'
<1>1. /\ heap \in Seq(Node) /\ Len(heap) \in Nat
      /\ mode = "done" /\ frames \in Seq(CallType)
      /\ Walk(Met, frames)
  BY Typed DEF FreeInv, FreeTypes, FreeWalk
<1>2. /\ Len(frames) \in Nat /\ Len(frames) \in 1..Len(frames)
      /\ Current = frames[Len(frames)] /\ Current \in CallType
      /\ Current.node \in Nat /\ Current.next \in Nat /\ Current.next >= 1
  BY <1>1, CurrentCall DEF FreeInv
<1>3. PICK l \in Nat : l = Len(frames)
  BY <1>2
<1>4. PICK f \in CallType : f = frames[l] /\ f = Current
  BY <1>2, <1>3
<1>5. f.next \in Nat /\ f.next >= 1
  BY DEF CallType
<1>6. PICK g : g = [f EXCEPT !.next = f.next + 1]
  OBVIOUS
<1>7. g \in CallType /\ g.node = frames[l].node /\ g.next = frames[l].next + 1
  BY <1>4, <1>6, <1>5 DEF CallType
<1>8. PICK x : x = Call(c)
  OBVIOUS
<1>9. x \in CallType /\ x.node = c /\ x.next = 1
  BY <1>8 DEF Call, CallType
<1>10. PICK t : t = frames'
  OBVIOUS
<1>11. PICK u : u = [frames EXCEPT ![l] = g]
  OBVIOUS
<1>12. t = Append(u, x)
  BY <1>3, <1>4, <1>8, <1>10, <1>6, <1>11 DEF Descend
<1>13. l >= 1 /\ Down(frames, t, c)
  <2>1. /\ u \in Seq(CallType) /\ Len(u) = l /\ u[l] = g
        /\ \A a \in 1..l : a # l => u[a] = frames[a]
    BY <1>1, <1>2, <1>3, <1>7, <1>11, ExceptSeq
  <2>2. /\ Len(t) = l + 1 /\ t[l + 1] = x
        /\ \A a \in 1..l : t[a] = u[a]
    BY <1>9, <1>12, <2>1, AppendProperties
  <2>3. l >= 1 /\ l \in 1..l
    BY <1>2, <1>3
  <2>4. t[l] = g /\ \A a \in 1..l : a # l => t[a] = frames[a]
    BY <2>1, <2>2, <2>3
  <2>. QED  BY <1>3, <1>7, <1>9, <2>2, <2>3, <2>4 DEF Down
<1>14. Walk(Met \cup {c}, t)
  BY <1>1, <1>2, <1>3, <1>13, WalkDown
<1>15. Met \cup {c} = {q \in 1..Len(heap) : Reached(freed', t, q)}
  <2>1. \A q \in Nat : Reached(freed', t, q) <=> Reached(freed, frames, q) \/ q = c
    BY <1>1, <1>10, DescendPasses DEF FreeInv
  <2>2. c \in 1..Len(heap)
    BY <1>14 DEF Walk
  <2>3. \A q \in 1..Len(heap) : q \in Nat
    BY <1>1
  <2>. QED  BY <2>1, <2>2, <2>3 DEF Met
<1>. QED  BY <1>10, <1>14, <1>15, WalkIsOnTree

(* be_free is done with a node: its loops have come to the end.            *)
LEMMA FreeUp ==
    ASSUME IInv, FreeInv, FreeWalk, phase = "free", frames # <<>>, ret # NULL,
           Release, UNCHANGED <<heap, ret>>,
           ~LiveAt(Current.node, Current.next)
    PROVE  Walk(Met, frames)'
<1>1. /\ heap \in Seq(Node) /\ Len(heap) \in Nat
      /\ frames \in Seq(CallType) /\ Walk(Met, frames)
  BY Typed DEF FreeInv, FreeTypes, FreeWalk
<1>2. PICK l \in Nat : l = Len(frames) /\ l >= 1 /\ Current = frames[l]
  BY <1>1, CurrentCall DEF FreeInv
<1>3. PICK t : t = frames'
  OBVIOUS
<1>4. Up(frames, t)
  <2>1. t = SubSeq(frames, 1, Len(frames) - 1)
    BY <1>3 DEF Release
  <2>. QED  BY <1>1, <2>1, UpIsMade
<1>5. Walk(Met, t)
  BY <1>1, <1>2, <1>4, WalkUp
<1>6. Met = {q \in 1..Len(heap) : Reached(freed', t, q)}
  <2>1. \A q \in Nat : Reached(freed', t, q) <=> Reached(freed, frames, q)
    BY <1>1, <1>3, ReleasePasses DEF FreeInv
  <2>2. \A q \in 1..Len(heap) : q \in Nat
    BY <1>1
  <2>. QED  BY <2>1, <2>2 DEF Met
<1>. QED  BY <1>3, <1>5, <1>6, WalkIsOnTree

(* One case per step.                                                      *)
LEMMA FreeWalkNext ==
    IInv /\ TreeInv /\ OwnInv /\ FreeInv /\ FreeWalk /\ [FreeNext]_allVars => FreeWalk'
<1> SUFFICES ASSUME IInv, TreeInv, OwnInv, FreeInv, FreeWalk, [FreeNext]_allVars,
                    phase' \in {"free", "released"}, ret' # NULL
             PROVE  Walk(Met, frames)'
  BY DEF FreeWalk
<1>1. /\ heap \in Seq(Node) /\ Len(heap) \in Nat
      /\ ret \in Nat
  BY Typed
<1>2. CASE Decoding
  <2>1. mode # "done" /\ phase' = phase
    BY <1>2 DEF Decoding, Next, NoDataLeft, OpenList, OpenDict, Open, DecodeInt,
                DecodeString, Invalid, ListLoop, ListItem, DictLoop, DictItem,
                Finish, Calling, dumpVars
  <2>. QED  BY <2>1 DEF FreeInv, FreeTypes
<1>3. ASSUME UNCHANGED <<heap, ret, frames, freed>>, phase \in {"free", "released"}
      PROVE  Walk(Met, frames)'
  <2>1. Walk(Met, frames)
    BY <1>3 DEF FreeWalk
  <2>. QED  BY <1>3, <2>1, WalkIsOnTree DEF Met
<1>4. CASE DumpNext
  BY <1>4 DEF DumpNext, CallDump, DumpLeaf, DumpItem, DumpEntry, DumpEnd, Dumped,
              Dumping
<1>5. CASE CallFree
  <2>1. /\ frames' = <<Call(ret)>> /\ freed' = freed /\ freed = <<>>
        /\ UNCHANGED <<heap, ret>> /\ ret # NULL /\ Len(freed) = 0
    BY <1>5, EmptySeq DEF CallFree, vars, FreeInv, FreeTypes
  <2>2. PICK t : t = frames'
    OBVIOUS
  <2>3. Len(t) = 1 /\ t[1].node = ret /\ t[1].next = 1 /\ \A a \in 1..Len(t) : a = 1
        /\ 1 \in 1..Len(t)
    BY <2>1, <2>2 DEF Call
  <2>4. ret \in 1..Len(heap)
    BY <2>1, Typed DEF NULL
  <2>5. Walk({ret}, t)
    BY <1>1, <2>3, <2>4, WalkStart
  <2>6. {ret} = {q \in 1..Len(heap) : Reached(freed', t, q)}
    <3>1. \A q : Reached(freed', t, q) <=> q = ret
      BY <2>1, <2>3 DEF Reached
    <3>. QED  BY <2>4, <3>1
  <2>. QED  BY <2>1, <2>2, <2>5, <2>6, WalkIsOnTree
<1>6. ASSUME phase = "free", frames # <<>>
      PROVE  /\ Current.node \in 1..Len(heap)
             /\ Current.next \in Nat /\ Current.next >= 1
  BY <1>1, <1>6, CurrentCall DEF FreeInv
<1>7. CASE FreeLeaf \/ FreeContainer
  <2>1. /\ phase = "free" /\ frames # <<>> /\ Release /\ UNCHANGED <<heap, ret>>
        /\ \/ heap[Current.node].type \notin {"list", "dict"}
           \/ ~ItemToFree(Current) /\ ~EntryToFree(Current)
    BY <1>7 DEF FreeLeaf, FreeContainer, CurrentIs, vars
  <2>2. ~LiveAt(Current.node, Current.next)
    BY <1>1, <1>6, <2>1, LoopGoesOn DEF OwnInv, ItemToFree, EntryToFree
  <2>. QED  BY <2>1, <2>2, FreeUp
<1>8. CASE FreeItem
  <2>1. /\ phase = "free" /\ frames # <<>> /\ UNCHANGED <<heap, ret, freed>>
        /\ ItemToFree(Current)
        /\ Descend(heap[Current.node].l[Current.next])
    BY <1>8 DEF FreeItem, CurrentIs, vars
  <2>2. PICK c : c = heap[Current.node].l[Current.next]
    OBVIOUS
  <2>3. /\ c \in Nat /\ LiveAt(Current.node, Current.next)
        /\ \A q \in Nat : Refers(heap, Current.node, Current.next, q) <=> q = c
    BY <1>1, <1>6, <2>1, <2>2, LoopGoesOn DEF OwnInv, ItemToFree
  <2>. QED  BY <2>1, <2>2, <2>3, FreeDown
<1>9. CASE FreeEntry
  <2>1. /\ phase = "free" /\ frames # <<>> /\ UNCHANGED <<heap, ret, freed>>
        /\ EntryToFree(Current)
        /\ Descend(heap[Current.node].d[Current.next].val)
    BY <1>9 DEF FreeEntry, CurrentIs, vars
  <2>2. PICK c : c = heap[Current.node].d[Current.next].val
    OBVIOUS
  <2>3. /\ c \in Nat /\ LiveAt(Current.node, Current.next)
        /\ \A q \in Nat : Refers(heap, Current.node, Current.next, q) <=> q = c
    BY <1>1, <1>6, <2>1, <2>2, LoopGoesOn DEF OwnInv, EntryToFree
  <2>. QED  BY <2>1, <2>2, <2>3, FreeDown
<1>10. CASE Released
  <2>1. phase = "free" /\ UNCHANGED <<heap, ret, frames, freed>>
    BY <1>10 DEF Released, vars, freeVars
  <2>. QED  BY <1>3, <2>1
<1>11. CASE UNCHANGED allVars
  <2>1. phase' = phase /\ UNCHANGED <<heap, ret, frames, freed>>
    BY <1>11 DEF allVars, vars, dumpVars, freeVars
  <2>. QED  BY <1>3, <2>1
<1>. QED
  BY <1>2, <1>4, <1>5, <1>7, <1>8, <1>9, <1>10, <1>11 DEF FreeNext

DumpCall == [node: Nat, next: Nat \ {0}, indent: Nat]
LineType == [indent: Nat, node: Nat, part: {"begin", "end"}]

(* The nodes that a line begins or ends for.                               *)
Shown(lines, part) ==
    {c \in Nat : \E m \in 1..Len(lines) : lines[m].part = part /\ lines[m].node = c}

DumpTypes ==
    /\ calls \in Seq(DumpCall)
    /\ shown \in Seq(LineType)
    /\ phase = "decode" => shown = <<>>
    /\ phase # "dump" => calls = <<>>
    /\ phase = "dump" => shown # <<>>
    /\ shown # <<>> => ret # NULL

(* No node is shown twice.                                                 *)
BeginsOnce ==
    \A m, n \in 1..Len(shown) :
        /\ shown[m].part = "begin" /\ shown[n].part = "begin"
        /\ shown[m].node = shown[n].node
        => m = n

DumpWalk == shown # <<>> => Walk(Shown(shown, "begin"), calls)

(* A call is indented by the number of calls that it is made in, all for   *)
(* lists and dictionaries.                                                 *)
CallDepths ==
    \A a \in 1..Len(calls) :
        /\ calls[a].indent = a - 1
        /\ a < Len(calls) => heap[calls[a].node].type \in {"list", "dict"}

(* A list or dictionary is begun and not ended while its call is active.   *)
OpenWhileActive ==
    /\ Shown(shown, "end") \subseteq Shown(shown, "begin")
    /\ \A q \in 1..Len(heap) :
          heap[q].type \in {"list", "dict"} =>
              (q \in Shown(shown, "begin") /\ q \notin Shown(shown, "end")
                 <=> \E a \in 1..Len(calls) : calls[a].node = q)

(* The lists and dictionaries open at line n.                              *)
Above(h, lines, n) ==
    {m \in 1..n :
        /\ lines[m].part = "begin"
        /\ lines[m].node # lines[n].node
        /\ h[lines[m].node].type \in {"list", "dict"}
        /\ \A k \in 1..n : lines[k].node = lines[m].node => lines[k].part = "begin"}

EndsAtDepth ==
    \A n \in 1..Len(shown) :
        shown[n].part = "end" => shown[n].indent = Cardinality(Above(heap, shown, n))

DumpInv ==
    /\ DumpTypes /\ BeginsOnce /\ DumpWalk /\ CallDepths /\ OpenWhileActive
    /\ EndsAtDepth

(* The innermost call of _be_dump, by its parts.                           *)
LEMMA InnerCall ==
    ASSUME DumpTypes, DumpWalk, phase = "dump", calls # <<>>, heap \in Seq(Node)
    PROVE  /\ Len(calls) \in Nat /\ Len(calls) >= 1
           /\ Len(calls) \in 1..Len(calls)
           /\ Inner = calls[Len(calls)] /\ Inner \in DumpCall
           /\ Inner.node \in 1..Len(heap) /\ Inner.node \in Nat
           /\ Inner.next \in Nat /\ Inner.next >= 1 /\ Inner.indent \in Nat
           /\ Inner.node \in Shown(shown, "begin")
<1>1. /\ calls \in Seq(DumpCall) /\ Len(calls) \in Nat /\ Len(heap) \in Nat
      /\ Walk(Shown(shown, "begin"), calls)
  BY DEF DumpTypes, DumpWalk
<1>2. /\ Len(calls) >= 1 /\ Len(calls) \in 1..Len(calls)
      /\ Inner = calls[Len(calls)]
  BY <1>1, EmptySeq DEF Inner
<1>3. Inner \in DumpCall
  BY <1>1, <1>2, ElementOfSeq
<1>4. Inner.node \in Shown(shown, "begin") /\ Inner.node \in 1..Len(heap)
  BY <1>1, <1>2 DEF Walk
<1>. QED  BY <1>1, <1>2, <1>3, <1>4 DEF DumpCall

(* A line more.                                                            *)
LEMMA ShowsOneMore ==
    ASSUME NEW u \in Seq(LineType), NEW x \in LineType
    PROVE  /\ Append(u, x) # <<>>
           /\ Shown(Append(u, x), x.part) = Shown(u, x.part) \cup {x.node}
           /\ \A part : part # x.part => Shown(Append(u, x), part) = Shown(u, part)
<1>. PICK N \in Nat : N = Len(u)
  OBVIOUS
<1>. PICK s : s = Append(u, x)
  OBVIOUS
<1>1. /\ s \in Seq(LineType) /\ Len(s) = N + 1 /\ s[N + 1] = x
      /\ \A m \in 1..N : s[m] = u[m]
  BY AppendProperties
<1>2. /\ N + 1 \in 1..(N + 1)
      /\ \A m \in 1..N : m \in 1..(N + 1)
      /\ \A m \in 1..(N + 1) : m = N + 1 \/ m \in 1..N
  OBVIOUS
<1>3. x.node \in Nat
  BY DEF LineType
<1>4. ASSUME NEW part, NEW c \in Nat
      PROVE  (\E m \in 1..Len(s) : s[m].part = part /\ s[m].node = c)
               <=> \/ \E m \in 1..Len(u) : u[m].part = part /\ u[m].node = c
                   \/ x.part = part /\ x.node = c
  <2>1. ASSUME NEW m \in 1..Len(s), s[m].part = part, s[m].node = c
        PROVE  \/ \E i \in 1..N : u[i].part = part /\ u[i].node = c
               \/ x.part = part /\ x.node = c
    BY <1>1, <1>2, <2>1, Zenon
  <2>2. ASSUME NEW m \in 1..N, u[m].part = part, u[m].node = c
        PROVE  \E i \in 1..Len(s) : s[i].part = part /\ s[i].node = c
    BY <1>1, <1>2, <2>2, Zenon
  <2>3. ASSUME x.part = part, x.node = c
        PROVE  \E i \in 1..Len(s) : s[i].part = part /\ s[i].node = c
    BY <1>1, <1>2, <2>3, Zenon
  <2>. QED  BY <2>1, <2>2, <2>3, Zenon
<1>5. s # <<>>
  BY <1>1, EmptySeq
<1>6. Shown(s, x.part) = Shown(u, x.part) \cup {x.node}
  BY <1>3, <1>4 DEF Shown
<1>7. ASSUME NEW part, part # x.part PROVE Shown(s, part) = Shown(u, part)
  BY <1>4, <1>7 DEF Shown
<1>. QED  BY <1>1, <1>5, <1>6, <1>7

(* The lines before it keep what is open at them.                          *)
LEMMA DepthsStay ==
    ASSUME EndsAtDepth, heap' = heap, NEW N \in Nat, N = Len(shown),
           NEW s, s = shown', Len(s) = N + 1, \A m \in 1..N : s[m] = shown[m],
           s[N + 1].part = "end" =>
               s[N + 1].indent = Cardinality(Above(heap, s, N + 1))
    PROVE  EndsAtDepth'
<1>1. ASSUME NEW n \in 1..N PROVE Above(heap, s, n) = Above(heap, shown, n)
  <2>1. \A m \in 1..n : m \in 1..N /\ n \in 1..N
    OBVIOUS
  <2>2. \A m \in 1..n : s[m] = shown[m] /\ s[n] = shown[n]
    BY <2>1
  <2>. QED  BY <2>2 DEF Above
<1>2. \A n \in 1..(N + 1) : n \in 1..N \/ n = N + 1
  OBVIOUS
<1>3. ASSUME NEW n \in 1..(N + 1), s[n].part = "end"
      PROVE  s[n].indent = Cardinality(Above(heap, s, n))
  <2>1. CASE n = N + 1
    BY <1>3, <2>1
  <2>2. CASE n \in 1..N
    <3>1. s[n] = shown[n] /\ n \in 1..Len(shown)
      BY <2>2
    <3>2. shown[n].indent = Cardinality(Above(heap, shown, n))
      BY <1>3, <3>1, Zenon DEF EndsAtDepth
    <3>. QED  BY <1>1, <2>2, <3>1, <3>2, Zenon
  <2>. QED  BY <1>2, <2>1, <2>2
<1>. QED  BY <1>3 DEF EndsAtDepth

(* The new first line begins for a node that has none yet.                 *)
LEMMA BeginsStay ==
    ASSUME BeginsOnce, shown \in Seq(LineType), NEW N \in Nat, N = Len(shown),
           NEW s, s = shown', Len(s) = N + 1, \A m \in 1..N : s[m] = shown[m],
           s[N + 1].part = "begin" => s[N + 1].node \notin Shown(shown, "begin")
    PROVE  BeginsOnce'
<1>1. \A n \in 1..(N + 1) : n \in 1..N \/ n = N + 1
  OBVIOUS
<1>2. ASSUME NEW m \in 1..N, s[m].part = "begin", s[N + 1].part = "begin"
      PROVE  s[m].node # s[N + 1].node
  <2>1. s[m] = shown[m] /\ m \in 1..Len(shown) /\ shown[m] \in LineType
    BY ElementOfSeq
  <2>2. shown[m].node \in Shown(shown, "begin")
    BY <1>2, <2>1 DEF Shown, LineType
  <2>. QED  BY <1>2, <2>1, <2>2
<1>3. ASSUME NEW m \in 1..(N + 1), NEW n \in 1..(N + 1),
             s[m].part = "begin", s[n].part = "begin", s[m].node = s[n].node
      PROVE  m = n
  <2>1. m \in 1..N /\ n \in 1..N => s[m] = shown[m] /\ s[n] = shown[n]
    OBVIOUS
  <2>. QED  BY <1>1, <1>2, <1>3, <2>1 DEF BeginsOnce
<1>. QED  BY <1>3 DEF BeginsOnce

(* What is open at the last line is what calls are active for.             *)
LEMMA DepthIsCounted ==
    ASSUME DumpInv, phase = "dump", heap \in Seq(Node), calls # <<>>,
           heap[Inner.node].type \in {"list", "dict"},
           NEW s, Len(s) = Len(shown) + 1,
           \A m \in 1..Len(shown) : s[m] = shown[m],
           s[Len(shown) + 1].part = "end",
           s[Len(shown) + 1].node = Inner.node
    PROVE  Cardinality(Above(heap, s, Len(shown) + 1)) = Len(calls) - 1
<1>. PICK l \in Nat : l = Len(calls) /\ l >= 1 /\ Inner = calls[l]
  BY InnerCall DEF DumpInv
<1>. PICK N \in Nat : N = Len(shown)
  BY DEF DumpInv, DumpTypes
<1>0. /\ Len(s) = N + 1 /\ \A m \in 1..N : s[m] = shown[m]
      /\ s[N + 1].part = "end" /\ s[N + 1].node = calls[l].node
      /\ heap[calls[l].node].type \in {"list", "dict"}
  OBVIOUS
<1>1. PICK j \in Nat : j = l - 1
  OBVIOUS
<1>2. /\ Walk(Shown(shown, "begin"), calls)
      /\ shown \in Seq(LineType) /\ Len(heap) \in Nat
  BY DEF DumpInv, DumpTypes, DumpWalk
<1>3. /\ \A a \in 1..j : a \in 1..l /\ a < l /\ a # l
      /\ \A a \in 1..l : a \in 1..j \/ a = l
      /\ l \in 1..l
      /\ \A m \in 1..N : m \in 1..(N + 1)
      /\ \A m \in 1..(N + 1) : m \in 1..N \/ m = N + 1
  BY <1>1
<1>4. ASSUME NEW a \in 1..j
      PROVE  /\ \E m \in 1..N : shown[m].part = "begin" /\ shown[m].node = calls[a].node
             /\ calls[a].node \in 1..Len(heap) /\ calls[a].node # calls[l].node
             /\ heap[calls[a].node].type \in {"list", "dict"}
             /\ calls[a].node \notin Shown(shown, "end")
  <2>1. calls[a].node \in Shown(shown, "begin") /\ calls[a].node \in 1..Len(heap)
    BY <1>2, <1>3 DEF Walk
  <2>2. calls[a].node # calls[l].node
    BY <1>2, <1>3 DEF Walk
  <2>3. heap[calls[a].node].type \in {"list", "dict"}
    BY <1>3 DEF DumpInv, CallDepths
  <2>4. calls[a].node \notin Shown(shown, "end")
    BY <1>3, <2>1, <2>3 DEF DumpInv, OpenWhileActive
  <2>. QED  BY <2>1, <2>2, <2>3, <2>4 DEF Shown
<1>. DEFINE S       == Above(heap, s, N + 1)
            line(a) == CHOOSE m \in 1..N : /\ shown[m].part = "begin"
                                           /\ shown[m].node = calls[a].node
            f       == [a \in 1..j |-> line(a)]
<1>5. ASSUME NEW a \in 1..j
      PROVE  /\ line(a) \in 1..N /\ shown[line(a)].part = "begin"
             /\ shown[line(a)].node = calls[a].node
  BY <1>4
<1>6. ASSUME NEW a \in 1..j PROVE line(a) \in S
  <2>1. PICK m \in 1..N : /\ m = line(a) /\ shown[m].part = "begin"
                          /\ shown[m].node = calls[a].node
    BY <1>5
  <2>2. s[m] = shown[m] /\ m \in 1..(N + 1)
    BY <1>3
  <2>3. ASSUME NEW k \in 1..(N + 1), s[k].node = s[m].node PROVE s[k].part = "begin"
    <3>1. k # N + 1
      <4>1. s[N + 1].node # s[m].node
        BY <1>4, <2>1, <2>2
      <4>. QED  BY <2>3, <4>1
    <3>2. k \in 1..N /\ s[k] = shown[k] /\ shown[k] \in LineType
      BY <1>2, <1>3, <3>1, ElementOfSeq
    <3>3. shown[k].part # "end"
      <4>1. shown[k].node = calls[a].node /\ shown[k].node \in Nat
        BY <2>1, <2>2, <2>3, <3>2 DEF LineType
      <4>. QED  BY <1>4, <3>2, <4>1 DEF Shown
    <3>. QED  BY <3>2, <3>3 DEF LineType
  <2>4. s[m].node # s[N + 1].node /\ heap[s[m].node].type \in {"list", "dict"}
    BY <1>4, <2>1, <2>2, Zenon
  <2>5. m \in S
    BY <2>1, <2>2, <2>3, <2>4 DEF Above
  <2>. QED  BY <2>1, <2>5
<1>7. ASSUME NEW m \in S PROVE \E a \in 1..j : line(a) = m
  <2>1. /\ m \in 1..(N + 1) /\ s[m].part = "begin" /\ s[m].node # s[N + 1].node
        /\ heap[s[m].node].type \in {"list", "dict"}
        /\ \A k \in 1..(N + 1) : s[k].node = s[m].node => s[k].part = "begin"
    BY DEF Above
  <2>2. m \in 1..N /\ s[m] = shown[m] /\ shown[m] \in LineType
    BY <1>2, <1>3, <2>1, ElementOfSeq
  <2>3. PICK q \in Nat : q = shown[m].node
    BY <2>2 DEF LineType
  <2>4. q \in Shown(shown, "begin") /\ q \in 1..Len(heap)
    <3>1. q \in Shown(shown, "begin")
      BY <2>1, <2>2, <2>3 DEF Shown
    <3>. QED  BY <1>2, <3>1 DEF Walk
  <2>5. q \notin Shown(shown, "end")
    <3>1. ASSUME NEW k \in 1..N, shown[k].node = q PROVE shown[k].part = "begin"
      BY <1>3, <2>1, <2>2, <2>3, <3>1
    <3>. QED  BY <3>1 DEF Shown
  <2>6. PICK a \in 1..l : calls[a].node = q
    BY <2>1, <2>2, <2>3, <2>4, <2>5 DEF DumpInv, OpenWhileActive
  <2>7. a \in 1..j
    BY <1>3, <2>1, <2>2, <2>3, <2>6
  <2>8. line(a) = m
    BY <1>5, <2>1, <2>2, <2>3, <2>6, <2>7 DEF DumpInv, BeginsOnce
  <2>. QED  BY <2>7, <2>8
<1>8. ASSUME NEW a \in 1..j, NEW b \in 1..j, line(a) = line(b) PROVE a = b
  <2>1. calls[a].node = calls[b].node
    BY <1>5, <1>8
  <2>. QED  BY <1>2, <1>3, <2>1 DEF Walk
<1>9. f \in Bijection(1..j, S)
  <2>1. f \in [1..j -> S] /\ \A a \in 1..j : f[a] = line(a)
    BY <1>6
  <2>. HIDE DEF f, line, S
  <2>2. \A a, b \in 1..j : f[a] = f[b] => a = b
    BY <1>8, <2>1
  <2>3. \A m \in S : \E a \in 1..j : f[a] = m
    BY <1>7, <2>1
  <2>. QED  BY <2>1, <2>2, <2>3, Zenon
           DEF Bijection, Injection, Surjection, IsInjective
<1>10. Cardinality(S) = j
  <2>. HIDE DEF f, S
  <2>1. ExistsBijection(1..j, S)
    BY <1>9 DEF ExistsBijection
  <2>. QED  BY <2>1, FS_CountingElements
<1>. QED  BY <1>1, <1>10

(* A step that leaves the tree alone leaves the paths in it alone.         *)
LEMMA DumpIsOnTree ==
    ASSUME UNCHANGED <<heap, ret>>, Walk(Shown(shown', "begin"), calls')
    PROVE  DumpWalk'
<1>1. heap' = heap /\ ret' = ret
  OBVIOUS
<1>. QED  BY <1>1 DEF DumpWalk, Walk, Leads, LiveAt

(* _be_dump goes down a pointer that its loop comes to.                    *)
LEMMA DumpDown ==
    ASSUME IInv, TreeInv, DumpInv, mode = "done", phase = "dump", calls # <<>>,
           UNCHANGED <<heap, ret, phase>>,
           NEW c \in Nat, NEW i \in Int, abs(i) = Inner.indent + 1, Enter(c, i),
           LiveAt(Inner.node, Inner.next),
           heap[Inner.node].type \in {"list", "dict"},
           \A q \in Nat : Refers(heap, Inner.node, Inner.next, q) <=> q = c
    PROVE  DumpInv'
<1>1. /\ heap \in Seq(Node) /\ Len(heap) \in Nat
      /\ calls \in Seq(DumpCall) /\ shown \in Seq(LineType)
      /\ Walk(Shown(shown, "begin"), calls) /\ ret # NULL /\ shown # <<>>
  BY Typed DEF DumpInv, DumpTypes, DumpWalk
<1>2. PICK l \in Nat : l = Len(calls) /\ l >= 1 /\ l \in 1..l /\ Inner = calls[l]
  BY <1>1, InnerCall DEF DumpInv
<1>3. /\ Inner \in DumpCall /\ Inner.node \in 1..Len(heap)
      /\ Inner.next \in Nat /\ Inner.indent \in Nat
  BY <1>1, InnerCall DEF DumpInv
<1>4. PICK f \in DumpCall : f = calls[l] /\ f = Inner
  BY <1>2, <1>3
<1>5. f.node \in Nat /\ f.next \in Nat /\ f.next >= 1 /\ f.indent \in Nat
  BY DEF DumpCall
<1>6. PICK g : g = [f EXCEPT !.next = f.next + 1]
  OBVIOUS
<1>7. /\ g \in DumpCall /\ g.node = f.node /\ g.next = f.next + 1
      /\ g.indent = f.indent
  BY <1>5, <1>6 DEF DumpCall
<1>8. PICK x : x = Begin(c, i)
  OBVIOUS
<1>9. x \in DumpCall /\ x.node = c /\ x.next = 1 /\ x.indent = f.indent + 1
  <2>1. x = [node |-> c, next |-> 1, indent |-> f.indent + 1]
    BY <1>4, <1>8 DEF Begin
  <2>. QED  BY <1>5, <2>1 DEF DumpCall
<1>10. PICK u : u = [calls EXCEPT ![l] = g]
  OBVIOUS
<1>11. PICK t : t = calls'
  OBVIOUS
<1>12. t = Append(u, x)
  BY <1>2, <1>4, <1>6, <1>8, <1>10, <1>11 DEF Enter
<1>13. /\ u \in Seq(DumpCall) /\ Len(u) = l /\ u[l] = g
       /\ \A a \in 1..l : a # l => u[a] = calls[a]
  BY <1>1, <1>2, <1>7, <1>10, ExceptSeq
<1>14. /\ t \in Seq(DumpCall) /\ Len(t) = l + 1 /\ t[l + 1] = x
       /\ \A a \in 1..l : t[a] = u[a]
  BY <1>9, <1>12, <1>13, AppendProperties
<1>15. t[l] = g /\ \A a \in 1..l : a # l => t[a] = calls[a]
  BY <1>2, <1>13, <1>14
<1>16. Down(calls, t, c)
  BY <1>2, <1>4, <1>7, <1>9, <1>14, <1>15 DEF Down
<1>17. /\ c \notin Shown(shown, "begin")
       /\ Walk(Shown(shown, "begin") \cup {c}, t)
  BY <1>1, <1>2, <1>16, WalkDown
<1>18. PICK y : y = Line(i, c, "begin")
  OBVIOUS
<1>19. y \in LineType /\ y.node = c /\ y.part = "begin"
  BY <1>18 DEF Line, LineType
<1>20. PICK N \in Nat : N = Len(shown)
  BY <1>1
<1>21. PICK s : s = shown'
  OBVIOUS
<1>22. s = Append(shown, y)
  BY <1>18, <1>21 DEF Enter
<1>23. /\ s \in Seq(LineType) /\ Len(s) = N + 1 /\ s[N + 1] = y /\ s # <<>>
       /\ \A m \in 1..N : s[m] = shown[m]
       /\ Shown(s, "begin") = Shown(shown, "begin") \cup {c}
       /\ Shown(s, "end") = Shown(shown, "end")
  <2>1. /\ s \in Seq(LineType) /\ Len(s) = N + 1 /\ s[N + 1] = y
        /\ \A m \in 1..N : s[m] = shown[m]
    BY <1>1, <1>19, <1>20, <1>22, AppendProperties
  <2>3. /\ s # <<>>
        /\ Shown(s, y.part) = Shown(shown, y.part) \cup {y.node}
        /\ \A part : part # y.part => Shown(s, part) = Shown(shown, part)
    BY <1>1, <1>19, <1>22, ShowsOneMore, Zenon
  <2>2. "end" # "begin"
    OBVIOUS
  <2>. QED  BY <1>19, <2>1, <2>2, <2>3, Zenon
<1>24. DumpTypes'
  BY <1>1, <1>11, <1>14, <1>21, <1>23 DEF DumpTypes
<1>25. BeginsOnce'
  BY <1>1, <1>17, <1>19, <1>20, <1>21, <1>23, BeginsStay DEF DumpInv
<1>26. EndsAtDepth'
  BY <1>19, <1>20, <1>21, <1>23, DepthsStay DEF DumpInv
<1>27. DumpWalk'
  BY <1>11, <1>17, <1>21, <1>23, DumpIsOnTree
<1>28. /\ l \in 1..(l + 1) /\ l + 1 \in 1..(l + 1)
       /\ \A a \in 1..l : a \in 1..(l + 1)
       /\ \A a \in 1..(l + 1) : a = l + 1 \/ a = l \/ (a \in 1..l /\ a # l)
       /\ \A a \in 1..l : a # l => a < l
  BY <1>2
<1>29. CallDepths'
  <2>1. \A a \in 1..l : calls[a].indent = a - 1
    BY <1>2 DEF DumpInv, CallDepths
  <2>2. \A a \in 1..l : a # l => heap[calls[a].node].type \in {"list", "dict"}
    BY <1>2, <1>28 DEF DumpInv, CallDepths
  <2>3. \A a \in 1..l : t[a].indent = a - 1
    <3>1. f.indent = l - 1 /\ g.indent = f.indent
      BY <1>2, <1>4, <1>7, <2>1
    <3>. QED  BY <1>15, <2>1, <3>1
  <2>4. t[l + 1].indent = (l + 1) - 1
    <3>1. f.indent = l - 1
      BY <1>2, <1>4, <2>1
    <3>2. x.indent = (l - 1) + 1
      BY <1>9, <3>1, Zenon
    <3>3. (l - 1) + 1 = (l + 1) - 1
      OBVIOUS
    <3>. QED  BY <1>14, <3>2, <3>3, Zenon
  <2>5. ASSUME NEW a \in 1..(l + 1) PROVE t[a].indent = a - 1
    <3>1. CASE a = l + 1
      BY <2>4, <3>1, Zenon
    <3>2. CASE a \in 1..l
      BY <2>3, <3>2, Zenon
    <3>3. a = l + 1 \/ a \in 1..l
      OBVIOUS
    <3>. QED  BY <3>1, <3>2, <3>3, Zenon
  <2>6. \A a \in 1..l : heap[t[a].node].type \in {"list", "dict"}
    BY <1>2, <1>4, <1>7, <1>15, <2>2, Zenon
  <2>7. \A a \in 1..(l + 1) : a < l + 1 => a \in 1..l
    OBVIOUS
  <2>. QED  BY <1>11, <1>14, <2>5, <2>6, <2>7 DEF CallDepths
<1>30. OpenWhileActive'
  <2>1. \A q : (\E a \in 1..(l + 1) : t[a].node = q)
                 <=> (\E a \in 1..l : calls[a].node = q) \/ q = c
    <3>1. \A a \in 1..l : t[a].node = calls[a].node
      BY <1>2, <1>4, <1>7, <1>15, Zenon
    <3>2. \A a \in 1..(l + 1) : a = l + 1 \/ a \in 1..l
      OBVIOUS
    <3>. QED  BY <1>9, <1>14, <1>28, <3>1, <3>2, Zenon
  <2>2. Shown(shown, "end") \subseteq Shown(shown, "begin")
    BY DEF DumpInv, OpenWhileActive
  <2>3. ASSUME NEW q \in 1..Len(heap), heap[q].type \in {"list", "dict"}
        PROVE  q \in Shown(s, "begin") /\ q \notin Shown(s, "end")
                 <=> \E a \in 1..Len(t) : t[a].node = q
    <3>1. q \in Shown(shown, "begin") /\ q \notin Shown(shown, "end")
            <=> \E a \in 1..l : calls[a].node = q
      BY <1>2, <2>3 DEF DumpInv, OpenWhileActive
    <3>. QED  BY <1>14, <1>17, <1>23, <2>1, <2>2, <3>1
  <2>. QED  BY <1>11, <1>21, <1>23, <2>2, <2>3 DEF OpenWhileActive
<1>. QED  BY <1>24, <1>25, <1>26, <1>27, <1>29, <1>30 DEF DumpInv

(* _be_dump is done with a node: its loops have come to the end, and what  *)
(* ends with a line of its own is a list or dictionary.                    *)
LEMMA DumpUp ==
    ASSUME IInv, DumpInv, phase = "dump", calls # <<>>,
           UNCHANGED <<heap, ret, phase>>, Back,
           ~LiveAt(Inner.node, Inner.next),
           \/ /\ heap[Inner.node].type \notin {"list", "dict"}
              /\ shown' = shown
           \/ /\ heap[Inner.node].type \in {"list", "dict"}
              /\ shown' = Append(shown, Line(Inner.indent, Inner.node, "end"))
    PROVE  DumpInv'
<1>1. /\ heap \in Seq(Node) /\ Len(heap) \in Nat
      /\ calls \in Seq(DumpCall) /\ shown \in Seq(LineType)
      /\ Walk(Shown(shown, "begin"), calls) /\ ret # NULL /\ shown # <<>>
  BY Typed DEF DumpInv, DumpTypes, DumpWalk
<1>2. PICK l \in Nat : l = Len(calls) /\ l >= 1 /\ l \in 1..l /\ Inner = calls[l]
  BY <1>1, InnerCall DEF DumpInv
<1>3. /\ Inner.node \in 1..Len(heap) /\ Inner.node \in Nat
      /\ Inner.next \in Nat /\ Inner.indent \in Nat
      /\ Inner.node \in Shown(shown, "begin")
  BY <1>1, InnerCall DEF DumpInv
<1>4. PICK q0 \in 1..Len(heap) : q0 = Inner.node /\ q0 = calls[l].node /\ q0 \in Nat
  BY <1>2, <1>3
<1>5. PICK t : t = calls'
  OBVIOUS
<1>6. t \in Seq(DumpCall) /\ Up(calls, t)
  <2>1. t = SubSeq(calls, 1, Len(calls) - 1)
    BY <1>5 DEF Back
  <2>. QED  BY <1>1, <2>1, UpIsMade
<1>7. PICK j \in Nat : j = l - 1
  BY <1>2
<1>8. /\ Len(t) = j /\ \A a \in 1..j : t[a] = calls[a]
      /\ \A a \in 1..j : a \in 1..l /\ a # l /\ a < l
      /\ \A a \in 1..l : a \in 1..j \/ a = l
  BY <1>2, <1>6, <1>7 DEF Up
<1>9. Walk(Shown(shown, "begin"), t)
  BY <1>1, <1>2, <1>6, WalkUp
<1>10. CallDepths'
  <2>1. ASSUME NEW a \in 1..j
        PROVE  t[a].indent = a - 1 /\ heap[t[a].node].type \in {"list", "dict"}
    BY <1>2, <1>8 DEF DumpInv, CallDepths
  <2>. QED  BY <1>5, <1>8, <2>1 DEF CallDepths
<1>11. ASSUME NEW q \in 1..Len(heap)
       PROVE  (\E a \in 1..j : t[a].node = q)
                <=> (\E a \in 1..l : calls[a].node = q) /\ q # q0
  <2>1. \A a, b \in 1..l : calls[a].node = calls[b].node => a = b
    BY <1>1, <1>2 DEF Walk
  <2>2. ASSUME NEW a \in 1..j, t[a].node = q
        PROVE  (\E b \in 1..l : calls[b].node = q) /\ q # q0
    BY <1>2, <1>4, <1>8, <2>1, <2>2, Zenon
  <2>3. ASSUME NEW a \in 1..l, calls[a].node = q, q # q0
        PROVE  \E b \in 1..j : t[b].node = q
    BY <1>4, <1>8, <2>3, Zenon
  <2>. QED  BY <2>2, <2>3, Zenon
<1>12. ASSUME NEW q \in 1..Len(heap), heap[q].type \in {"list", "dict"}
       PROVE  q \in Shown(shown, "begin") /\ q \notin Shown(shown, "end")
                <=> \E a \in 1..l : calls[a].node = q
  BY <1>2, <1>12 DEF DumpInv, OpenWhileActive
<1>13. CASE heap[q0].type \notin {"list", "dict"}
  <2>1. shown' = shown
    BY <1>4, <1>13
  <2>2. DumpTypes'
    BY <1>1, <1>5, <1>6, <2>1 DEF DumpTypes
  <2>3. BeginsOnce' /\ EndsAtDepth'
    BY <2>1 DEF DumpInv, BeginsOnce, EndsAtDepth
  <2>4. DumpWalk'
    BY <1>5, <1>9, <2>1, DumpIsOnTree
  <2>5. ASSUME NEW q \in 1..Len(heap), heap[q].type \in {"list", "dict"}
        PROVE  q \in Shown(shown, "begin") /\ q \notin Shown(shown, "end")
                 <=> \E a \in 1..j : t[a].node = q
    BY <1>11, <1>12, <1>13, <2>5
  <2>6. OpenWhileActive'
    BY <1>5, <1>8, <2>1, <2>5 DEF DumpInv, OpenWhileActive
  <2>. QED  BY <1>10, <2>2, <2>3, <2>4, <2>6 DEF DumpInv
<1>14. CASE heap[q0].type \in {"list", "dict"}
  <2>1. PICK y : y = Line(Inner.indent, q0, "end")
    OBVIOUS
  <2>2. Inner.indent = l - 1
    BY <1>2 DEF DumpInv, CallDepths
  <2>3. y \in LineType /\ y.node = q0 /\ y.part = "end" /\ y.indent = l - 1
    <3>1. y.indent = Inner.indent
      BY <1>3, <2>1 DEF Line
    <3>. QED  BY <1>3, <1>4, <2>1, <2>2, <3>1 DEF Line, LineType
  <2>4. PICK N \in Nat : N = Len(shown)
    BY <1>1
  <2>5. PICK s : s = shown'
    OBVIOUS
  <2>6. s = Append(shown, y)
    BY <1>4, <1>14, <2>1, <2>5
  <2>7. /\ s \in Seq(LineType) /\ Len(s) = N + 1 /\ s[N + 1] = y
        /\ \A m \in 1..N : s[m] = shown[m]
    BY <1>1, <2>3, <2>4, <2>6, AppendProperties
  <2>8. /\ s # <<>>
        /\ Shown(s, y.part) = Shown(shown, y.part) \cup {y.node}
        /\ \A part : part # y.part => Shown(s, part) = Shown(shown, part)
    BY <1>1, <2>3, <2>6, ShowsOneMore, Zenon
  <2>9. /\ Shown(s, "end") = Shown(shown, "end") \cup {q0}
        /\ Shown(s, "begin") = Shown(shown, "begin")
    <3>1. "end" # "begin"
      OBVIOUS
    <3>. QED  BY <2>3, <2>8, <3>1, Zenon
  <2>10. DumpTypes'
    BY <1>1, <1>5, <1>6, <2>5, <2>7, <2>8 DEF DumpTypes
  <2>11. BeginsOnce'
    BY <1>1, <2>3, <2>4, <2>5, <2>7, BeginsStay DEF DumpInv
  <2>12. Cardinality(Above(heap, s, N + 1)) = l - 1
    <3>1. /\ s[N + 1].part = "end" /\ s[N + 1].node = Inner.node
          /\ heap[Inner.node].type \in {"list", "dict"}
      BY <1>4, <1>14, <2>3, <2>7
    <3>. QED  BY <1>1, <1>2, <2>4, <2>7, <3>1, DepthIsCounted
  <2>13. EndsAtDepth'
    <3>1. s[N + 1].indent = Cardinality(Above(heap, s, N + 1))
      BY <2>3, <2>7, <2>12, Zenon
    <3>. QED  BY <2>4, <2>5, <2>7, <3>1, DepthsStay DEF DumpInv
  <2>14. DumpWalk'
    BY <1>5, <1>9, <2>5, <2>9, DumpIsOnTree
  <2>15. ASSUME NEW q \in 1..Len(heap), heap[q].type \in {"list", "dict"}
         PROVE  q \in Shown(s, "begin") /\ q \notin Shown(s, "end")
                  <=> \E a \in 1..j : t[a].node = q
    BY <1>11, <1>12, <2>9, <2>15
  <2>16. Shown(s, "end") \subseteq Shown(s, "begin")
    BY <1>3, <1>4, <2>9 DEF DumpInv, OpenWhileActive
  <2>17. OpenWhileActive'
    BY <1>5, <1>8, <2>5, <2>15, <2>16 DEF OpenWhileActive
  <2>. QED  BY <1>10, <2>10, <2>11, <2>13, <2>14, <2>17 DEF DumpInv
<1>. QED  BY <1>13, <1>14

(* One case per step.                                                      *)
LEMMA DumpNextPreserves ==
    IInv /\ TreeInv /\ OwnInv /\ FreeInv /\ DumpInv /\ [FreeNext]_allVars => DumpInv'
<1> SUFFICES ASSUME IInv, TreeInv, OwnInv, FreeInv, DumpInv, [FreeNext]_allVars
             PROVE  DumpInv'
  OBVIOUS
<1>1. /\ heap \in Seq(Node) /\ Len(heap) \in Nat
      /\ DumpTypes /\ DumpWalk
      /\ phase # "decode" => mode = "done"
  BY Typed DEF DumpInv, FreeInv, FreeTypes
<1>2. ASSUME UNCHANGED <<vars, calls, shown>>,
             \/ phase' = phase
             \/ phase = "decode" /\ phase' # "dump"
             \/ calls = <<>> /\ phase' \notin {"decode", "dump"}
      PROVE  DumpInv'
  <2>1. UNCHANGED <<heap, ret>>
    BY <1>2 DEF vars
  <2>2. DumpTypes'
    BY <1>1, <1>2, <2>1 DEF DumpTypes
  <2>3. DumpWalk'
    BY <1>1, <1>2, <2>1 DEF DumpWalk, Walk, Leads, LiveAt
  <2>4. BeginsOnce' /\ CallDepths' /\ OpenWhileActive' /\ EndsAtDepth'
    BY <1>2, <2>1
       DEF DumpInv, BeginsOnce, CallDepths, OpenWhileActive, EndsAtDepth
  <2>. QED  BY <2>2, <2>3, <2>4 DEF DumpInv
<1>3. CASE Decoding
  <2>1. mode # "done"
    BY <1>3 DEF Decoding, Next, NoDataLeft, OpenList, OpenDict, Open, DecodeInt,
                DecodeString, Invalid, ListLoop, ListItem, DictLoop, DictItem,
                Finish, Calling
  <2>2. /\ phase = "decode" /\ UNCHANGED <<calls, shown, phase>>
        /\ calls = <<>> /\ shown = <<>> /\ Len(calls) = 0 /\ Len(shown) = 0
    BY <1>1, <1>3, <2>1, EmptySeq DEF Decoding, dumpVars, DumpTypes
  <2>3. Shown(shown, "begin") = {} /\ Shown(shown, "end") = {}
    BY <2>2 DEF Shown
  <2>4. DumpTypes' /\ BeginsOnce' /\ DumpWalk' /\ CallDepths' /\ EndsAtDepth'
    BY <1>1, <2>2 DEF DumpTypes, BeginsOnce, DumpWalk, CallDepths, EndsAtDepth
  <2>5. OpenWhileActive'
    BY <2>2, <2>3 DEF OpenWhileActive
  <2>. QED  BY <2>4, <2>5 DEF DumpInv
<1>4. CASE CallDump
  <2>1. /\ calls' = <<Begin(ret, 0)>> /\ shown' = <<Line(0, ret, "begin")>>
        /\ phase' = "dump" /\ UNCHANGED <<heap, ret>> /\ ret # NULL
    BY <1>4 DEF CallDump, vars
  <2>2. ret \in Nat /\ ret \in 1..Len(heap)
    BY <2>1, Typed DEF NULL
  <2>3. PICK x : x = Begin(ret, 0)
    OBVIOUS
  <2>4. x \in DumpCall /\ x.node = ret /\ x.next = 1 /\ x.indent = 0
    <3>1. x = [node |-> ret, next |-> 1, indent |-> 0]
      BY <2>3 DEF Begin, abs
    <3>. QED  BY <2>2, <3>1 DEF DumpCall
  <2>5. PICK y : y = Line(0, ret, "begin")
    OBVIOUS
  <2>6. y \in LineType /\ y.node = ret /\ y.part = "begin"
    BY <2>2, <2>5 DEF Line, LineType
  <2>7. PICK t : t = calls'
    OBVIOUS
  <2>8. /\ t \in Seq(DumpCall) /\ Len(t) = 1 /\ t[1] = x
        /\ \A a \in 1..Len(t) : a = 1
    BY <2>1, <2>3, <2>4, <2>7
  <2>9. PICK s : s = shown'
    OBVIOUS
  <2>10. /\ s \in Seq(LineType) /\ Len(s) = 1 /\ s[1] = y
         /\ \A m \in 1..Len(s) : m = 1
         /\ s # <<>>
    BY <2>1, <2>5, <2>6, <2>9
  <2>11. Shown(s, "begin") = {ret} /\ Shown(s, "end") = {}
    BY <2>2, <2>6, <2>10 DEF Shown
  <2>12. DumpTypes'
    BY <2>1, <2>7, <2>8, <2>9, <2>10 DEF DumpTypes
  <2>13. BeginsOnce'
    BY <2>9, <2>10 DEF BeginsOnce
  <2>14. EndsAtDepth'
    BY <2>6, <2>9, <2>10 DEF EndsAtDepth
  <2>15. CallDepths'
    BY <2>4, <2>7, <2>8 DEF CallDepths
  <2>16. Walk({ret}, t)
    BY <1>1, <2>2, <2>4, <2>8, WalkStart
  <2>17. DumpWalk'
    BY <2>1, <2>7, <2>9, <2>11, <2>16, DumpIsOnTree
  <2>18. OpenWhileActive'
    <3>1. \A q : (\E a \in 1..Len(t) : t[a].node = q) <=> q = ret
      BY <2>4, <2>8
    <3>. QED  BY <2>7, <2>9, <2>11, <3>1 DEF OpenWhileActive
  <2>. QED  BY <2>12, <2>13, <2>14, <2>15, <2>17, <2>18 DEF DumpInv
<1>5. ASSUME phase = "dump", calls # <<>>
      PROVE  /\ Inner.node \in 1..Len(heap) /\ Inner.next \in Nat
             /\ Inner.next >= 1 /\ Inner.indent \in Nat
             /\ mode = "done"
  BY <1>1, <1>5, InnerCall
<1>6. CASE DumpLeaf
  <2>1. /\ phase = "dump" /\ calls # <<>> /\ Back /\ UNCHANGED <<heap, ret, phase>>
        /\ shown' = shown /\ heap[Inner.node].type \notin {"list", "dict"}
    BY <1>6 DEF DumpLeaf, Dumping, vars
  <2>2. ~LiveAt(Inner.node, Inner.next)
    BY <1>1, <1>5, <2>1, LoopGoesOn DEF OwnInv
  <2>. QED  BY <2>1, <2>2, DumpUp
<1>7. CASE DumpEnd
  <2>1. /\ phase = "dump" /\ calls # <<>> /\ Back /\ UNCHANGED <<heap, ret, phase>>
        /\ heap[Inner.node].type \in {"list", "dict"}
        /\ shown' = Append(shown, Line(Inner.indent, Inner.node, "end"))
        /\ ~ItemToShow(Inner) /\ ~EntryToShow(Inner)
    BY <1>7 DEF DumpEnd, Dumping, vars
  <2>2. ~LiveAt(Inner.node, Inner.next)
    BY <1>1, <1>5, <2>1, LoopGoesOn DEF OwnInv, ItemToShow, EntryToShow
  <2>. QED  BY <2>1, <2>2, DumpUp
<1>8. CASE DumpItem
  <2>1. /\ phase = "dump" /\ calls # <<>> /\ UNCHANGED <<heap, ret, phase>>
        /\ heap[Inner.node].type = "list" /\ ItemToShow(Inner)
        /\ Enter(heap[Inner.node].l[Inner.next], Inner.indent + 1)
    BY <1>8 DEF DumpItem, Dumping, vars
  <2>2. PICK c : c = heap[Inner.node].l[Inner.next]
    OBVIOUS
  <2>3. /\ c \in Nat /\ LiveAt(Inner.node, Inner.next)
        /\ \A q \in Nat : Refers(heap, Inner.node, Inner.next, q) <=> q = c
    BY <1>1, <1>5, <2>1, <2>2, LoopGoesOn DEF OwnInv, ItemToShow
  <2>4. PICK i \in Int : i = Inner.indent + 1 /\ abs(i) = Inner.indent + 1
    BY <1>5, <2>1 DEF abs
  <2>. QED  BY <1>5, <2>1, <2>2, <2>3, <2>4, DumpDown
<1>9. CASE DumpEntry
  <2>1. /\ phase = "dump" /\ calls # <<>> /\ UNCHANGED <<heap, ret, phase>>
        /\ heap[Inner.node].type = "dict" /\ EntryToShow(Inner)
        /\ Enter(heap[Inner.node].d[Inner.next].val, -(Inner.indent + 1))
    BY <1>9 DEF DumpEntry, Dumping, vars
  <2>2. PICK c : c = heap[Inner.node].d[Inner.next].val
    OBVIOUS
  <2>3. /\ c \in Nat /\ LiveAt(Inner.node, Inner.next)
        /\ \A q \in Nat : Refers(heap, Inner.node, Inner.next, q) <=> q = c
    BY <1>1, <1>5, <2>1, <2>2, LoopGoesOn DEF OwnInv, EntryToShow
  <2>4. PICK i \in Int : i = -(Inner.indent + 1) /\ abs(i) = Inner.indent + 1
    BY <1>5, <2>1 DEF abs
  <2>. QED  BY <1>5, <2>1, <2>2, <2>3, <2>4, DumpDown
<1>10. CASE Dumped
  <2>1. UNCHANGED <<vars, calls, shown>> /\ calls = <<>> /\ phase' = "dumped"
    BY <1>10 DEF Dumped
  <2>. QED  BY <1>2, <2>1
<1>11. CASE CallFree
  <2>1. /\ UNCHANGED <<vars, calls, shown>> /\ phase' \in {"free", "released"}
        /\ phase \in {"decode", "dumped"}
    BY <1>11 DEF CallFree
  <2>2. calls = <<>>
    BY <1>1, <2>1 DEF DumpTypes
  <2>. QED  BY <1>2, <2>1, <2>2
<1>12. CASE FreeLeaf \/ FreeItem \/ FreeEntry \/ FreeContainer \/ UNCHANGED allVars
  <2>1. UNCHANGED <<vars, calls, shown, phase>>
    BY <1>12 DEF FreeLeaf, FreeItem, FreeEntry, FreeContainer, allVars, dumpVars
  <2>. QED  BY <1>2, <2>1
<1>13. CASE Released
  <2>1. /\ UNCHANGED <<vars, calls, shown>> /\ phase' = "released"
        /\ phase = "free"
    BY <1>13 DEF Released
  <2>2. calls = <<>>
    BY <1>1, <2>1 DEF DumpTypes
  <2>. QED  BY <1>2, <2>1, <2>2
<1>. QED
  BY <1>3, <1>4, <1>6, <1>7, <1>8, <1>9, <1>10, <1>11, <1>12, <1>13
     DEF FreeNext, DumpNext

(* be_dump shows exactly what be_free releases, every node once, and ends  *)
(* every list and dictionary at the indentation of its depth: for every    *)
(* text, since both follow the same pointers from the root, and come to a  *)
(* node by only one of them.                                               *)
THEOREM DumpShowsWhatIsFreed == FreeSpec => []ShowsWhatIsFreed
<1>. DEFINE AllInv == /\ IInv /\ TreeInv /\ OwnInv /\ FreeInv /\ LeakInv
                      /\ FreeWalk /\ DumpInv
<1>1. FreeInit => AllInv
  <2> SUFFICES ASSUME FreeInit PROVE AllInv
    OBVIOUS
  <2>1. /\ Init /\ heap = <<>> /\ stack = <<>> /\ ret = NULL /\ phase = "decode"
        /\ frames = <<>> /\ freed = <<>> /\ keys = {} /\ mode = "call"
        /\ calls = <<>> /\ shown = <<>>
    BY DEF FreeInit, DumpInit, Init
  <2>2. /\ Len(<<>>) = 0 /\ frames \in Seq(CallType) /\ freed \in Seq(Nat)
        /\ calls \in Seq(DumpCall) /\ shown \in Seq(LineType)
    BY <2>1, EmptySeq
  <2>3. TreeInv
    BY <2>1, <2>2 DEF TreeInv, Forest, StackApart, RetApart
  <2>4. OwnInv
    BY <2>1, <2>2 DEF OwnInv, ShapeInv, AwaitsValue, Owned
  <2>5. FreeInv /\ LeakInv
    BY <2>1, <2>2
       DEF FreeInv, FreeTypes, CallsDescend, FreedBehind, FreedApart, LeakInv
  <2>6. FreeWalk
    BY <2>1 DEF FreeWalk
  <2>7. OpenWhileActive
    BY <2>1, <2>2 DEF OpenWhileActive, Shown
  <2>8. DumpInv
    BY <2>1, <2>2, <2>7
       DEF DumpInv, DumpTypes, BeginsOnce, DumpWalk, CallDepths, EndsAtDepth
  <2>. QED  BY <2>1, <2>3, <2>4, <2>5, <2>6, <2>8, InitEstablishes
<1>2. AllInv /\ [FreeNext]_allVars => AllInv'
  <2> SUFFICES ASSUME AllInv, [FreeNext]_allVars PROVE AllInv'
    OBVIOUS
  <2>1. [Next]_vars
    BY DEF FreeNext, Decoding, DumpNext, CallDump, DumpLeaf, DumpItem, DumpEntry,
           DumpEnd, Dumped, CallFree, FreeLeaf, FreeItem, FreeEntry,
           FreeContainer, Released, allVars
  <2>2. IInv' /\ TreeInv' /\ OwnInv'
    BY <2>1, NextPreserves, TreeNext, OwnNext
  <2>3. FreeInv' /\ LeakInv'
    BY FreeNextPreserves, LeakNext
  <2>4. FreeWalk' /\ DumpInv'
    BY FreeWalkNext, DumpNextPreserves
  <2>. QED  BY <2>2, <2>3, <2>4
<1>3. AllInv => ShowsWhatIsFreed
  <2> SUFFICES ASSUME AllInv PROVE ShowsWhatIsFreed
    OBVIOUS
  <2>1. /\ DOMAIN shown = 1..Len(shown) /\ DOMAIN freed = 1..Len(freed)
        /\ heap \in Seq(Node) /\ Len(heap) \in Nat
        /\ shown \in Seq(LineType)
    BY Typed DEF FreeInv, FreeTypes, DumpInv, DumpTypes
  <2>2. IndentIsDepth
    BY <2>1 DEF DumpInv, EndsAtDepth, Above, IndentIsDepth
  <2>. DEFINE begun == {k \in 1..Len(shown) : shown[k].part = "begin"}
  <2>3. ASSUME phase = "released", shown # <<>>
        PROVE  /\ \A j, k \in begun : j # k => shown[j].node # shown[k].node
               /\ {shown[k].node : k \in begun} = Range(freed)
    <3>1. /\ frames = <<>> /\ calls = <<>> /\ ret # NULL /\ mode = "done"
          /\ Len(frames) = 0
      BY <2>3, EmptySeq DEF LeakInv, FreeInv, FreeTypes, DumpInv, DumpTypes
    <3>2. Walk(Met, <<>>) /\ Walk(Shown(shown, "begin"), <<>>)
      BY <2>3, <3>1 DEF FreeWalk, DumpInv, DumpWalk
    <3>3. Met = Shown(shown, "begin")
      BY <2>1, <3>2, WalkEnd DEF TreeInv
    <3>4. Shown(shown, "begin") = {shown[k].node : k \in begun}
      <4>1. \A k \in 1..Len(shown) : shown[k].node \in Nat
        <5>1. \A k \in 1..Len(shown) : shown[k] \in LineType
          BY <2>1, ElementOfSeq
        <5>. QED  BY <5>1 DEF LineType
      <4>. QED  BY <4>1 DEF Shown
    <3>5. Met = Range(freed)
      <4>1. \A c : Reached(freed, frames, c) <=> \E m \in 1..Len(freed) : freed[m] = c
        BY <3>1 DEF Reached
      <4>. QED  BY <2>1, <4>1 DEF Met, Range, LeakInv
    <3>6. \A j, k \in begun : j # k => shown[j].node # shown[k].node
      BY DEF DumpInv, BeginsOnce
    <3>. QED  BY <3>3, <3>4, <3>5, <3>6
  <2>. QED  BY <2>1, <2>2, <2>3 DEF ShowsWhatIsFreed
<1>. QED  BY <1>1, <1>2, <1>3, PTL DEF FreeSpec

=============================================================================
