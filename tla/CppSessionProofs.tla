-------------------------- MODULE CppSessionProofs --------------------------
(***************************************************************************)
(* For every set of texts, keys, values and bounds: the decoder leaves the *)
(* stream fit for the next item, and dictionaries stay in the order of     *)
(* their keys.                                                             *)
(***************************************************************************)
EXTENDS CppPrinter, SequenceTheorems, WellFoundedInduction, TLAPS

(* The stream is a record of its three fields, whatever their values.      *)
StreamShape ==
    stream = [pos |-> stream.pos, eof |-> stream.eof, fail |-> stream.fail]

(* StreamStaysGood is not inductive: while the caller encodes or prints,   *)
(* the stream waits for the next call of decode().                         *)
IInv ==
    /\ StreamShape
    /\ StreamStaysGood
    /\ mode \in {"encode", "print"} /\ ~whole => Good(stream)

-----------------------------------------------------------------------------

(* A character can be peeked only at a stream that has no flag set: the    *)
(* marks that peek() leaves at the end stop every later read.              *)
LEMMA PeekedCharMeansGood ==
    ASSUME NEW s, PeekChar(s) # EOF
    PROVE  Good(s)
BY DEF PeekChar

(* Moving the position keeps the flags.                                    *)
LEMMA MoveKeepsFlags ==
    ASSUME NEW p, StreamShape, MoveTo(p)
    PROVE  /\ StreamShape'
           /\ stream'.eof = stream.eof
           /\ stream'.fail = stream.fail
BY DEF StreamShape, MoveTo

(* peek() gives a record again.                                            *)
LEMMA PeekKeepsShape ==
    ASSUME NEW s, s = [pos |-> s.pos, eof |-> s.eof, fail |-> s.fail]
    PROVE  LET t == Peeked(s)
           IN  t = [pos |-> t.pos, eof |-> t.eof, fail |-> t.fail]
BY DEF Peeked

(* An exception leaves no promise about the stream.                        *)
LEMMA ThrowKeepsInvariant ==
    ASSUME StreamShape', NEW what, what \in {"error", "bad_alloc"}, Throw(what)
    PROVE  IInv'
BY DEF IInv, StreamStaysGood, Throw

-----------------------------------------------------------------------------

(* The character that opens a list or dictionary was seen and is read.     *)
LEMMA OpenKeepsInvariant == IInv /\ Open => IInv'
<1> SUFFICES ASSUME IInv, Open PROVE IInv'
  OBVIOUS
<1>1. Good(stream)
  BY PeekedCharMeansGood DEF Open, Dispatch, EOF
<1>2. MoveTo(stream.pos + 1) /\ mode' = "loop"
  BY DEF Open
<1>. QED
  BY <1>1, <1>2, MoveKeepsFlags DEF IInv, StreamStaysGood, Good

(* An integer is accepted after its 'e' has been read, or rejected.        *)
LEMMA DecodeIntegerKeepsInvariant == IInv /\ DecodeInteger => IInv'
<1> SUFFICES ASSUME IInv, DecodeInteger PROVE IInv'
  OBVIOUS
<1>1. Good(stream)
  BY PeekedCharMeansGood DEF DecodeInteger, Dispatch, EOF
<1>2. CASE Found("e")
  <2>1. MoveTo(FirstOf("e"))
    BY <1>2 DEF DecodeInteger
  <2>2. StreamShape' /\ Good(stream')
    BY <1>1, <2>1, MoveKeepsFlags DEF IInv, Good
  <2>3. mode' = "return" \/ Throw("error")
    BY <1>2 DEF DecodeInteger, Return
  <2>. QED
    BY <2>2, <2>3, ThrowKeepsInvariant DEF IInv, StreamStaysGood
<1>3. CASE ~Found("e")
  <2>1. stream' = Exhausted /\ Throw("error")
    BY <1>3 DEF DecodeInteger
  <2>2. StreamShape'
    BY <2>1 DEF StreamShape, Exhausted
  <2>. QED  BY <2>1, <2>2, ThrowKeepsInvariant
<1>. QED  BY <1>2, <1>3

(* A string is accepted when all its characters have been read: read()     *)
(* has then not met the end of the stream.                                 *)
LEMMA DecodeStringKeepsInvariant == IInv /\ DecodeString => IInv'
<1> SUFFICES ASSUME IInv, DecodeString PROVE IInv'
  OBVIOUS
<1>1. Good(stream)
  BY PeekedCharMeansGood DEF DecodeString, Dispatch, Digit, EOF
<1>2. \/ stream' = Exhausted /\ Throw("error")
      \/ \E p : MoveTo(p) /\ Throw("error")
      \/ \E p : MoveTo(p) /\ Throw("bad_alloc")
      \/ \E p : MoveTo(p) /\ mode' = "return"
  BY DEF DecodeString, Return
<1>3. CASE stream' = Exhausted /\ Throw("error")
  <2>1. StreamShape'
    BY <1>3 DEF StreamShape, Exhausted
  <2>. QED  BY <1>3, <2>1, ThrowKeepsInvariant
<1>4. CASE \E p : MoveTo(p) /\ (Throw("error") \/ Throw("bad_alloc"))
  BY <1>4, MoveKeepsFlags, ThrowKeepsInvariant DEF IInv
<1>5. CASE \E p : MoveTo(p) /\ mode' = "return"
  BY <1>1, <1>5, MoveKeepsFlags DEF IInv, StreamStaysGood, Good
<1>. QED  BY <1>2, <1>3, <1>4, <1>5

(* Two peeks at a character that begins no item, or at the end.            *)
LEMMA UnexpectedKeepsInvariant == IInv /\ Unexpected => IInv'
<1> SUFFICES ASSUME IInv, Unexpected PROVE IInv'
  OBVIOUS
<1>1. stream' = Peeked(Peeked(stream)) /\ Throw("error")
  BY DEF Unexpected
<1>2. StreamShape'
  BY <1>1, PeekKeepsShape DEF IInv, StreamShape
<1>. QED  BY <1>1, <1>2, ThrowKeepsInvariant

(* The loop peeks before every item; only an 'e' ends it normally.         *)
LEMMA LoopKeepsInvariant == IInv /\ Loop => IInv'
<1> SUFFICES ASSUME IInv, Loop PROVE IInv'
  OBVIOUS
<1>1. \/ stream' = Peeked(stream) /\ mode' = "decode"
      \/ /\ PeekChar(stream) = "e"
         /\ MoveTo(stream.pos + 1) /\ mode' = "return"
      \/ stream' = [Peeked(stream) EXCEPT !.fail = TRUE] /\ Throw("error")
  BY DEF Loop, Return
<1>2. CASE stream' = Peeked(stream) /\ mode' = "decode"
  <2>1. StreamShape'
    BY <1>2, PeekKeepsShape DEF IInv, StreamShape
  <2>. QED  BY <1>2, <2>1 DEF IInv, StreamStaysGood
<1>3. CASE /\ PeekChar(stream) = "e"
           /\ MoveTo(stream.pos + 1) /\ mode' = "return"
  <2>1. Good(stream)
    BY <1>3, PeekedCharMeansGood DEF EOF
  <2>. QED
    BY <1>3, <2>1, MoveKeepsFlags DEF IInv, StreamStaysGood, Good
<1>4. CASE stream' = [Peeked(stream) EXCEPT !.fail = TRUE] /\ Throw("error")
  <2>1. PICK t : t = Peeked(stream)
    OBVIOUS
  <2>2. t = [pos |-> t.pos, eof |-> t.eof, fail |-> t.fail]
    BY <2>1, PeekKeepsShape DEF IInv, StreamShape
  <2>3. StreamShape'
    BY <1>4, <2>1, <2>2 DEF StreamShape
  <2>. QED  BY <1>4, <2>3, ThrowKeepsInvariant
<1>. QED  BY <1>1, <1>2, <1>3, <1>4

(* Storing an item in its list or dictionary does not touch the stream.    *)
LEMMA StoreKeepsInvariant == IInv /\ (ListItem \/ DictKey \/ DictValue) => IInv'
<1> SUFFICES ASSUME IInv, ListItem \/ DictKey \/ DictValue PROVE IInv'
  OBVIOUS
<1>1. /\ mode = "return" /\ UNCHANGED stream
      /\ mode' \in {"loop", "decode"} \/ Throw("error")
  BY DEF ListItem, DictKey, DictValue
<1>2. StreamShape'
  BY <1>1 DEF IInv, StreamShape
<1>. QED
  BY <1>1, <1>2, ThrowKeepsInvariant DEF IInv, StreamStaysGood, Good

(* Only the form of decode() that wants the end looks for it.              *)
LEMMA FinishKeepsInvariant == IInv /\ Finish => IInv'
<1> SUFFICES ASSUME IInv, Finish PROVE IInv'
  OBVIOUS
<1>1. mode = "return" /\ whole' = whole
  BY DEF Finish
<1>2. CASE whole
  <2>1. stream' = Peeked(stream) /\ (mode' = "done" \/ Throw("error"))
    BY <1>2 DEF Finish
  <2>2. StreamShape'
    BY <2>1, PeekKeepsShape DEF IInv, StreamShape
  <2>. QED
    BY <1>1, <1>2, <2>1, <2>2, ThrowKeepsInvariant DEF IInv, StreamStaysGood
<1>3. CASE ~whole
  BY <1>1, <1>3 DEF Finish, IInv, StreamShape, StreamStaysGood, Good
<1>. QED  BY <1>2, <1>3

(* What the caller does leaves the stream alone.                           *)
LEMMA CallerKeepsInvariant ==
    ASSUME IInv, UNCHANGED <<whole, stream>>,
           \/ mode = "done" /\ mode' \in {"done", "decode", "encode", "print"}
           \/ mode \in {"encode", "print"} /\ mode' \in {"done", "crash"}
           \/ mode' = mode
    PROVE  IInv'
BY DEF IInv, StreamShape, StreamStaysGood, Good

-----------------------------------------------------------------------------

(* A stream that has just been opened has no flag set.                     *)
LEMMA InitEstablishes == Init => IInv
BY DEF Init, DecoderInit, Opened, IInv, StreamShape, StreamStaysGood

(* One case per step of the decoder, the caller and the encoder.           *)
LEMMA NextPreserves == IInv /\ [Next]_vars => IInv'
<1> SUFFICES ASSUME IInv, [Next]_vars PROVE IInv'
  OBVIOUS
<1>1. CASE DecoderNext
  <2>1. CASE DecodeNext
    BY <2>1, CallerKeepsInvariant DEF DecodeNext
  <2>. QED
    BY <1>1, <2>1, OpenKeepsInvariant, DecodeIntegerKeepsInvariant,
       DecodeStringKeepsInvariant, UnexpectedKeepsInvariant, LoopKeepsInvariant,
       StoreKeepsInvariant, FinishKeepsInvariant DEF DecoderNext
<1>2. ASSUME NEW types, NEW item, Edit(types, item) PROVE IInv'
  BY <1>2, CallerKeepsInvariant DEF Edit
<1>3. CASE (\E key \in Keys : Lookup(key)) \/ PopBack
  BY <1>2, <1>3 DEF Lookup, PopBack
<1>4. CASE \/ \E key \in Keys, value \in Values : Assign(key, value)
           \/ \E value \in Values : \/ PushBack(value)
                                    \/ AssignFront(value)
                                    \/ AssignBack(value)
                                    \/ SetValue(value)
                                    \/ CreateList(value)
           \/ \E k, l \in Keys, value \in Values : CreateDict(k, l, value)
  BY <1>2, <1>4 DEF Assign, PushBack, AssignFront, AssignBack, SetValue,
                    CreateList, CreateDict
<1>5. CASE Encode \/ Encoded \/ VisitNull
  BY <1>5, CallerKeepsInvariant DEF Encode, Encoded, VisitNull
<1>6. CASE VisitContainer \/ VisitLeaf
  BY <1>6, CallerKeepsInvariant DEF VisitContainer, VisitLeaf, decoderVars
<1>7. CASE UNCHANGED vars
  BY <1>7, CallerKeepsInvariant DEF vars, decoderVars
<1>. QED
  BY <1>1, <1>3, <1>4, <1>5, <1>6, <1>7 DEF Next

(* The printer leaves the stream alone too.                                *)
LEMMA PrintingPreserves ==
    ASSUME IInv,
           \/ \E indent \in Indents : getPrettyRepr(indent)
           \/ PrintContainer \/ PrintText \/ PrintClose \/ PrintNull \/ Printed
    PROVE  IInv'
<1>1. CASE \/ \E indent \in Indents : getPrettyRepr(indent)
           \/ PrintNull \/ Printed
  BY <1>1, CallerKeepsInvariant DEF getPrettyRepr, PrintNull, Printed, Visiting
<1>2. CASE PrintContainer \/ PrintText \/ PrintClose
  BY <1>2, CallerKeepsInvariant
     DEF PrintContainer, PrintText, PrintClose, vars, decoderVars
<1>. QED  BY <1>1, <1>2

(* After every item that decode(std::istream &) returns, the stream has    *)
(* neither flag set, whatever the text and whatever the caller changed,    *)
(* encoded and printed before: the next call reads on right behind the     *)
(* item (Decoder.cpp:56-57).                                               *)
THEOREM StreamIsReusable == SessionSpec => []StreamStaysGood
<1>1. IInv => StreamStaysGood
  BY DEF IInv
<1>2. SessionInit => IInv
  BY InitEstablishes DEF SessionInit
<1>3. IInv /\ [SessionNext]_sessionVars => IInv'
  <2> SUFFICES ASSUME IInv, [SessionNext]_sessionVars PROVE IInv'
    OBVIOUS
  <2>1. CASE Next \/ UNCHANGED vars
    BY <2>1, NextPreserves
  <2>2. CASE ~(Next \/ UNCHANGED vars)
    BY <2>2, PrintingPreserves DEF SessionNext, sessionVars
  <2>. QED  BY <2>1, <2>2
<1>. QED  BY <1>1, <1>2, <1>3, PTL DEF SessionSpec

-----------------------------------------------------------------------------
(* Dictionaries: the order of strings first.                               *)

(* The least number of a set is in it and below the others.                *)
LEMMA MinOfNaturals ==
    ASSUME NEW S, S \subseteq Nat, S # {}
    PROVE  /\ Min(S) \in S
           /\ \A y \in S : Min(S) <= y
<1> DEFINE Less == {ss \in Nat \X Nat : ss[1] < ss[2]}
<1>1. IsWellFoundedOn(Less, Nat)
  BY NatLessThanWellFounded, Zenon DEF OpToRel
<1>2. PICK x \in S : \A y \in S : ~(<<y, x>> \in Less)
  <2>. HIDE DEF Less
  <2>. QED  BY <1>1, WFMin, Zenon
<1>3. \A y \in S : x <= y
  <2>. SUFFICES ASSUME NEW y \in S PROVE x <= y
    OBVIOUS
  <2>1. y < x => <<y, x>> \in Less
    OBVIOUS
  <2>. QED  BY <1>2, <2>1
<1>. QED  BY <1>3 DEF Min

(* Every character has a code, and no two the same.                        *)
LEMMA CodeProperties ==
    /\ \A c \in Char : Code[c] \in Int
    /\ \A b, c \in Char : Code[b] = Code[c] => b = c
<1>1. DOMAIN Ascii = 1..20
  BY DEF Ascii
<1>2. ASSUME NEW c \in Char
      PROVE  Code[c] \in DOMAIN Ascii /\ Ascii[Code[c]] = c
  <2>1. PICK k \in DOMAIN Ascii : Ascii[k] = c
    BY Zenon DEF Char, Range
  <2>. HIDE DEF Ascii
  <2>2. Code[c] = CHOOSE j \in DOMAIN Ascii : Ascii[j] = c
    BY Zenon DEF Code
  <2>. QED  BY <2>1, <2>2, Zenon
<1>3. ASSUME NEW c \in Char PROVE Code[c] \in Int
  BY <1>1, <1>2
<1>4. ASSUME NEW b \in Char, NEW c \in Char, Code[b] = Code[c] PROVE b = c
  BY <1>2, <1>4, Zenon
<1>. QED  BY <1>3, <1>4, Zenon

(* std::string's order: what comes before what comes before comes before.  *)
LEMMA ByValueTransitive ==
    ASSUME NEW a \in Seq(Char), NEW b \in Seq(Char), NEW c \in Seq(Char),
           ByValue(a, b), ByValue(b, c)
    PROVE  ByValue(a, c)
<1>1. PICK la \in Nat : la = Len(a)
  BY LenProperties
<1>2. PICK lb \in Nat : lb = Len(b)
  BY LenProperties
<1>3. PICK lc \in Nat : lc = Len(c)
  BY LenProperties
<1>4. /\ \A j \in 1..la : a[j] \in Char
      /\ \A j \in 1..lb : b[j] \in Char
      /\ \A j \in 1..lc : c[j] \in Char
  BY <1>1, <1>2, <1>3, ElementOfSeq, Zenon
<1>5. PICK k \in 1..lb : /\ \A j \in 1..(k - 1) : j <= la /\ a[j] = b[j]
                         /\ k <= la => Code[a[k]] < Code[b[k]]
  BY <1>1, <1>2, Zenon DEF ByValue
<1>6. PICK m \in 1..lc : /\ \A j \in 1..(m - 1) : j <= lb /\ b[j] = c[j]
                         /\ m <= lb => Code[b[m]] < Code[c[m]]
  BY <1>2, <1>3, Zenon DEF ByValue
<1>7. \E n \in 1..lc : /\ \A j \in 1..(n - 1) : j <= la /\ a[j] = c[j]
                       /\ n <= la => Code[a[n]] < Code[c[n]]
  <2>1. CASE k < m
    <3>1. k \in 1..lc
      BY <2>1
    <3>2. \A j \in 1..(k - 1) : j <= la /\ a[j] = c[j]
      BY <1>5, <1>6, <2>1
    <3>3. b[k] = c[k]
      BY <1>6, <2>1
    <3>4. k <= la => Code[a[k]] < Code[c[k]]
      BY <1>5, <3>3
    <3>. QED  BY <3>1, <3>2, <3>4
  <2>2. CASE m < k
    <3>1. m <= la /\ a[m] = b[m] /\ m <= lb
      BY <1>5, <2>2
    <3>2. Code[a[m]] < Code[c[m]]
      BY <1>6, <3>1
    <3>3. \A j \in 1..(m - 1) : j <= la /\ a[j] = c[j]
      BY <1>5, <1>6, <2>2
    <3>. QED  BY <3>2, <3>3
  <2>3. CASE k = m
    <3>1. \A j \in 1..(m - 1) : j <= la /\ a[j] = c[j]
      BY <1>5, <1>6, <2>3
    <3>2. ASSUME m <= la PROVE Code[a[m]] < Code[c[m]]
      <4>1. a[m] \in Char /\ b[m] \in Char /\ c[m] \in Char
        BY <1>4, <2>3, <3>2
      <4>2. PICK x \in Int : x = Code[a[m]]
        BY <4>1, CodeProperties, Zenon
      <4>3. PICK y \in Int : y = Code[b[m]]
        BY <4>1, CodeProperties, Zenon
      <4>4. PICK z \in Int : z = Code[c[m]]
        BY <4>1, CodeProperties, Zenon
      <4>5. m <= lb
        BY <2>3
      <4>6. x < y
        BY <1>5, <2>3, <3>2, <4>2, <4>3
      <4>7. y < z
        BY <1>6, <4>3, <4>4, <4>5
      <4>. QED  BY <4>2, <4>4, <4>6, <4>7
    <3>. QED  BY <3>1, <3>2
  <2>4. k < m \/ m < k \/ k = m
    OBVIOUS
  <2>. QED  BY <2>1, <2>2, <2>3, <2>4, Zenon
<1>. QED  BY <1>1, <1>3, <1>7, Zenon DEF ByValue

(* Two strings, neither smaller, are the same string.                      *)
LEMMA ByValueTotal ==
    ASSUME NEW a \in Seq(Char), NEW b \in Seq(Char),
           ~ByValue(a, b), ~ByValue(b, a)
    PROVE  a = b
<1>1. PICK la \in Nat : la = Len(a)
  BY LenProperties
<1>2. PICK lb \in Nat : lb = Len(b)
  BY LenProperties
<1>3. /\ \A j \in 1..la : a[j] \in Char
      /\ \A j \in 1..lb : b[j] \in Char
  BY <1>1, <1>2, ElementOfSeq, Zenon
<1>4. PICK D : D = {k \in 1..(la + 1) : k <= la /\ k <= lb => a[k] # b[k]}
  OBVIOUS
<1>5. D \subseteq Nat /\ la + 1 \in D
  BY <1>4
<1>6. PICK m \in D : \A k \in D : m <= k
  BY <1>5, MinOfNaturals, Zenon
<1>7. m \in 1..(la + 1) /\ (m <= la /\ m <= lb => a[m] # b[m])
  BY <1>4, <1>6
<1>8. \A j \in 1..(m - 1) : j <= la /\ j <= lb /\ a[j] = b[j]
  <2>. SUFFICES ASSUME NEW j \in 1..(m - 1)
                PROVE  j <= la /\ j <= lb /\ a[j] = b[j]
    OBVIOUS
  <2>1. j \in 1..la /\ j \notin D
    BY <1>6, <1>7
  <2>. QED  BY <1>4, <2>1
<1>9. ~(m <= la /\ m <= lb)
  <2>. SUFFICES ASSUME m <= la, m <= lb PROVE FALSE
    OBVIOUS
  <2>1. a[m] \in Char /\ b[m] \in Char /\ a[m] # b[m]
    BY <1>3, <1>7
  <2>2. /\ Code[a[m]] \in Int /\ Code[b[m]] \in Int
        /\ Code[a[m]] # Code[b[m]]
    BY <2>1, CodeProperties, Zenon
  <2>3. CASE Code[a[m]] < Code[b[m]]
    BY <1>1, <1>2, <1>7, <1>8, <2>3 DEF ByValue
  <2>4. CASE Code[b[m]] < Code[a[m]]
    BY <1>1, <1>2, <1>7, <1>8, <2>4 DEF ByValue
  <2>. QED  BY <2>2, <2>3, <2>4
<1>10. ~(m <= lb)
  <2>. SUFFICES ASSUME m <= lb PROVE FALSE
    OBVIOUS
  <2>1. ~(m <= la)
    BY <1>9
  <2>. QED  BY <1>1, <1>2, <1>7, <1>8, <2>1 DEF ByValue
<1>11. ~(m <= la)
  <2>. SUFFICES ASSUME m <= la PROVE FALSE
    OBVIOUS
  <2>. QED  BY <1>1, <1>2, <1>7, <1>8, <1>10 DEF ByValue
<1>12. la = m - 1 /\ lb = m - 1
  <2>1. la = m - 1
    BY <1>7, <1>11
  <2>2. m > 1 => lb >= m - 1
    BY <1>7, <1>8
  <2>. QED  BY <1>7, <1>10, <2>1, <2>2
<1>13. Len(a) = Len(b)
  BY <1>1, <1>2, <1>12
<1>14. \A i \in 1..Len(a) : a[i] = b[i]
  BY <1>1, <1>8, <1>12
<1>. QED  BY <1>13, <1>14, SeqEqual

(* The comparator's order is the order of dictionary keys.                 *)
LEMMA ByValuePrecedes ==
    ASSUME NEW a \in Seq(Char), NEW b \in Seq(Char), ByValue(a, b)
    PROVE  Precedes(a, b)
<1>1. PICK la \in Nat : la = Len(a)
  BY LenProperties
<1>2. PICK lb \in Nat : lb = Len(b)
  BY LenProperties
<1>3. /\ \A j \in 1..la : a[j] \in Char
      /\ \A j \in 1..lb : b[j] \in Char
  BY <1>1, <1>2, ElementOfSeq, Zenon
<1>4. PICK k \in 1..lb : /\ \A j \in 1..(k - 1) : j <= la /\ a[j] = b[j]
                         /\ k <= la => Code[a[k]] < Code[b[k]]
  BY <1>1, <1>2, Zenon DEF ByValue
<1>5. k - 1 <= la
  BY <1>4
<1>6. SubSeq(a, 1, k - 1) = SubSeq(b, 1, k - 1)
  <2>1. PICK n \in Int : n = k - 1
    OBVIOUS
  <2>2. \A i \in 1..n : a[i] \in Char /\ b[i] \in Char /\ a[i] = b[i]
    BY <1>3, <1>4, <1>5, <2>1
  <2>3. PICK s : s = SubSeq(a, 1, n)
    OBVIOUS
  <2>4. PICK t : t = SubSeq(b, 1, n)
    OBVIOUS
  <2>5. /\ s \in Seq(Char) /\ Len(s) = IF 1 <= n THEN n - 1 + 1 ELSE 0
        /\ \A i \in 1..(n - 1 + 1) : s[i] = a[1 + i - 1]
    BY <2>2, <2>3, SubSeqProperties
  <2>6. /\ t \in Seq(Char) /\ Len(t) = IF 1 <= n THEN n - 1 + 1 ELSE 0
        /\ \A i \in 1..(n - 1 + 1) : t[i] = b[1 + i - 1]
    BY <2>2, <2>4, SubSeqProperties
  <2>7. \A i \in 1..Len(s) : s[i] = t[i]
    BY <2>1, <2>2, <2>5, <2>6
  <2>8. s = t
    BY <2>5, <2>6, <2>7, SeqEqual
  <2>. QED  BY <2>1, <2>3, <2>4, <2>8, Zenon
<1>7. CASE k <= la
  <2>1. k \in DOMAIN a \cap DOMAIN b
    BY <1>1, <1>2, <1>7, LenProperties
  <2>. QED  BY <1>4, <1>6, <1>7, <2>1 DEF Precedes
<1>8. CASE ~(k <= la)
  <2>1. la = k - 1 /\ la < lb
    BY <1>5, <1>8
  <2>2. SubSeq(a, 1, la) = SubSeq(b, 1, la) /\ la <= lb
    <3>1. SubSeq(a, 1, la) = SubSeq(b, 1, la)
      BY <1>6, <2>1
    <3>. QED  BY <2>1, <3>1
  <2>3. a # b
    <3>1. a = b => la = lb
      BY <1>1, <1>2, Zenon
    <3>. QED  BY <2>1, <3>1
  <2>4. IsPrefix(a, b)
    BY <1>1, <1>2, <2>2, Zenon DEF IsPrefix
  <2>. QED  BY <2>3, <2>4, Zenon DEF Precedes, IsStrictPrefix
<1>. QED  BY <1>7, <1>8

-----------------------------------------------------------------------------

(* A sequence is one of what it holds.                                     *)
LEMMA MapIsSeq ==
    ASSUME NEW d, IsMap(d)
    PROVE  /\ Len(d) \in Nat /\ DOMAIN d = 1..Len(d)
           /\ \A k \in 1..Len(d) : d[k] \in Range(d)
BY LenProperties, ElementOfSeq DEF IsMap

(* The bounds cut a dictionary in the entries before the key, those with   *)
(* it and those behind it.                                                 *)
LEMMA BoundsProperties ==
    ASSUME NEW d, IsMap(d), NEW key \in Seq(Char)
    PROVE  /\ LowerBound(d, key) \in 1..(Len(d) + 1)
           /\ UpperBound(d, key) \in 1..(Len(d) + 1)
           /\ \A k \in 1..(LowerBound(d, key) - 1) : ByValue(d[k].key, key)
           /\ \A k \in UpperBound(d, key)..Len(d) : ByValue(key, d[k].key)
           /\ \A k \in LowerBound(d, key)..(UpperBound(d, key) - 1) :
                 d[k].key = key
<1>1. PICK n \in Nat : n = Len(d)
  BY MapIsSeq
<1>2. /\ \A k \in 1..n : d[k].key \in Seq(Char)
      /\ \A j, k \in 1..n : j < k => ByValue(d[j].key, d[k].key)
  BY <1>1, MapIsSeq, Zenon DEF IsMap
<1>3. PICK L : L = {k \in 1..(n + 1) : k <= n => ~ByValue(d[k].key, key)}
  OBVIOUS
<1>4. PICK U : U = {k \in 1..(n + 1) : k <= n => ByValue(key, d[k].key)}
  OBVIOUS
<1>5. /\ L \subseteq Nat /\ n + 1 \in L
      /\ U \subseteq Nat /\ n + 1 \in U
  BY <1>3, <1>4
<1>6. PICK l : l = LowerBound(d, key)
  OBVIOUS
<1>7. PICK u : u = UpperBound(d, key)
  OBVIOUS
<1>8. l = Min(L) /\ u = Min(U)
  BY <1>1, <1>3, <1>4, <1>6, <1>7, Zenon DEF LowerBound, UpperBound
<1>9. /\ l \in L /\ \A k \in L : l <= k
      /\ u \in U /\ \A k \in U : u <= k
  BY <1>5, <1>8, MinOfNaturals, Zenon
<1>10. l \in 1..(n + 1) /\ u \in 1..(n + 1)
  BY <1>3, <1>4, <1>9
<1>11. ASSUME NEW k \in 1..(l - 1) PROVE ByValue(d[k].key, key)
  <2>1. k \in 1..(n + 1) /\ k <= n /\ k \notin L
    BY <1>9, <1>10
  <2>. QED  BY <1>3, <2>1
<1>12. ASSUME NEW k \in u..n PROVE ByValue(key, d[k].key)
  <2>1. u \in 1..n /\ k \in 1..n
    BY <1>10
  <2>2. ByValue(key, d[u].key)
    BY <1>4, <1>9, <2>1
  <2>3. u < k => ByValue(d[u].key, d[k].key)
    BY <1>2, <2>1, Zenon
  <2>4. u < k \/ u = k
    BY <1>10
  <2>. QED  BY <1>2, <2>1, <2>2, <2>3, <2>4, ByValueTransitive, Zenon
<1>13. ASSUME NEW k \in l..(u - 1) PROVE d[k].key = key
  <2>1. l \in 1..n /\ k \in 1..n /\ (l < k \/ l = k)
    BY <1>10
  <2>2. ~ByValue(d[l].key, key)
    BY <1>3, <1>9, <2>1
  <2>3. l < k => ByValue(d[l].key, d[k].key)
    BY <1>2, <2>1, Zenon
  <2>4. ~ByValue(d[k].key, key)
    BY <1>2, <2>1, <2>2, <2>3, ByValueTransitive, Zenon
  <2>5. k \notin U
    BY <1>9, <1>10
  <2>6. ~ByValue(key, d[k].key)
    BY <1>4, <2>1, <2>5
  <2>. QED  BY <1>2, <2>1, <2>4, <2>6, ByValueTotal, Zenon
<1>. QED
  BY <1>1, <1>6, <1>7, <1>10, <1>11, <1>12, <1>13, Zenon

(* What an insertion gives: the entries before the key as they were, one   *)
(* entry with the key, the entries behind it as they were.                 *)
Inserted(a, d, n, e, l, u) ==
    /\ a \in Seq(Range(d) \cup {e})
    /\ Len(a) = l + (n + 1 - u)
    /\ \A k \in 1..(l - 1) : a[k] = d[k]
    /\ a[l] = e
    /\ \A k \in (l + 1)..Len(a) : a[k] = d[k - l + u - 1]

(* An insertion gives that.                                                *)
LEMMA AssignedProperties ==
    ASSUME NEW d, IsMap(d), NEW key \in Seq(Char), NEW value
    PROVE  Inserted(Assigned(d, key, value), d, Len(d),
                    [key |-> key, val |-> value],
                    LowerBound(d, key), UpperBound(d, key))
<1>1. PICK n \in Nat : n = Len(d)
  BY MapIsSeq
<1>2. PICK l \in 1..(n + 1) : l = LowerBound(d, key)
  BY <1>1, BoundsProperties
<1>3. PICK u \in 1..(n + 1) : u = UpperBound(d, key)
  BY <1>1, BoundsProperties
<1>4. PICK e : e = [key |-> key, val |-> value]
  OBVIOUS
<1>5. PICK S : S = Range(d) \cup {e}
  OBVIOUS
<1>6. \A k \in 1..n : d[k] \in S
  BY <1>1, <1>5, MapIsSeq
<1>7. PICK s : s = SubSeq(d, 1, l - 1)
  OBVIOUS
<1>8. PICK t : t = SubSeq(d, u, n)
  OBVIOUS
<1>9. PICK m \in Int : m = l - 1
  OBVIOUS
<1>10. /\ s \in Seq(S) /\ Len(s) = m
       /\ \A k \in 1..m : s[k] = d[k]
  <2>1. \A k \in 1..m : d[k] \in S
    BY <1>6, <1>9
  <2>2. s = SubSeq(d, 1, m)
    BY <1>7, <1>9
  <2>3. /\ s \in Seq(S) /\ Len(s) = IF 1 <= m THEN m - 1 + 1 ELSE 0
        /\ \A k \in 1..(m - 1 + 1) : s[k] = d[1 + k - 1]
    BY <2>1, <2>2, SubSeqProperties
  <2>. QED  BY <1>9, <2>3
<1>11. /\ t \in Seq(S) /\ Len(t) = n + 1 - u
       /\ \A k \in 1..(n + 1 - u) : t[k] = d[u + k - 1]
  <2>1. \A k \in u..n : d[k] \in S
    BY <1>6
  <2>2. /\ t \in Seq(S) /\ Len(t) = IF u <= n THEN n - u + 1 ELSE 0
        /\ \A k \in 1..(n - u + 1) : t[k] = d[u + k - 1]
    BY <1>8, <2>1, SubSeqProperties
  <2>. QED  BY <2>2
<1>12. PICK one : one = <<e>>
  OBVIOUS
<1>13. one \in Seq(S) /\ Len(one) = 1 /\ one[1] = e
  BY <1>5, <1>12
<1>14. PICK b : b = s \o one
  OBVIOUS
<1>15. /\ b \in Seq(S) /\ Len(b) = Len(s) + Len(one)
       /\ \A k \in 1..(Len(s) + Len(one)) :
             b[k] = IF k <= Len(s) THEN s[k] ELSE one[k - Len(s)]
  BY <1>10, <1>13, <1>14, ConcatProperties, Zenon
<1>16. /\ Len(b) = l /\ b[l] = e
       /\ \A k \in 1..(l - 1) : b[k] = d[k]
  BY <1>9, <1>10, <1>13, <1>15
<1>17. PICK a : a = b \o t
  OBVIOUS
<1>18. /\ a \in Seq(S) /\ Len(a) = Len(b) + Len(t)
       /\ \A k \in 1..(Len(b) + Len(t)) :
             a[k] = IF k <= Len(b) THEN b[k] ELSE t[k - Len(b)]
  <2>1. b \in Seq(S) /\ t \in Seq(S)
    BY <1>11, <1>15
  <2>. QED  BY <1>17, <2>1, ConcatProperties, Zenon
<1>19. PICK r \in Nat : r = n + 1 - u
  OBVIOUS
<1>20. /\ Len(a) = l + r
       /\ \A k \in 1..(l + r) : a[k] = IF k <= l THEN b[k] ELSE t[k - l]
  BY <1>11, <1>16, <1>18, <1>19, Zenon
<1>21. /\ \A k \in 1..(l - 1) : a[k] = d[k]
       /\ a[l] = e
       /\ \A k \in (l + 1)..(l + r) : a[k] = d[k - l + u - 1]
  <2>1. \A k \in 1..(l - 1) : a[k] = d[k]
    BY <1>16, <1>20
  <2>2. a[l] = e
    BY <1>16, <1>20
  <2>3. ASSUME NEW k \in (l + 1)..(l + r) PROVE a[k] = d[k - l + u - 1]
    <3>1. a[k] = t[k - l]
      BY <1>20
    <3>2. k - l \in 1..r /\ u + (k - l) - 1 = k - l + u - 1
      BY <1>19
    <3>3. t[k - l] = d[u + (k - l) - 1]
      BY <1>11, <1>19, <3>2
    <3>. QED  BY <3>1, <3>2, <3>3
  <2>. QED  BY <2>1, <2>2, <2>3
<1>22. a = Assigned(d, key, value)
  BY <1>1, <1>2, <1>3, <1>4, <1>7, <1>8, <1>12, <1>14, <1>17, Zenon
     DEF Assigned
<1>23. Inserted(a, d, n, e, l, u)
  BY <1>5, <1>18, <1>19, <1>20, <1>21, Zenon DEF Inserted
<1>. QED  BY <1>1, <1>2, <1>3, <1>4, <1>22, <1>23, Zenon

(* An insertion leaves a dictionary in order.                              *)
LEMMA AssignedIsMap ==
    ASSUME NEW d, IsMap(d), NEW key \in Seq(Char), NEW value
    PROVE  IsMap(Assigned(d, key, value))
<1>1. PICK n \in Nat : n = Len(d)
  BY MapIsSeq
<1>2. PICK l \in 1..(n + 1) : l = LowerBound(d, key)
  BY <1>1, BoundsProperties
<1>3. PICK u \in 1..(n + 1) : u = UpperBound(d, key)
  BY <1>1, BoundsProperties
<1>4. PICK a : a = Assigned(d, key, value)
  OBVIOUS
<1>5. PICK e : e = [key |-> key, val |-> value]
  OBVIOUS
<1>6. /\ \A k \in 1..n : d[k].key \in Seq(Char)
      /\ \A j, k \in 1..n : j < k => ByValue(d[j].key, d[k].key)
  BY <1>1, MapIsSeq, Zenon DEF IsMap
<1>7. /\ \A k \in 1..(l - 1) : ByValue(d[k].key, key)
      /\ \A k \in u..n : ByValue(key, d[k].key)
  BY <1>1, <1>2, <1>3, BoundsProperties
<1>8. /\ a \in Seq(Range(d) \cup {e})
      /\ Len(a) = l + (n + 1 - u)
      /\ \A k \in 1..(l - 1) : a[k] = d[k]
      /\ a[l] = e
      /\ \A k \in (l + 1)..Len(a) : a[k] = d[k - l + u - 1]
  <2>1. Inserted(a, d, n, e, l, u)
    BY <1>1, <1>2, <1>3, <1>4, <1>5, AssignedProperties, Zenon
  <2>. QED  BY <2>1, Zenon DEF Inserted
<1>9. PICK m \in Nat : m = Len(a)
  BY <1>8, LenProperties
<1>10. DOMAIN a = 1..m /\ a \in Seq(Range(a))
  BY <1>8, <1>9, LenProperties, SeqOfRange
<1>11. e.key = key
  BY <1>5
<1>12. ASSUME NEW k \in 1..m, k < l
       PROVE  a[k].key \in Seq(Char) /\ ByValue(a[k].key, key)
  BY <1>6, <1>7, <1>8, <1>12
<1>13. ASSUME NEW k \in 1..m, l < k
       PROVE  a[k].key \in Seq(Char) /\ ByValue(key, a[k].key)
  <2>1. k - l + u - 1 \in u..n
    BY <1>8, <1>9, <1>13
  <2>2. k - l + u - 1 \in 1..n
    BY <2>1
  <2>3. a[k] = d[k - l + u - 1]
    BY <1>8, <1>9, <1>13
  <2>. QED  BY <1>6, <1>7, <2>1, <2>2, <2>3
<1>14. ASSUME NEW k \in 1..m PROVE a[k].key \in Seq(Char)
  BY <1>2, <1>8, <1>11, <1>12, <1>13
<1>15. ASSUME NEW j \in 1..m, NEW k \in 1..m, j < k
       PROVE  ByValue(a[j].key, a[k].key)
  <2>1. CASE k < l
    BY <1>6, <1>8, <1>15, <2>1
  <2>2. CASE l < j
    <3>1. PICK p \in 1..n : p = j - l + u - 1
      BY <1>8, <1>9, <1>15, <2>2
    <3>2. PICK q \in 1..n : q = k - l + u - 1
      BY <1>8, <1>9, <1>15, <2>2
    <3>3. a[j] = d[p] /\ a[k] = d[q] /\ p < q
      BY <1>8, <1>9, <1>15, <2>2, <3>1, <3>2
    <3>. QED  BY <1>6, <3>3, Zenon
  <2>3. CASE j < l /\ l < k
    BY <1>12, <1>13, <1>14, <2>3, ByValueTransitive
  <2>4. CASE j = l
    BY <1>8, <1>11, <1>13, <1>15, <2>4
  <2>5. CASE k = l
    BY <1>8, <1>11, <1>12, <1>15, <2>5
  <2>. QED  BY <1>15, <2>1, <2>2, <2>3, <2>4, <2>5
<1>. QED  BY <1>4, <1>10, <1>14, <1>15, Zenon DEF IsMap

(* The entries of a std::map are in order.                                 *)
LEMMA MapIsSorted ==
    ASSUME NEW d, IsMap(d)
    PROVE  Sorted(d)
BY ByValuePrecedes DEF Sorted, IsMap

(* What the decoder holds: items in the shape of their class, and one      *)
(* being filled wherever the loop over the children runs.                  *)
IsFrame(f) ==
    /\ f = [item |-> f.item, keyed |-> f.keyed, key |-> f.key]
    /\ IsItem(f.item)
    /\ f.key \in Seq(Char)
OrderInv ==
    /\ text \in Seq(Char)
    /\ StreamShape /\ stream.pos \in Nat
    /\ IsItem(ret)
    /\ stack \in Seq(Range(stack))
    /\ \A f \in DOMAIN stack : IsFrame(stack[f])
    /\ mode = "loop" => stack # <<>>

-----------------------------------------------------------------------------

(* An empty dictionary, and the items that have none.                      *)
LEMMA EmptyIsMap == IsMap(<<>>)
<1>1. <<>> \in Seq(Range(<<>>)) /\ DOMAIN <<>> = {}
  BY EmptySeq, LenProperties
<1>. QED  BY <1>1 DEF IsMap

(* What the constructors make: an item without children.                 *)
LEMMA PlainItems ==
    /\ \A type : IsItem(Item(type))
    /\ \A i : IsItem(BInteger(i))
    /\ \A s \in Seq(Char) : IsItem(BString(s)) /\ BString(s).s = s
<1>1. <<>> \in Seq(Char)
  BY EmptySeq
<1>. QED
  BY <1>1, EmptyIsMap DEF IsItem, Item, BInteger, BString

(* So is what a lookup leaves.                                           *)
LEMMA NullIsItem == IsItem(NullItem)
BY PlainItems DEF NullItem

(* Whatever a list holds, it has no entries.                               *)
LEMMA ListIsItem ==
    ASSUME NEW item, IsItem(item), NEW l
    PROVE  /\ IsItem([item EXCEPT !.l = l])
           /\ [item EXCEPT !.l = l].d = item.d
           /\ [item EXCEPT !.l = l].type = item.type
<1>1. PICK t : t = [item EXCEPT !.l = l]
  OBVIOUS
<1>2. t = [type |-> item.type, i |-> item.i, s |-> item.s,
           l |-> l, d |-> item.d]
  BY <1>1 DEF IsItem
<1>. QED  BY <1>1, <1>2 DEF IsItem

(* An insertion makes a dictionary of a dictionary.                        *)
LEMMA EntryIsItem ==
    ASSUME NEW item, IsItem(item), item.type = "dict",
           NEW key \in Seq(Char), NEW value
    PROVE  /\ IsItem([item EXCEPT !.d = Assigned(@, key, value)])
           /\ [item EXCEPT !.d = Assigned(@, key, value)].d
                = Assigned(item.d, key, value)
<1>1. PICK a : a = Assigned(item.d, key, value)
  OBVIOUS
<1>2. PICK t : t = [item EXCEPT !.d = Assigned(@, key, value)]
  OBVIOUS
<1>3. t = [type |-> item.type, i |-> item.i, s |-> item.s,
           l |-> item.l, d |-> a]
  BY <1>1, <1>2 DEF IsItem
<1>4. IsMap(a)
  BY <1>1, AssignedIsMap DEF IsItem
<1>. QED  BY <1>1, <1>2, <1>3, <1>4 DEF IsItem

(* A frame may be pushed, and the innermost one changed or popped.         *)
LEMMA PushKeepsFrames ==
    ASSUME NEW s, s \in Seq(Range(s)), \A f \in DOMAIN s : IsFrame(s[f]),
           NEW frame, IsFrame(frame)
    PROVE  LET t == Append(s, frame)
           IN  /\ t \in Seq(Range(t)) /\ t # <<>>
               /\ \A f \in DOMAIN t : IsFrame(t[f])
<1>1. PICK S : S = Range(s) \cup {frame}
  OBVIOUS
<1>2. s \in Seq(S) /\ frame \in S
  BY <1>1, SeqMonotonic
<1>3. PICK t : t = Append(s, frame)
  OBVIOUS
<1>4. /\ t \in Seq(S) /\ t # <<>> /\ Len(t) = Len(s) + 1
      /\ \A f \in 1..Len(s) : t[f] = s[f]
      /\ t[Len(s) + 1] = frame
  BY <1>2, <1>3, AppendProperties
<1>5. t \in Seq(Range(t)) /\ DOMAIN t = 1..Len(t)
  BY <1>4, SeqOfRange, LenProperties
<1>6. Len(s) \in Nat /\ DOMAIN s = 1..Len(s)
  BY LenProperties
<1>7. ASSUME NEW f \in DOMAIN t PROVE IsFrame(t[f])
  BY <1>4, <1>5, <1>6
<1>. QED  BY <1>3, <1>4, <1>5, <1>7, Zenon

(* A stack that is not empty has an innermost frame.                     *)
LEMMA TopIsFrame ==
    ASSUME OrderInv, stack # <<>>
    PROVE  /\ Len(stack) \in Nat \ {0}
           /\ DOMAIN stack = 1..Len(stack)
           /\ Len(stack) \in DOMAIN stack
           /\ IsFrame(Top)
<1>1. Len(stack) \in Nat \ {0} /\ DOMAIN stack = 1..Len(stack)
  BY EmptySeq, LenProperties DEF OrderInv
<1>. QED  BY <1>1 DEF OrderInv, Top

(* The innermost frame is replaced by another.                           *)
LEMMA SetTopKeepsFrames ==
    ASSUME OrderInv, stack # <<>>, NEW frame, IsFrame(frame),
           NEW t, t = [stack EXCEPT ![Len(stack)] = frame]
    PROVE  /\ t \in Seq(Range(t)) /\ t # <<>>
           /\ \A f \in DOMAIN t : IsFrame(t[f])
<1>1. PICK S : S = Range(stack) \cup {frame}
  OBVIOUS
<1>2. stack \in Seq(S) /\ frame \in S
  BY <1>1, SeqMonotonic DEF OrderInv
<1>3. PICK n \in Nat \ {0} : n = Len(stack)
  BY TopIsFrame
<1>4. n \in 1..Len(stack) /\ t = [stack EXCEPT ![n] = frame]
  BY <1>3
<1>5. /\ t \in Seq(S) /\ Len(t) = n
      /\ \A f \in 1..n : t[f] = IF f = n THEN frame ELSE stack[f]
  BY <1>2, <1>3, <1>4, ExceptSeq
<1>6. t \in Seq(Range(t)) /\ DOMAIN t = 1..n
  BY <1>5, SeqOfRange, LenProperties
<1>7. DOMAIN stack = 1..n
  BY <1>3, TopIsFrame
<1>8. t # <<>>
  BY <1>3, <1>5, EmptySeq
<1>9. ASSUME NEW f \in DOMAIN t PROVE IsFrame(t[f])
  BY <1>5, <1>6, <1>7 DEF OrderInv
<1>. QED  BY <1>6, <1>8, <1>9

(* The innermost frame is taken away.                                    *)
LEMMA PopKeepsFrames ==
    ASSUME OrderInv, stack # <<>>, NEW t, t = Front(stack)
    PROVE  /\ t \in Seq(Range(t))
           /\ \A f \in DOMAIN t : IsFrame(t[f])
<1>1. PICK n \in Nat \ {0} : n = Len(stack)
  BY TopIsFrame
<1>2. PICK m \in Nat : m = n - 1
  OBVIOUS
<1>3. t = SubSeq(stack, 1, m)
  BY <1>1, <1>2 DEF Front
<1>4. DOMAIN stack = 1..n
  BY <1>1, TopIsFrame
<1>5. \A i \in 1..m : stack[i] \in Range(stack)
  BY <1>1, <1>2, ElementOfSeq DEF OrderInv
<1>6. /\ t \in Seq(Range(stack)) /\ Len(t) = IF 1 <= m THEN m - 1 + 1 ELSE 0
      /\ \A i \in 1..(m - 1 + 1) : t[i] = stack[1 + i - 1]
  BY <1>3, <1>5, SubSeqProperties
<1>7. Len(t) = m /\ \A i \in 1..m : t[i] = stack[i]
  BY <1>6
<1>8. t \in Seq(Range(t)) /\ DOMAIN t = 1..m
  BY <1>6, <1>7, SeqOfRange, LenProperties
<1>9. ASSUME NEW f \in DOMAIN t PROVE IsFrame(t[f])
  BY <1>2, <1>4, <1>7, <1>8 DEF OrderInv
<1>. QED  BY <1>8, <1>9

(* The stream after a move, after a peek and at its end.                   *)
LEMMA MoveKeepsStream ==
    ASSUME OrderInv, NEW p \in Nat, MoveTo(p)
    PROVE  StreamShape' /\ stream'.pos \in Nat
BY DEF OrderInv, StreamShape, MoveTo

(* peek() reads nothing.                                                 *)
LEMMA PeekKeepsPosition ==
    ASSUME NEW s, s = [pos |-> s.pos, eof |-> s.eof, fail |-> s.fail]
    PROVE  Peeked(s).pos = s.pos
BY DEF Peeked

(* The stream after one peek, after two, and after a failed read.        *)
LEMMA PeekKeepsStream ==
    ASSUME OrderInv,
           \/ stream' = Peeked(stream)
           \/ stream' = Peeked(Peeked(stream))
           \/ stream' = [Peeked(stream) EXCEPT !.fail = TRUE]
    PROVE  StreamShape' /\ stream'.pos \in Nat
<1>1. PICK s : s = Peeked(stream)
  OBVIOUS
<1>2. s = [pos |-> s.pos, eof |-> s.eof, fail |-> s.fail] /\ s.pos \in Nat
  BY <1>1, PeekKeepsShape, PeekKeepsPosition DEF OrderInv, StreamShape
<1>3. PICK t : t = Peeked(s)
  OBVIOUS
<1>4. t = [pos |-> t.pos, eof |-> t.eof, fail |-> t.fail] /\ t.pos \in Nat
  BY <1>2, <1>3, PeekKeepsShape, PeekKeepsPosition
<1>5. PICK u : u = [s EXCEPT !.fail = TRUE]
  OBVIOUS
<1>6. u = [pos |-> u.pos, eof |-> u.eof, fail |-> u.fail] /\ u.pos \in Nat
  BY <1>2, <1>5
<1>7. stream' = s \/ stream' = t \/ stream' = u
  BY <1>1, <1>3, <1>5, Zenon
<1>. QED  BY <1>2, <1>4, <1>6, <1>7 DEF StreamShape

(* The stream that had less than was asked for.                          *)
LEMMA ExhaustedKeepsStream ==
    ASSUME OrderInv, stream' = Exhausted
    PROVE  StreamShape' /\ stream'.pos \in Nat
<1>1. Len(text) \in Nat
  BY LenProperties DEF OrderInv
<1>. QED  BY <1>1 DEF StreamShape, Exhausted

(* A character that is found is found in the text.                         *)
LEMMA FirstOfProperties ==
    ASSUME OrderInv, NEW c, Found(c)
    PROVE  FirstOf(c) \in (stream.pos + 1)..Len(text)
<1>1. PICK n \in Nat : n = Len(text)
  BY LenProperties DEF OrderInv
<1>2. PICK p \in Nat : p = stream.pos
  BY DEF OrderInv
<1>3. PICK Q : Q = {q \in (p + 1)..n : text[q] = c}
  OBVIOUS
<1>4. Q \subseteq Nat /\ Q # {}
  BY <1>1, <1>2, <1>3 DEF Found
<1>5. PICK q \in Q : \A r \in Q : q <= r
  BY <1>4, MinOfNaturals, Zenon
<1>6. /\ q \in (p + 1)..n /\ text[q] = c
      /\ \A r \in (p + 1)..(q - 1) : text[r] # c
  BY <1>3, <1>5
<1>7. FirstOf(c) = CHOOSE r \in (p + 1)..n :
                       /\ text[r] = c
                       /\ \A o \in (p + 1)..(r - 1) : text[o] # c
  BY <1>1, <1>2, Zenon DEF FirstOf
<1>8. FirstOf(c) \in (p + 1)..n
  BY <1>6, <1>7, Zenon
<1>. QED  BY <1>1, <1>2, <1>8, Zenon

(* What is read of the text is a string.                                   *)
LEMMA ReadIsString ==
    ASSUME OrderInv, NEW m \in Nat \ {0}, NEW n \in Int, n <= Len(text)
    PROVE  SubSeq(text, m, n) \in Seq(Char)
<1>1. PICK l \in Nat : l = Len(text)
  BY LenProperties DEF OrderInv
<1>2. \A i \in m..n : text[i] \in Char
  BY <1>1, ElementOfSeq DEF OrderInv
<1>. QED  BY <1>2, SubSeqProperties

-----------------------------------------------------------------------------

(* An exception leaves nothing.                                            *)
LEMMA ThrowKeepsOrder ==
    ASSUME OrderInv, StreamShape', stream'.pos \in Nat, UNCHANGED text,
           NEW what, what \in {"error", "bad_alloc"}, Throw(what)
    PROVE  OrderInv'
<1>1. stack' = <<>> /\ ret' = NullItem /\ mode' # "loop"
  BY DEF Throw
<1>2. <<>> \in Seq(Range(<<>>)) /\ DOMAIN <<>> = {}
  BY EmptySeq, LenProperties
<1>3. /\ stack' \in Seq(Range(stack'))
      /\ \A f \in DOMAIN stack' : IsFrame(stack'[f])
  BY <1>1, <1>2
<1>4. IsItem(ret')
  BY <1>1, NullIsItem, Zenon
<1>. QED  BY <1>1, <1>3, <1>4 DEF OrderInv

(* An item is returned while the frames stay as they are.                  *)
LEMMA ReturnKeepsOrder ==
    ASSUME OrderInv, StreamShape', stream'.pos \in Nat,
           UNCHANGED <<text, stack>>, IsItem(ret'), mode' # "loop"
    PROVE  OrderInv'
BY DEF OrderInv

(* A list or dictionary is begun, empty.                                 *)
LEMMA OpenKeepsOrder == OrderInv /\ Open => OrderInv'
<1> SUFFICES ASSUME OrderInv, Open PROVE OrderInv'
  OBVIOUS
<1>1. /\ UNCHANGED <<text, ret>>
      /\ MoveTo(stream.pos + 1)
      /\ \E type : stack' = Append(stack, Frame(type))
  BY DEF Open
<1>2. StreamShape' /\ stream'.pos \in Nat
  BY <1>1, MoveKeepsStream DEF OrderInv
<1>3. PICK type : stack' = Append(stack, Frame(type))
  BY <1>1
<1>4. IsFrame(Frame(type))
  BY PlainItems, EmptySeq DEF IsFrame, Frame
<1>5. PICK t : t = Append(stack, Frame(type))
  OBVIOUS
<1>6. t \in Seq(Range(t)) /\ t # <<>> /\ \A f \in DOMAIN t : IsFrame(t[f])
  BY <1>4, <1>5, PushKeepsFrames DEF OrderInv
<1>7. stack' = t
  BY <1>3, <1>5
<1>8. /\ stack' \in Seq(Range(stack')) /\ stack' # <<>>
      /\ \A f \in DOMAIN stack' : IsFrame(stack'[f])
  BY <1>6, <1>7
<1>. QED  BY <1>1, <1>2, <1>8 DEF OrderInv

(* An integer, whatever its value.                                       *)
LEMMA DecodeIntegerKeepsOrder == OrderInv /\ DecodeInteger => OrderInv'
<1> SUFFICES ASSUME OrderInv, DecodeInteger PROVE OrderInv'
  OBVIOUS
<1>1. UNCHANGED text
  BY DEF DecodeInteger
<1>2. CASE Found("e")
  <2>1. PICK end \in Nat : end = FirstOf("e")
    BY <1>2, FirstOfProperties DEF OrderInv
  <2>2. /\ MoveTo(end)
        /\ \/ /\ \E i : Return(BInteger(i))
              /\ UNCHANGED stack
           \/ Throw("error")
    BY <1>2, <2>1 DEF DecodeInteger
  <2>3. StreamShape' /\ stream'.pos \in Nat
    BY <2>1, <2>2, MoveKeepsStream
  <2>4. CASE (\E i : Return(BInteger(i))) /\ UNCHANGED stack
    <3>1. IsItem(ret') /\ mode' # "loop"
      BY <2>4, PlainItems DEF Return
    <3>. QED  BY <1>1, <2>3, <2>4, <3>1, ReturnKeepsOrder
  <2>. QED  BY <1>1, <2>2, <2>3, <2>4, ThrowKeepsOrder
<1>3. CASE ~Found("e")
  <2>1. stream' = Exhausted /\ Throw("error")
    BY <1>3 DEF DecodeInteger
  <2>. QED  BY <1>1, <2>1, ExhaustedKeepsStream, ThrowKeepsOrder
<1>. QED  BY <1>2, <1>3

(* A string is the length it announces, all of it from the text.         *)
LEMMA DecodeStringKeepsOrder == OrderInv /\ DecodeString => OrderInv'
<1> SUFFICES ASSUME OrderInv, DecodeString PROVE OrderInv'
  OBVIOUS
<1>1. UNCHANGED text
  BY DEF DecodeString
<1>2. CASE stream' = Exhausted /\ Throw("error")
  BY <1>1, <1>2, ExhaustedKeepsStream, ThrowKeepsOrder
<1>3. CASE Found(":") /\ ~(stream' = Exhausted /\ Throw("error"))
  <2>1. PICK n \in Nat : n = Len(text)
    BY LenProperties DEF OrderInv
  <2>2. PICK end \in 1..n : end = FirstOf(":")
    BY <1>3, <2>1, FirstOfProperties DEF OrderInv
  <2>3. PICK length : length = Value(SubSeq(text, stream.pos + 1, end - 1))
    OBVIOUS
  <2>4. \/ MoveTo(end - 1) /\ Throw("error")
        \/ MoveTo(end) /\ Throw("bad_alloc")
        \/ /\ length \in 0..(n - end)
           /\ MoveTo(end + length)
           /\ Return(BString(SubSeq(text, end + 1, end + length)))
           /\ UNCHANGED stack
    BY <1>3, <2>1, <2>2, <2>3, Zenon DEF DecodeString
  <2>5. CASE MoveTo(end - 1) /\ Throw("error")
    <3>1. end - 1 \in Nat
      OBVIOUS
    <3>. QED  BY <1>1, <2>5, <3>1, MoveKeepsStream, ThrowKeepsOrder
  <2>6. CASE MoveTo(end) /\ Throw("bad_alloc")
    <3>1. end \in Nat
      OBVIOUS
    <3>. QED  BY <1>1, <2>6, <3>1, MoveKeepsStream, ThrowKeepsOrder
  <2>7. CASE /\ length \in 0..(n - end)
             /\ MoveTo(end + length)
             /\ Return(BString(SubSeq(text, end + 1, end + length)))
             /\ UNCHANGED stack
    <3>1. PICK m \in Nat : m = end + length
      BY <2>7
    <3>2. m <= n /\ end + 1 \in Nat \ {0}
      BY <2>7, <3>1
    <3>3. PICK s : s = SubSeq(text, end + 1, m)
      OBVIOUS
    <3>4. s \in Seq(Char)
      BY <2>1, <3>2, <3>3, ReadIsString
    <3>5. ret' = BString(s) /\ mode' = "return"
      BY <2>7, <3>1, <3>3, Zenon DEF Return
    <3>6. IsItem(ret')
      BY <3>4, <3>5, PlainItems, Zenon
    <3>7. StreamShape' /\ stream'.pos \in Nat
      BY <2>7, <3>1, MoveKeepsStream
    <3>. QED  BY <1>1, <2>7, <3>5, <3>6, <3>7, ReturnKeepsOrder
  <2>. QED  BY <2>4, <2>5, <2>6, <2>7
<1>4. Found(":") \/ (stream' = Exhausted /\ Throw("error"))
  BY DEF DecodeString
<1>. QED  BY <1>2, <1>3, <1>4

(* No item begins here.                                                  *)
LEMMA UnexpectedKeepsOrder == OrderInv /\ Unexpected => OrderInv'
BY PeekKeepsStream, ThrowKeepsOrder DEF Unexpected

(* The next child, the end of the container, or neither.                 *)
LEMMA LoopKeepsOrder == OrderInv /\ Loop => OrderInv'
<1> SUFFICES ASSUME OrderInv, Loop PROVE OrderInv'
  OBVIOUS
<1>1. UNCHANGED text /\ stack # <<>>
  BY DEF Loop, OrderInv
<1>2. \/ /\ stream' = Peeked(stream) /\ mode' = "decode"
         /\ UNCHANGED <<stack, ret>>
      \/ /\ MoveTo(stream.pos + 1)
         /\ Return(Top.item)
         /\ stack' = Front(stack)
      \/ stream' = [Peeked(stream) EXCEPT !.fail = TRUE] /\ Throw("error")
  BY DEF Loop
<1>3. CASE /\ stream' = Peeked(stream) /\ mode' = "decode"
           /\ UNCHANGED <<stack, ret>>
  <2>1. StreamShape' /\ stream'.pos \in Nat
    BY <1>3, PeekKeepsStream
  <2>. QED  BY <1>1, <1>3, <2>1 DEF OrderInv
<1>4. CASE /\ MoveTo(stream.pos + 1)
           /\ Return(Top.item)
           /\ stack' = Front(stack)
  <2>1. stream.pos + 1 \in Nat
    BY DEF OrderInv
  <2>2. StreamShape' /\ stream'.pos \in Nat
    BY <1>4, <2>1, MoveKeepsStream
  <2>3. PICK t : t = Front(stack)
    OBVIOUS
  <2>4. t \in Seq(Range(t)) /\ \A f \in DOMAIN t : IsFrame(t[f])
    BY <1>1, <2>3, PopKeepsFrames
  <2>5. stack' = t
    BY <1>4, <2>3
  <2>6. /\ stack' \in Seq(Range(stack'))
        /\ \A f \in DOMAIN stack' : IsFrame(stack'[f])
    BY <2>4, <2>5
  <2>7. IsItem(Top.item)
    BY <1>1, TopIsFrame DEF IsFrame
  <2>. QED  BY <1>1, <1>4, <2>2, <2>6, <2>7 DEF OrderInv, Return
<1>5. CASE stream' = [Peeked(stream) EXCEPT !.fail = TRUE] /\ Throw("error")
  BY <1>1, <1>5, PeekKeepsStream, ThrowKeepsOrder
<1>. QED  BY <1>2, <1>3, <1>4, <1>5

(* The innermost frame is replaced; the stream waits.                      *)
LEMMA SetTopKeepsOrder ==
    ASSUME OrderInv, stack # <<>>, NEW frame, IsFrame(frame), SetTop(frame),
           UNCHANGED <<text, stream, ret>>
    PROVE  OrderInv'
<1>1. PICK t : t = [stack EXCEPT ![Len(stack)] = frame]
  OBVIOUS
<1>2. t \in Seq(Range(t)) /\ t # <<>> /\ \A f \in DOMAIN t : IsFrame(t[f])
  BY <1>1, SetTopKeepsFrames
<1>3. stack' = t
  BY <1>1 DEF SetTop
<1>4. /\ stack' \in Seq(Range(stack')) /\ stack' # <<>>
      /\ \A f \in DOMAIN stack' : IsFrame(stack'[f])
  BY <1>2, <1>3
<1>. QED  BY <1>4 DEF OrderInv, StreamShape

(* A child is appended to its list.                                      *)
LEMMA ListItemKeepsOrder == OrderInv /\ ListItem => OrderInv'
<1> SUFFICES ASSUME OrderInv, ListItem PROVE OrderInv'
  OBVIOUS
<1>1. PICK f : f = Top
  OBVIOUS
<1>2. /\ stack # <<>>
      /\ SetTop([f EXCEPT !.item.l = Append(@, ret)])
      /\ UNCHANGED <<text, stream, ret>>
  BY <1>1 DEF ListItem
<1>3. IsFrame(f)
  BY <1>1, <1>2, TopIsFrame
<1>4. PICK l : l = Append(f.item.l, ret)
  OBVIOUS
<1>5. PICK item : item = [f.item EXCEPT !.l = l]
  OBVIOUS
<1>6. IsItem(item)
  BY <1>3, <1>5, ListIsItem DEF IsFrame
<1>7. PICK t : t = [f EXCEPT !.item.l = Append(@, ret)]
  OBVIOUS
<1>8. t = [item |-> item, keyed |-> f.keyed, key |-> f.key]
  BY <1>3, <1>4, <1>5, <1>7 DEF IsFrame
<1>9. IsFrame(t)
  BY <1>3, <1>6, <1>8 DEF IsFrame
<1>. QED  BY <1>2, <1>7, <1>9, SetTopKeepsOrder

(* A string becomes the key of the next entry.                           *)
LEMMA DictKeyKeepsOrder == OrderInv /\ DictKey => OrderInv'
<1> SUFFICES ASSUME OrderInv, DictKey PROVE OrderInv'
  OBVIOUS
<1>1. CASE Throw("error")
  BY <1>1, ThrowKeepsOrder DEF DictKey, OrderInv, StreamShape
<1>2. CASE ~Throw("error")
  <2>1. PICK f : f = Top
    OBVIOUS
  <2>2. /\ stack # <<>>
        /\ SetTop([f EXCEPT !.keyed = TRUE, !.key = ret.s])
        /\ UNCHANGED <<text, stream, ret>>
    BY <1>2, <2>1 DEF DictKey
  <2>3. IsFrame(f)
    BY <2>1, <2>2, TopIsFrame
  <2>4. PICK t : t = [f EXCEPT !.keyed = TRUE, !.key = ret.s]
    OBVIOUS
  <2>5. t = [item |-> f.item, keyed |-> TRUE, key |-> ret.s]
    BY <2>3, <2>4 DEF IsFrame
  <2>6. ret.s \in Seq(Char)
    BY DEF OrderInv, IsItem
  <2>7. IsFrame(t)
    BY <2>3, <2>5, <2>6 DEF IsFrame
  <2>. QED  BY <2>2, <2>4, <2>7, SetTopKeepsOrder
<1>. QED  BY <1>1, <1>2

(* An entry is inserted in its place.                                    *)
LEMMA DictValueKeepsOrder == OrderInv /\ DictValue => OrderInv'
<1> SUFFICES ASSUME OrderInv, DictValue PROVE OrderInv'
  OBVIOUS
<1>1. PICK f : f = Top
  OBVIOUS
<1>2. /\ stack # <<>> /\ f.item.type = "dict"
      /\ SetTop([f EXCEPT !.keyed = FALSE, !.key = <<>>,
                          !.item.d = Assigned(@, f.key, ret)])
      /\ UNCHANGED <<text, stream, ret>>
  BY <1>1 DEF DictValue
<1>3. IsFrame(f)
  BY <1>1, <1>2, TopIsFrame
<1>4. PICK item : item = [f.item EXCEPT !.d = Assigned(@, f.key, ret)]
  OBVIOUS
<1>5. IsItem(item)
  BY <1>2, <1>3, <1>4, EntryIsItem DEF IsFrame
<1>6. PICK t : t = [f EXCEPT !.keyed = FALSE, !.key = <<>>,
                             !.item.d = Assigned(@, f.key, ret)]
  OBVIOUS
<1>7. t = [item |-> item, keyed |-> FALSE, key |-> <<>>]
  BY <1>3, <1>4, <1>6 DEF IsFrame
<1>8. IsFrame(t)
  BY <1>5, <1>7, EmptySeq DEF IsFrame
<1>. QED  BY <1>2, <1>6, <1>8, SetTopKeepsOrder

(* decode() returns what the outermost call has returned.                *)
LEMMA FinishKeepsOrder == OrderInv /\ Finish => OrderInv'
<1> SUFFICES ASSUME OrderInv, Finish PROVE OrderInv'
  OBVIOUS
<1>1. /\ UNCHANGED text
      /\ stream' = Peeked(stream) \/ UNCHANGED stream
      /\ \/ mode' = "done" /\ UNCHANGED <<stack, ret>>
         \/ Throw("error")
  BY DEF Finish
<1>2. StreamShape' /\ stream'.pos \in Nat
  BY <1>1, PeekKeepsStream DEF OrderInv, StreamShape
<1>. QED  BY <1>1, <1>2, ThrowKeepsOrder DEF OrderInv

(* A step that leaves the decoder's items and stream alone.                *)
LEMMA AsideKeepsOrder ==
    ASSUME OrderInv, UNCHANGED <<text, stream, stack, ret>>,
           mode' # "loop" \/ mode' = mode
    PROVE  OrderInv'
BY DEF OrderInv, StreamShape

(* The caller puts an item in the place of the one it has.                 *)
LEMMA EditKeepsOrder ==
    ASSUME OrderInv, NEW types, NEW item, Edit(types, item),
           ret.type \in types => IsItem(item)
    PROVE  OrderInv'
BY DEF Edit, OrderInv, StreamShape

(* One case per step of the decoder.                                     *)
LEMMA DecoderKeepsOrder == OrderInv /\ DecoderNext => OrderInv'
<1>1. OrderInv /\ DecodeNext => OrderInv'
  BY AsideKeepsOrder DEF DecodeNext
<1>. QED
  BY <1>1, OpenKeepsOrder, DecodeIntegerKeepsOrder, DecodeStringKeepsOrder,
     UnexpectedKeepsOrder, LoopKeepsOrder, ListItemKeepsOrder,
     DictKeyKeepsOrder, DictValueKeepsOrder, FinishKeepsOrder DEF DecoderNext

-----------------------------------------------------------------------------
(* What the caller's changes make of the item it has.                      *)

(* operator[], read only: a missing key is put where it belongs.           *)
LEMMA LookupKeepsOrder ==
    ASSUME OrderInv, NEW key \in Keys, Lookup(key)
    PROVE  OrderInv'
<1>1. key \in Seq(Char)
  BY CallerAssumption
<1>2. PICK item : item = [ret EXCEPT !.d = Assigned(@, key, NullItem)]
  OBVIOUS
<1>3. /\ ret.type = "dict" /\ IsItem(ret)
      /\ Edit({"dict"}, IF Holds(ret.d, key) THEN ret ELSE item)
  BY <1>2 DEF Lookup, Edit, OrderInv
<1>4. IsItem(item)
  BY <1>1, <1>2, <1>3, EntryIsItem
<1>. QED  BY <1>3, <1>4, EditKeepsOrder

(* An assignment, of an item or a null pointer.                            *)
LEMMA AssignKeepsOrder ==
    ASSUME OrderInv, NEW key \in Keys, NEW value \in Values, Assign(key, value)
    PROVE  OrderInv'
<1>1. key \in Seq(Char)
  BY CallerAssumption
<1>2. PICK item : item = [ret EXCEPT !.d = Assigned(@, key, value)]
  OBVIOUS
<1>3. ret.type = "dict" /\ IsItem(ret) /\ Edit({"dict"}, item)
  BY <1>2 DEF Assign, Edit, OrderInv
<1>4. IsItem(item)
  BY <1>1, <1>2, <1>3, EntryIsItem
<1>. QED  BY <1>3, <1>4, EditKeepsOrder

(* push_back, pop_back, and assignments to the ends of a list.           *)
LEMMA ListKeepsOrder ==
    ASSUME OrderInv,
           \/ \E value \in Values : \/ PushBack(value)
                                    \/ AssignFront(value)
                                    \/ AssignBack(value)
           \/ PopBack
    PROVE  OrderInv'
<1>1. IsItem(ret)
  BY DEF OrderInv
<1>2. ASSUME NEW l, NEW item, item = [ret EXCEPT !.l = l], Edit({"list"}, item)
      PROVE  OrderInv'
  BY <1>1, <1>2, ListIsItem, EditKeepsOrder
<1>3. ASSUME NEW value, PushBack(value)
      PROVE  OrderInv'
  <2>1. PICK item : item = [ret EXCEPT !.l = Append(@, value)]
    OBVIOUS
  <2>2. item = [ret EXCEPT !.l = Append(ret.l, value)]
    BY <2>1
  <2>3. Edit({"list"}, item)
    BY <1>3, <2>1 DEF PushBack
  <2>. QED  BY <1>2, <2>2, <2>3
<1>4. ASSUME PopBack PROVE OrderInv'
  <2>1. PICK item : item = [ret EXCEPT !.l = Front(@)]
    OBVIOUS
  <2>2. item = [ret EXCEPT !.l = Front(ret.l)]
    BY <2>1
  <2>3. Edit({"list"}, item)
    BY <1>4, <2>1 DEF PopBack
  <2>. QED  BY <1>2, <2>2, <2>3
<1>5. ASSUME NEW value, AssignFront(value)
      PROVE  OrderInv'
  <2>1. PICK item : item = [ret EXCEPT !.l[1] = value]
    OBVIOUS
  <2>2. item = [ret EXCEPT !.l = [ret.l EXCEPT ![1] = value]]
    BY <2>1
  <2>3. Edit({"list"}, item)
    BY <1>5, <2>1 DEF AssignFront
  <2>. QED  BY <1>2, <2>2, <2>3
<1>6. ASSUME NEW value, AssignBack(value)
      PROVE  OrderInv'
  <2>1. PICK item : item = [ret EXCEPT !.l[Len(ret.l)] = value]
    OBVIOUS
  <2>2. item = [ret EXCEPT !.l = [ret.l EXCEPT ![Len(ret.l)] = value]]
    BY <2>1
  <2>3. Edit({"list"}, item)
    BY <1>6, <2>1 DEF AssignBack
  <2>. QED  BY <1>2, <2>2, <2>3
<1>. QED  BY <1>3, <1>4, <1>5, <1>6

(* The two entries of a new dictionary are put in order.                   *)
LEMMA CreateKeepsOrder ==
    ASSUME OrderInv,
           \/ \E value \in Values : SetValue(value) \/ CreateList(value)
           \/ \E k, l \in Keys, value \in Values : CreateDict(k, l, value)
    PROVE  OrderInv'
<1>1. ASSUME NEW value \in Values, SetValue(value)
      PROVE  OrderInv'
  <2>1. IsItem(value)
    BY CallerAssumption
  <2>. QED  BY <1>1, <2>1, EditKeepsOrder DEF SetValue
<1>2. ASSUME NEW value \in Values, CreateList(value)
      PROVE  OrderInv'
  <2>1. PICK item : item = [Item("list") EXCEPT !.l = <<ret, value>>]
    OBVIOUS
  <2>2. IsItem(item)
    BY <2>1, PlainItems, ListIsItem
  <2>3. Edit({"int", "str"}, item)
    BY <1>2, <2>1 DEF CreateList
  <2>. QED  BY <2>2, <2>3, EditKeepsOrder
<1>3. ASSUME NEW k \in Keys, NEW l \in Keys, NEW value \in Values,
             CreateDict(k, l, value)
      PROVE  OrderInv'
  <2>1. k \in Seq(Char) /\ l \in Seq(Char)
    BY CallerAssumption
  <2>2. PICK e : e = [key |-> k, val |-> ret]
    OBVIOUS
  <2>3. PICK first : first = <<e>>
    OBVIOUS
  <2>4. IsMap(first)
    <3>1. first \in Seq({e}) /\ DOMAIN first = {1} /\ first[1] = e
      BY <2>3
    <3>2. first \in Seq(Range(first))
      BY <3>1, SeqOfRange
    <3>3. e.key = k
      BY <2>2
    <3>. QED  BY <2>1, <3>1, <3>2, <3>3 DEF IsMap
  <2>5. PICK d : d = IF Holds(first, l) THEN first
                     ELSE Assigned(first, l, value)
    OBVIOUS
  <2>6. IsMap(d)
    BY <2>1, <2>4, <2>5, AssignedIsMap
  <2>7. PICK item : item = [Item("dict") EXCEPT !.d = d]
    OBVIOUS
  <2>8. item = [type |-> "dict", i |-> 0, s |-> <<>>, l |-> <<>>, d |-> d]
    BY <2>7 DEF Item
  <2>9. IsItem(item)
    BY <2>6, <2>8, EmptySeq DEF IsItem
  <2>10. Edit({"int", "str"}, item)
    BY <1>3, <2>2, <2>3, <2>5, <2>7, Zenon DEF CreateDict
  <2>. QED  BY <2>9, <2>10, EditKeepsOrder
<1>. QED  BY <1>1, <1>2, <1>3

-----------------------------------------------------------------------------

(* Everything the caller does to the item it has.                          *)
Changes ==
    \/ \E key \in Keys : Lookup(key)
    \/ \E key \in Keys, value \in Values : Assign(key, value)
    \/ \E value \in Values : PushBack(value)
    \/ PopBack
    \/ \E value \in Values : \/ AssignFront(value)
                             \/ AssignBack(value)
                             \/ SetValue(value)
                             \/ CreateList(value)
    \/ \E k, l \in Keys, value \in Values : CreateDict(k, l, value)

(* The caller's changes keep the order.                                  *)
LEMMA ChangesKeepOrder ==
    OrderInv /\ Changes => OrderInv'
BY LookupKeepsOrder, AssignKeepsOrder, ListKeepsOrder, CreateKeepsOrder DEF Changes

(* Any other step leaves the items alone, or is the decoder's.             *)
LEMMA OthersKeepOrder ==
    ASSUME OrderInv,
           \/ DecoderNext
           \/ Encode \/ VisitContainer \/ VisitLeaf \/ VisitNull \/ Encoded
           \/ \E indent \in Indents : getPrettyRepr(indent)
           \/ PrintContainer \/ PrintText \/ PrintClose \/ PrintNull \/ Printed
           \/ UNCHANGED vars
    PROVE  OrderInv'
<1>1. CASE DecoderNext
  BY <1>1, DecoderKeepsOrder
<1>2. CASE Encode \/ VisitNull \/ Encoded
  BY <1>2, AsideKeepsOrder DEF Encode, VisitNull, Encoded
<1>3. CASE VisitContainer \/ VisitLeaf
  BY <1>3, AsideKeepsOrder DEF VisitContainer, VisitLeaf, decoderVars
<1>4. CASE \/ \E indent \in Indents : getPrettyRepr(indent)
           \/ PrintNull \/ Printed
  BY <1>4, AsideKeepsOrder DEF getPrettyRepr, PrintNull, Printed
<1>5. CASE PrintContainer \/ PrintText \/ PrintClose \/ UNCHANGED vars
  BY <1>5, AsideKeepsOrder
     DEF PrintContainer, PrintText, PrintClose, vars, decoderVars
<1>. QED  BY <1>1, <1>2, <1>3, <1>4, <1>5

(* One case per step of the session.                                     *)
LEMMA SessionKeepsOrder == OrderInv /\ [SessionNext]_sessionVars => OrderInv'
BY ChangesKeepOrder, OthersKeepOrder
   DEF SessionNext, Next, Changes, sessionVars

(* Nothing has been decoded yet.                                         *)
LEMMA SessionInitOrder == SessionInit => OrderInv
<1> SUFFICES ASSUME SessionInit PROVE OrderInv
  OBVIOUS
<1>1. /\ text \in Seq(Char) /\ stream = Opened
      /\ stack = <<>> /\ mode = "decode" /\ ret = NullItem
  BY TextsAssumption DEF SessionInit, Init, DecoderInit
<1>2. <<>> \in Seq(Range(<<>>)) /\ DOMAIN <<>> = {}
  BY EmptySeq, LenProperties
<1>. QED  BY <1>1, <1>2, NullIsItem DEF OrderInv, StreamShape, Opened

(* Whatever the order and the repetitions of the keys in the text, and     *)
(* whatever the caller looks up and assigns: a dictionary iterates in the  *)
(* order of its keys, each once (BDictionary.h:25-35).                     *)
THEOREM DictionariesStayInOrder == SessionSpec => []KeysInOrder
<1>1. OrderInv => KeysInOrder
  BY MapIsSorted DEF OrderInv, IsFrame, IsItem, KeysInOrder
<1>. QED
  BY <1>1, SessionInitOrder, SessionKeepsOrder, PTL DEF SessionSpec
=============================================================================
