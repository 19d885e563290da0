--------------------------- MODULE BeEncodeProofs ---------------------------
(***************************************************************************)
(* be_encode, for every set of trees and of buffer sizes: the cursors of   *)
(* the nested calls agree, no byte is written past the buffer, and the     *)
(* encoder as a whole implements OutputBuffer.                             *)
(***************************************************************************)
EXTENDS BeEncode, SequenceTheorems, TLAPS

-----------------------------------------------------------------------------
(* The inductive invariant.                                                *)

(* A call that waits for another is in its loop, and a call that is not in *)
(* its loop yet has counted one byte, for the opening character.           *)
FramesWaiting ==
    /\ \A c \in 1..Len(frames) :
          c < Len(frames) \/ mode = "ret" => frames[c].looping
    /\ \A c \in 1..Len(frames) : ~frames[c].looping => frames[c].sz = 1

IInv ==
    /\ TypeOK
    /\ FramesWaiting
    /\ CursorsAgree
    /\ NoGapNoOverlap
    /\ NeverOverruns
    /\ SizeIsBytesWritten

-----------------------------------------------------------------------------
(* Sequences and texts.                                                    *)

(* The calls without the innermost one.                                    *)
LEMMA CallersOfFrames ==
    ASSUME frames \in Seq(Frame), frames # <<>>
    PROVE  /\ Callers \in Seq(Frame)
           /\ Len(Callers) = Len(frames) - 1
           /\ \A c \in 1..(Len(frames) - 1) : Callers[c] = frames[c]
<1>1. Len(frames) \in Nat /\ Len(frames) >= 1
  BY EmptySeq
<1>2. PICK n \in Nat : n = Len(frames) - 1
  BY <1>1
<1>3. \A c \in 1..n : frames[c] \in Frame
  BY <1>1, <1>2
<1>4. /\ SubSeq(frames, 1, n) \in Seq(Frame)
      /\ Len(SubSeq(frames, 1, n)) = n
      /\ \A c \in 1..n : SubSeq(frames, 1, n)[c] = frames[c]
  BY <1>2, <1>3, SubSeqProperties
<1>. QED  BY <1>2, <1>4 DEF Callers

(* The innermost call is one of the calls.                                 *)
LEMMA TopIsFrame ==
    ASSUME frames \in Seq(Frame), frames # <<>>
    PROVE  Len(frames) \in Nat /\ Len(frames) >= 1 /\ Top \in Frame
<1>1. Len(frames) \in Nat /\ Len(frames) >= 1
  BY EmptySeq
<1>. QED  BY <1>1, ElementOfSeq DEF Top

(* Storing bytes at the end of what has been written.                      *)
LEMMA WriteAtEnd ==
    ASSUME out \in Seq(Byte), NEW s \in Seq(Byte), Write(Len(out), s)
    PROVE  out' \in Seq(Byte) /\ Len(out') = Len(out) + Len(s)
<1>1. Len(out) \in Nat /\ Len(s) \in Nat
  OBVIOUS
<1>2. /\ SubSeq(out, 1, Len(out)) \in Seq(Byte)
      /\ Len(SubSeq(out, 1, Len(out))) = Len(out)
  BY <1>1, SubSeqProperties, ElementOfSeq
<1>3. SubSeq(out, Len(out) + Len(s) + 1, Len(out)) = <<>>
  BY <1>1, SubSeqEmpty
<1>4. PICK t \in Seq(Byte) : t = SubSeq(out, 1, Len(out)) \o s
  BY <1>2, ConcatProperties
<1>5. Len(t) = Len(out) + Len(s)
  BY <1>2, <1>4, ConcatProperties
<1>6. out' = t \o <<>>
  BY <1>3, <1>4 DEF Write
<1>7. out' = t
  BY <1>6, ConcatEmptySeq
<1>. QED  BY <1>5, <1>7

(* The texts of integers and strings are bytes.                            *)
LEMMA TextsAreBytes ==
    /\ \A i \in Ints : IntText(i) \in Seq(Byte)
    /\ \A s \in Seq(Byte) : Len(s) \in Ints => StrText(s) \in Seq(Byte)
<1>1. "i" \in Byte /\ "e" \in Byte /\ ":" \in Byte
  BY ByteAssumption DEF Syntax
<1>2. <<"i">> \in Seq(Byte) /\ <<"e">> \in Seq(Byte) /\ <<":">> \in Seq(Byte)
  BY <1>1
<1>3. \A i \in Ints : Decimal[i] \in Seq(Byte)
  BY DecimalAssumption
<1>4. ASSUME NEW i \in Ints PROVE IntText(i) \in Seq(Byte)
  BY <1>2, <1>3, ConcatProperties DEF IntText
<1>5. ASSUME NEW s \in Seq(Byte), Len(s) \in Ints PROVE StrText(s) \in Seq(Byte)
  BY <1>2, <1>3, <1>5, ConcatProperties DEF StrText
<1>. QED  BY <1>4, <1>5

-----------------------------------------------------------------------------
(* What a call can do to the stack of calls.                               *)

(* A running call returns r to its caller.  Unless r is a failure, the     *)
(* bytes written since the call started are r.                             *)
LEMMA ReturnKeepsInvariant ==
    ASSUME IInv, mode = "run", NEW r \in Int, Return(r),
           UNCHANGED <<root, buf, cap>>,
           out' \in Seq(Byte), Len(out') <= (IF buf THEN cap ELSE 0),
           buf /\ r >= 0 => Len(out') = StartOf(Top) + r
    PROVE  IInv'
<1>1. /\ frames \in Seq(Frame) /\ frames # <<>>
      /\ root \in Nodes /\ buf \in BOOLEAN /\ cap \in Caps /\ cap \in Nat
  BY CapsAssumption DEF IInv, TypeOK
<1>2. Len(frames) \in Nat /\ Len(frames) >= 1 /\ Top \in Frame
  BY <1>1, TopIsFrame
<1>3. /\ frames' \in Seq(Frame)
      /\ Len(frames') = Len(frames) - 1
      /\ \A c \in 1..(Len(frames) - 1) : frames'[c] = frames[c]
      /\ mode' = "ret" /\ ret' = r
  BY <1>1, CallersOfFrames DEF Return
<1>4. TypeOK'
  BY <1>1, <1>3 DEF TypeOK
<1>5. FramesWaiting'
  BY <1>2, <1>3 DEF IInv, FramesWaiting
<1>6. CursorsAgree'
  BY <1>2, <1>3, EmptySeq DEF IInv, CursorsAgree, StartOf
<1>7. NoGapNoOverlap'
  <2> SUFFICES ASSUME buf, r >= 0, frames' # <<>>
               PROVE  Len(out') = frames'[Len(frames')].at + r
    BY <1>3 DEF NoGapNoOverlap, Top
  <2>1. Len(frames) - 1 >= 1
    BY <1>2, <1>3, EmptySeq
  <2>2. StartOf(Top) = frames[Len(frames) - 1].at
    BY <1>2, <2>1 DEF IInv, CursorsAgree, Top
  <2>. QED  BY <1>2, <1>3, <2>1, <2>2
<1>8. NeverOverruns'
  BY DEF NeverOverruns
<1>9. SizeIsBytesWritten'
  <2> SUFFICES ASSUME buf, r >= 0, frames' = <<>>
               PROVE  r = Len(out')
    BY <1>3 DEF SizeIsBytesWritten
  <2>1. Len(frames) = 1
    BY <1>2, <1>3, EmptySeq
  <2>2. StartOf(Top) = 0
    BY <1>1, <2>1 DEF IInv, CursorsAgree, Top
  <2>. QED  BY <2>2
<1>. QED  BY <1>4, <1>5, <1>6, <1>7, <1>8, <1>9 DEF IInv

(* The running call moves its own cursor, or takes over the bytes that its *)
(* callee wrote: it still started at the same place.                       *)
LEMMA SetTopKeepsInvariant ==
    ASSUME IInv, frames # <<>>, NEW f \in Frame, SetTop(f), mode' = "run",
           ret' \in Int, UNCHANGED <<root, buf, cap>>,
           out' \in Seq(Byte), Len(out') <= (IF buf THEN cap ELSE 0),
           f.looping,
           buf => /\ f.left = cap - f.at
                  /\ StartOf(f) = StartOf(Top)
                  /\ Len(out') = f.at
    PROVE  IInv'
<1>1. /\ frames \in Seq(Frame)
      /\ root \in Nodes /\ buf \in BOOLEAN /\ cap \in Caps /\ cap \in Nat
  BY CapsAssumption DEF IInv, TypeOK
<1>2. Len(frames) \in Nat /\ Len(frames) >= 1 /\ Top \in Frame
  BY <1>1, TopIsFrame
<1>3. /\ frames' \in Seq(Frame)
      /\ Len(frames') = Len(frames)
      /\ \A c \in 1..(Len(frames) - 1) : frames'[c] = frames[c]
      /\ frames'[Len(frames)] = f
  BY <1>1, <1>2, ExceptSeq DEF SetTop
<1>4. TypeOK'
  BY <1>1, <1>2, <1>3, EmptySeq DEF TypeOK
<1>5. FramesWaiting'
  BY <1>2, <1>3 DEF IInv, FramesWaiting
<1>6. CursorsAgree'
  <2> SUFFICES ASSUME buf PROVE CursorsAgree'
    BY DEF CursorsAgree
  <2>1. \A c \in 1..Len(frames') : frames'[c].left = cap' - frames'[c].at
    BY <1>2, <1>3 DEF IInv, CursorsAgree
  <2>2. \A c \in 1..Len(frames) : StartOf(frames'[c]) = StartOf(frames[c])
    BY <1>2, <1>3 DEF Top
  <2>3. \A c \in 1..(Len(frames) - 1) : frames'[c].at = frames[c].at
    BY <1>3
  <2>4. \A c \in 1..(Len(frames') - 1) : StartOf(frames'[c + 1]) = frames'[c].at
    BY <1>2, <1>3, <2>2, <2>3 DEF IInv, CursorsAgree
  <2>5. StartOf(frames'[1]) = 0
    BY <1>2, <2>2 DEF IInv, CursorsAgree
  <2>. QED  BY <2>1, <2>4, <2>5 DEF CursorsAgree, StartOf
<1>7. NoGapNoOverlap'
  BY <1>3 DEF NoGapNoOverlap, Top
<1>8. NeverOverruns' /\ SizeIsBytesWritten'
  BY DEF NeverOverruns, SizeIsBytesWritten
<1>. QED  BY <1>4, <1>5, <1>6, <1>7, <1>8 DEF IInv

(* The running call, perhaps moved to t, calls be_encode for a child.      *)
LEMMA PushKeepsInvariant ==
    ASSUME IInv, mode = "run", NEW node \in Nodes,
           NEW fs \in Seq(Frame), NEW t \in Frame,
           Len(fs) = Len(frames), fs[Len(frames)] = t,
           \A c \in 1..(Len(frames) - 1) : fs[c] = frames[c],
           frames' = Append(fs, Enter(node, t.at, t.left)),
           UNCHANGED <<root, buf, cap, mode, ret>>,
           out' \in Seq(Byte), Len(out') <= (IF buf THEN cap ELSE 0),
           t.looping,
           buf => /\ t.left = cap - t.at
                  /\ StartOf(t) = StartOf(Top)
                  /\ Len(out') = t.at
    PROVE  IInv'
<1>1. /\ frames \in Seq(Frame) /\ frames # <<>> /\ ret \in Int
      /\ root \in Nodes /\ buf \in BOOLEAN /\ cap \in Caps /\ cap \in Nat
  BY CapsAssumption DEF IInv, TypeOK
<1>2. Len(frames) \in Nat /\ Len(frames) >= 1 /\ Top \in Frame
  BY <1>1, TopIsFrame
<1>3. PICK e : e = Enter(node, t.at, t.left)
  OBVIOUS
<1>4. /\ e \in Frame /\ e.at = t.at /\ e.left = t.left /\ ~e.looping /\ e.sz = 1
      /\ StartOf(e) = t.at
  BY <1>3 DEF Enter, Frame, StartOf
<1>5. /\ frames' \in Seq(Frame)
      /\ Len(frames') = Len(frames) + 1
      /\ \A c \in 1..(Len(frames) - 1) : frames'[c] = frames[c]
      /\ frames'[Len(frames)] = t
      /\ frames'[Len(frames) + 1] = e
  BY <1>2, <1>3, <1>4, AppendProperties
<1>6. TypeOK'
  BY <1>1, <1>2, <1>5, EmptySeq DEF TypeOK
<1>7. FramesWaiting'
  <2>1. mode' # "ret"
    OBVIOUS
  <2>2. \A c \in 1..Len(frames) : frames'[c].looping
    BY <1>2, <1>5 DEF IInv, FramesWaiting
  <2>3. \A c \in 1..Len(frames') : ~frames'[c].looping => c = Len(frames) + 1
    BY <1>2, <1>5, <2>2
  <2>4. Len(frames') = Len(frames) + 1 /\ frames'[Len(frames) + 1].sz = 1
    BY <1>4, <1>5
  <2>5. ASSUME NEW c \in 1..Len(frames'), c < Len(frames')
        PROVE  frames'[c].looping
    BY <1>2, <2>2, <2>4, <2>5
  <2>6. ASSUME NEW c \in 1..Len(frames'), ~frames'[c].looping
        PROVE  frames'[c].sz = 1
    BY <2>3, <2>4, <2>6
  <2>. QED  BY <2>1, <2>5, <2>6 DEF FramesWaiting
<1>8. CursorsAgree'
  <2> SUFFICES ASSUME buf PROVE CursorsAgree'
    BY DEF CursorsAgree
  <2>1. \A c \in 1..Len(frames') : frames'[c].left = cap' - frames'[c].at
    BY <1>2, <1>4, <1>5 DEF IInv, CursorsAgree
  <2>2. \A c \in 1..Len(frames) : StartOf(frames'[c]) = StartOf(frames[c])
    BY <1>2, <1>5 DEF Top
  <2>3. \A c \in 1..(Len(frames) - 1) : frames'[c].at = frames[c].at
    BY <1>5
  <2>4. \A c \in 1..(Len(frames) - 1) : StartOf(frames'[c + 1]) = frames'[c].at
    BY <1>2, <2>2, <2>3 DEF IInv, CursorsAgree
  <2>5. StartOf(frames'[Len(frames) + 1]) = frames'[Len(frames)].at
    BY <1>4, <1>5
  <2>6. \A c \in 1..(Len(frames') - 1) : StartOf(frames'[c + 1]) = frames'[c].at
    BY <1>2, <1>5, <2>4, <2>5
  <2>7. StartOf(frames'[1]) = 0
    BY <1>2, <2>2 DEF IInv, CursorsAgree
  <2>. QED  BY <2>1, <2>6, <2>7 DEF CursorsAgree, StartOf
<1>9. NoGapNoOverlap'
  BY <1>4, <1>5 DEF NoGapNoOverlap, Top
<1>10. NeverOverruns' /\ SizeIsBytesWritten'
  BY DEF NeverOverruns, SizeIsBytesWritten
<1>. QED  BY <1>6, <1>7, <1>8, <1>9, <1>10 DEF IInv

-----------------------------------------------------------------------------
(* The steps of be_encode.                                                 *)

(* Where the running call stands.                                          *)
LEMMA RunningFacts ==
    ASSUME IInv, mode = "run"
    PROVE  /\ frames \in Seq(Frame) /\ frames # <<>> /\ Top \in Frame
           /\ out \in Seq(Byte) /\ cap \in Nat /\ buf \in BOOLEAN
           /\ Len(out) <= (IF buf THEN cap ELSE 0)
           /\ buf => Len(out) = Top.at /\ Top.left = cap - Top.at
           /\ ~Top.looping => Top.sz = 1
<1>1. /\ frames \in Seq(Frame) /\ frames # <<>>
      /\ out \in Seq(Byte) /\ cap \in Nat /\ buf \in BOOLEAN
  BY CapsAssumption DEF IInv, TypeOK
<1>2. Len(frames) \in Nat /\ Len(frames) >= 1 /\ Top \in Frame
  BY <1>1, TopIsFrame
<1>3. Len(out) <= (IF buf THEN cap ELSE 0)
  BY DEF IInv, NeverOverruns
<1>4. buf => Len(out) = Top.at
  BY DEF IInv, NoGapNoOverlap
<1>5. buf => Top.left = cap - Top.at
  BY <1>2 DEF IInv, CursorsAgree, Top
<1>6. ~Top.looping => Top.sz = 1
  BY <1>2 DEF IInv, FramesWaiting, Top
<1>. QED  BY <1>1, <1>2, <1>3, <1>4, <1>5, <1>6

(* A write of the running call for which there is room.                    *)
LEMMA WriteKeepsBuffer ==
    ASSUME IInv, mode = "run", NEW s \in Seq(Byte), WriteIfBuf(Top.at, s),
           buf => Len(s) <= Top.left
    PROVE  /\ out' \in Seq(Byte)
           /\ Len(out') <= (IF buf THEN cap ELSE 0)
           /\ buf => Len(out') = Top.at + Len(s)
<1>1. /\ Top \in Frame /\ out \in Seq(Byte) /\ cap \in Nat /\ buf \in BOOLEAN
      /\ Len(out) <= (IF buf THEN cap ELSE 0)
      /\ buf => Len(out) = Top.at /\ Top.left = cap - Top.at
  BY RunningFacts
<1>2. CASE buf
  <2>1. Write(Len(out), s)
    BY <1>1, <1>2 DEF WriteIfBuf
  <2>2. out' \in Seq(Byte) /\ Len(out') = Len(out) + Len(s)
    BY <1>1, <2>1, WriteAtEnd
  <2>3. Top.at \in Nat /\ Top.left \in Int /\ Len(s) \in Nat
    BY <1>1 DEF Frame
  <2>4. Len(out) = Top.at /\ Top.left = cap - Top.at /\ Len(s) <= Top.left
    BY <1>1, <1>2
  <2>5. Len(out') = Top.at + Len(s) /\ Len(out') <= cap
    BY <1>1, <2>2, <2>3, <2>4
  <2>. QED  BY <1>2, <2>2, <2>5
<1>3. CASE ~buf
  BY <1>1, <1>3 DEF WriteIfBuf
<1>. QED  BY <1>2, <1>3

(* return -1                                                               *)
LEMMA FailKeepsInvariant ==
    ASSUME IInv, mode = "run", Fail, UNCHANGED <<root, buf, cap>>
    PROVE  IInv'
<1>1. out' \in Seq(Byte) /\ Len(out') <= (IF buf THEN cap ELSE 0)
  BY RunningFacts DEF Fail
<1>2. Return(-1)
  BY DEF Fail
<1>. QED  BY <1>1, <1>2, ReturnKeepsInvariant

(* A crash leaves everything as it was.                                    *)
LEMMA CrashKeepsInvariant ==
    ASSUME IInv, mode = "run", mode' = "crash",
           UNCHANGED <<root, buf, cap, out, frames, ret>>
    PROVE  IInv'
<1>1. TypeOK'
  BY DEF IInv, TypeOK
<1>2. FramesWaiting'
  BY DEF IInv, FramesWaiting
<1>3. CursorsAgree'
  BY DEF IInv, CursorsAgree, StartOf
<1>4. NoGapNoOverlap' /\ NeverOverruns' /\ SizeIsBytesWritten'
  BY DEF IInv, NoGapNoOverlap, NeverOverruns, SizeIsBytesWritten
<1>. QED  BY <1>1, <1>2, <1>3, <1>4 DEF IInv

(* An integer or a string: written whole or not at all.                    *)
LEMMA LeafKeepsInvariant ==
    ASSUME IInv, mode = "run", ~Top.looping, NEW text \in Seq(Byte),
           Leaf(text), UNCHANGED <<root, buf, cap>>
    PROVE  IInv'
<1>1. CASE Fits(Top, text)
  <2>1. WriteIfBuf(Top.at, text) /\ Return(Len(text))
    BY <1>1 DEF Leaf
  <2>2. buf => Len(text) <= Top.left
    BY <1>1 DEF Fits
  <2>3. /\ out' \in Seq(Byte)
        /\ Len(out') <= (IF buf THEN cap ELSE 0)
        /\ buf => Len(out') = Top.at + Len(text)
    BY <2>1, <2>2, WriteKeepsBuffer
  <2>4. Top \in Frame
    BY RunningFacts
  <2>5. StartOf(Top) = Top.at
    BY <2>4 DEF StartOf, Frame
  <2>6. Len(text) \in Int
    OBVIOUS
  <2>. QED  BY <2>1, <2>3, <2>5, <2>6, ReturnKeepsInvariant
<1>2. CASE ~Fits(Top, text)
  BY <1>2, FailKeepsInvariant DEF Leaf
<1>. QED  BY <1>1, <1>2

(* if (outBuf && outBufLen == 0) return -1                                 *)
LEMMA NoRoomKeepsInvariant == IInv /\ NoRoom => IInv'
  BY FailKeepsInvariant DEF NoRoom

(* case BE_INT                                                             *)
LEMMA EncodeIntKeepsInvariant == IInv /\ EncodeInt => IInv'
<1> SUFFICES ASSUME IInv, EncodeInt PROVE IInv'
  OBVIOUS
<1>1. /\ mode = "run" /\ ~Top.looping /\ UNCHANGED <<root, buf, cap>>
      /\ Leaf(IntText(Top.node.i))
  BY DEF EncodeInt, Entered, Running
<1>2. Top.node \in Nodes
  BY <1>1, RunningFacts DEF Frame
<1>3. Top.node.i \in Ints
  BY <1>2, NodesAssumption
<1>4. IntText(Top.node.i) \in Seq(Byte)
  BY <1>3, TextsAreBytes
<1>. QED  BY <1>1, <1>4, LeafKeepsInvariant

(* case BE_STR, with the crash on a NULL string                            *)
LEMMA EncodeStringKeepsInvariant == IInv /\ EncodeString => IInv'
<1> SUFFICES ASSUME IInv, EncodeString PROVE IInv'
  OBVIOUS
<1>1. mode = "run" /\ ~Top.looping /\ UNCHANGED <<root, buf, cap>>
  BY DEF EncodeString, Entered, Running
<1>2. Top.node \in Nodes
  BY <1>1, RunningFacts DEF Frame
<1>3. Top.node.s \in CStr /\ Len(Top.node.s.s) \in Ints
  BY <1>2, NodesAssumption
<1>4. StrText(Top.node.s.s) \in Seq(Byte)
  BY <1>3, TextsAreBytes DEF CStr
<1>5. CASE Top.node.s.null
  <2>1. mode' = "crash" /\ UNCHANGED <<out, frames, ret>>
    BY <1>5 DEF EncodeString
  <2>. QED  BY <1>1, <2>1, CrashKeepsInvariant
<1>6. CASE ~Top.node.s.null
  <2>1. Leaf(StrText(Top.node.s.s))
    BY <1>6 DEF EncodeString
  <2>. QED  BY <1>1, <1>4, <2>1, LeafKeepsInvariant
<1>. QED  BY <1>5, <1>6

(* The opening character of a list or dictionary.                          *)
LEMMA OpenKeepsInvariant == IInv /\ Open => IInv'
<1> SUFFICES ASSUME IInv, Open PROVE IInv'
  OBVIOUS
<1>1. /\ mode = "run" /\ ~Top.looping /\ ~(buf /\ Top.left = 0)
      /\ UNCHANGED <<root, buf, cap, mode, ret>>
  BY DEF Open, Entered, Running
<1>2. /\ frames # <<>> /\ Top \in Frame /\ cap \in Nat /\ buf \in BOOLEAN
      /\ Len(out) <= (IF buf THEN cap ELSE 0) /\ out \in Seq(Byte)
      /\ buf => Len(out) = Top.at /\ Top.left = cap - Top.at
      /\ Top.sz = 1
  BY <1>1, RunningFacts
<1>3. PICK s : s = IF Top.node.type = "list" THEN <<"l">> ELSE <<"d">>
  OBVIOUS
<1>4. s \in Seq(Byte) /\ Len(s) = 1
  <2>1. "l" \in Byte /\ "d" \in Byte
    BY ByteAssumption DEF Syntax
  <2>2. /\ <<"l">> \in Seq(Byte) /\ Len(<<"l">>) = 1
        /\ <<"d">> \in Seq(Byte) /\ Len(<<"d">>) = 1
    BY <2>1
  <2>. QED  BY <1>3, <2>2
<1>5. WriteIfBuf(Top.at, s)
  BY <1>3 DEF Open
<1>6. Top.at \in Nat /\ Top.left \in Int /\ Top.k \in Nat /\ Top.node \in Nodes
  BY <1>2 DEF Frame
<1>7. buf => Len(s) <= Top.left
  <2> SUFFICES ASSUME buf PROVE 1 <= Top.left
    BY <1>4
  <2>1. Len(out) <= cap /\ Len(out) = Top.at /\ Top.left = cap - Top.at
    BY <1>2
  <2>2. Top.left # 0
    BY <1>1
  <2>. QED  BY <1>2, <1>6, <2>1, <2>2
<1>8. /\ out' \in Seq(Byte)
      /\ Len(out') <= (IF buf THEN cap ELSE 0)
      /\ buf => Len(out') = Top.at + 1
  BY <1>1, <1>4, <1>5, <1>7, WriteKeepsBuffer
<1>9. PICK f : f = [Eat(Top, 1) EXCEPT !.looping = TRUE]
  OBVIOUS
<1>10. SetTop(f)
  BY <1>9 DEF Open
<1>11. CASE buf
  <2>1. f = [node |-> Top.node, k |-> Top.k, at |-> Top.at + 1,
             left |-> Top.left - 1, sz |-> Top.sz, looping |-> TRUE]
    BY <1>2, <1>9, <1>11 DEF Eat, Frame
  <2>2. f \in Frame
    BY <1>2, <1>6, <2>1 DEF Frame
  <2>3. StartOf(f) = Top.at /\ StartOf(Top) = Top.at
    BY <1>1, <1>2, <1>6, <2>1 DEF StartOf
  <2>4. f.left = cap - f.at
    BY <1>2, <1>6, <1>11, <2>1
  <2>5. Len(out') = f.at /\ f.looping
    BY <1>8, <1>11, <2>1
  <2>. QED
    BY <1>1, <1>2, <1>8, <1>10, <2>2, <2>3, <2>4, <2>5, SetTopKeepsInvariant
       DEF IInv, TypeOK
<1>12. CASE ~buf
  <2>1. f = [node |-> Top.node, k |-> Top.k, at |-> Top.at,
             left |-> Top.left, sz |-> Top.sz, looping |-> TRUE]
    BY <1>2, <1>9, <1>12 DEF Eat, Frame
  <2>2. f \in Frame /\ f.looping
    BY <1>2, <1>6, <2>1 DEF Frame
  <2>. QED
    BY <1>1, <1>2, <1>8, <1>10, <1>12, <2>2, SetTopKeepsInvariant DEF IInv, TypeOK
<1>. QED  BY <1>11, <1>12

(* The recursive call for an item of a list.                               *)
LEMMA ListItemKeepsInvariant == IInv /\ ListItem => IInv'
<1> SUFFICES ASSUME IInv, ListItem PROVE IInv'
  OBVIOUS
<1>1. /\ mode = "run" /\ Top.looping /\ UNCHANGED <<root, buf, cap, out, mode, ret>>
      /\ Top.k < Len(Top.node.l)
      /\ frames' = Append(frames, Enter(Top.node.l[Top.k + 1], Top.at, Top.left))
  BY DEF ListItem, Running
<1>2. /\ frames \in Seq(Frame) /\ frames # <<>> /\ Top \in Frame
      /\ out \in Seq(Byte) /\ Len(out) <= (IF buf THEN cap ELSE 0)
      /\ buf => Len(out) = Top.at /\ Top.left = cap - Top.at
  BY <1>1, RunningFacts
<1>3. Top.k \in Nat /\ Top.node.l \in Seq(Nodes)
  BY <1>2, NodesAssumption DEF Frame
<1>4. Top.node.l[Top.k + 1] \in Nodes
  BY <1>1, <1>3, ElementOfSeq
<1>5. frames[Len(frames)] = Top
  BY DEF Top
<1>. QED  BY <1>1, <1>2, <1>4, <1>5, PushKeepsInvariant

(* A key of a dictionary, and the recursive call for its value.            *)
LEMMA DictEntryKeepsInvariant == IInv /\ DictEntry => IInv'
<1> SUFFICES ASSUME IInv, DictEntry PROVE IInv'
  OBVIOUS
<1>1. /\ mode = "run" /\ Top.looping /\ UNCHANGED <<root, buf, cap>>
      /\ Top.k < Len(Top.node.d)
  BY DEF DictEntry, Running
<1>2. /\ frames \in Seq(Frame) /\ frames # <<>> /\ Top \in Frame
      /\ out \in Seq(Byte) /\ cap \in Nat /\ buf \in BOOLEAN
      /\ buf => Len(out) = Top.at /\ Top.left = cap - Top.at
  BY <1>1, RunningFacts
<1>3. /\ Top.k \in Nat /\ Top.node \in Nodes /\ Top.at \in Nat
      /\ Top.left \in Int /\ Top.sz \in Nat
  BY <1>2 DEF Frame
<1>4. PICK entry : entry = Top.node.d[Top.k + 1]
  OBVIOUS
<1>5. entry \in [key: {c \in CStr : Len(c.s) \in Ints}, val: Nodes]
  <2>1. Top.node.d \in Seq([key: {c \in CStr : Len(c.s) \in Ints}, val: Nodes])
    BY <1>3, NodesAssumption
  <2>2. Top.k + 1 \in 1..Len(Top.node.d)
    BY <1>1, <1>3, <2>1, LenProperties
  <2>. QED  BY <1>4, <2>1, <2>2, ElementOfSeq
<1>6. PICK text : text = StrText(entry.key.s)
  OBVIOUS
<1>7. text \in Seq(Byte) /\ Len(text) \in Nat /\ entry.val \in Nodes
  <2>1. entry.key.s \in Seq(Byte) /\ Len(entry.key.s) \in Ints
    BY <1>5 DEF CStr
  <2>2. text \in Seq(Byte)
    BY <1>6, <2>1, TextsAreBytes
  <2>. QED  BY <1>5, <2>2
<1>8. PICK moved : moved = [Eat(Top, Len(text)) EXCEPT !.sz = @ + Len(text)]
  OBVIOUS
<1>9. CASE entry.key.null
  <2>1. mode' = "crash" /\ UNCHANGED <<out, frames, ret>>
    BY <1>4, <1>9 DEF DictEntry
  <2>. QED  BY <1>1, <2>1, CrashKeepsInvariant
<1>10. CASE ~entry.key.null /\ ~Fits(Top, text)
  <2>1. Fail
    BY <1>4, <1>6, <1>10 DEF DictEntry
  <2>. QED  BY <1>1, <2>1, FailKeepsInvariant
<1>11. CASE ~entry.key.null /\ Fits(Top, text)
  <2>1. /\ WriteIfBuf(Top.at, text) /\ UNCHANGED <<mode, ret>>
        /\ frames' = Append(Append(Callers, moved),
                            Enter(entry.val, moved.at, moved.left))
    BY <1>4, <1>6, <1>8, <1>11 DEF DictEntry
  <2>2. buf => Len(text) <= Top.left
    BY <1>11 DEF Fits
  <2>3. /\ out' \in Seq(Byte)
        /\ Len(out') <= (IF buf THEN cap ELSE 0)
        /\ buf => Len(out') = Top.at + Len(text)
    BY <1>1, <1>7, <2>1, <2>2, WriteKeepsBuffer
  <2>4. /\ moved \in Frame /\ moved.looping
        /\ buf => /\ moved.left = cap - moved.at
                  /\ StartOf(moved) = StartOf(Top)
                  /\ moved.at = Top.at + Len(text)
    <3>1. CASE buf
      <4>1. moved = [node |-> Top.node, k |-> Top.k, at |-> Top.at + Len(text),
                     left |-> Top.left - Len(text), sz |-> Top.sz + Len(text),
                     looping |-> Top.looping]
        BY <1>2, <1>8, <3>1 DEF Eat, Frame
      <4>2. Top.looping \in BOOLEAN
        BY <1>2 DEF Frame
      <4>3. moved \in Frame
        BY <1>3, <1>7, <4>1, <4>2 DEF Frame
      <4>4. StartOf(moved) = StartOf(Top)
        BY <1>1, <1>3, <1>7, <4>1 DEF StartOf
      <4>. QED  BY <1>1, <1>2, <1>3, <1>7, <3>1, <4>1, <4>3, <4>4
    <3>2. CASE ~buf
      <4>1. moved = [node |-> Top.node, k |-> Top.k, at |-> Top.at,
                     left |-> Top.left, sz |-> Top.sz + Len(text),
                     looping |-> Top.looping]
        BY <1>2, <1>8, <3>2 DEF Eat, Frame
      <4>2. Top.looping \in BOOLEAN
        BY <1>2 DEF Frame
      <4>3. moved \in Frame
        BY <1>3, <1>7, <4>1, <4>2 DEF Frame
      <4>. QED  BY <1>1, <3>2, <4>1, <4>3
    <3>. QED  BY <3>1, <3>2
  <2>5. PICK fs : fs = Append(Callers, moved)
    OBVIOUS
  <2>6. /\ fs \in Seq(Frame) /\ Len(fs) = Len(frames) /\ fs[Len(frames)] = moved
        /\ \A c \in 1..(Len(frames) - 1) : fs[c] = frames[c]
    <3>1. /\ Callers \in Seq(Frame) /\ Len(Callers) = Len(frames) - 1
          /\ \A c \in 1..(Len(frames) - 1) : Callers[c] = frames[c]
      BY <1>2, CallersOfFrames
    <3>2. Len(frames) \in Nat
      BY <1>2
    <3>3. /\ Append(Callers, moved) \in Seq(Frame)
          /\ Len(Append(Callers, moved)) = Len(Callers) + 1
          /\ \A c \in 1..Len(Callers) : Append(Callers, moved)[c] = Callers[c]
          /\ Append(Callers, moved)[Len(Callers) + 1] = moved
      BY <2>4, <3>1, AppendProperties
    <3>. QED  BY <2>5, <3>1, <3>2, <3>3
  <2>. QED
    BY <1>1, <1>7, <2>1, <2>3, <2>4, <2>5, <2>6, PushKeepsInvariant
<1>. QED  BY <1>9, <1>10, <1>11

(* The closing character of a list or dictionary.                          *)
LEMMA CloseKeepsInvariant == IInv /\ Close => IInv'
<1> SUFFICES ASSUME IInv, Close PROVE IInv'
  OBVIOUS
<1>1. mode = "run" /\ Top.looping /\ UNCHANGED <<root, buf, cap>>
  BY DEF Close, Running
<1>2. /\ Top \in Frame /\ cap \in Nat /\ buf \in BOOLEAN /\ out \in Seq(Byte)
      /\ Len(out) <= (IF buf THEN cap ELSE 0)
      /\ buf => Len(out) = Top.at /\ Top.left = cap - Top.at
  BY <1>1, RunningFacts
<1>3. Top.at \in Nat /\ Top.left \in Int /\ Top.sz \in Nat
  BY <1>2 DEF Frame
<1>4. CASE buf /\ Top.left = 0
  BY <1>1, <1>4, FailKeepsInvariant DEF Close
<1>5. CASE ~(buf /\ Top.left = 0)
  <2>1. WriteIfBuf(Top.at, <<"e">>) /\ Return(Top.sz + 1)
    BY <1>5 DEF Close
  <2>2. <<"e">> \in Seq(Byte) /\ Len(<<"e">>) = 1
    BY ByteAssumption DEF Syntax
  <2>3. buf => Len(<<"e">>) <= Top.left
    <3> SUFFICES ASSUME buf PROVE 1 <= Top.left
      BY <2>2
    <3>1. Len(out) <= cap /\ Len(out) = Top.at /\ Top.left = cap - Top.at
      BY <1>2
    <3>2. Top.left # 0
      BY <1>5
    <3>. QED  BY <1>2, <1>3, <3>1, <3>2
  <2>4. /\ out' \in Seq(Byte)
        /\ Len(out') <= (IF buf THEN cap ELSE 0)
        /\ buf => Len(out') = Top.at + 1
    BY <1>1, <2>1, <2>2, <2>3, WriteKeepsBuffer
  <2>5. StartOf(Top) = Top.at - Top.sz
    BY <1>1 DEF StartOf
  <2>6. buf => Len(out') = StartOf(Top) + (Top.sz + 1)
    BY <1>3, <2>4, <2>5
  <2>7. Top.sz + 1 \in Int
    BY <1>3
  <2>. QED  BY <1>1, <2>1, <2>4, <2>6, <2>7, ReturnKeepsInvariant
<1>. QED  BY <1>4, <1>5

(* CHECK_AND_UPDATE: a failure is passed on, a size moves the caller.      *)
LEMMA CheckAndUpdateKeepsInvariant == IInv /\ CheckAndUpdate => IInv'
<1> SUFFICES ASSUME IInv, CheckAndUpdate PROVE IInv'
  OBVIOUS
<1>1. mode = "ret" /\ frames # <<>> /\ UNCHANGED <<root, buf, cap, out, ret>>
  BY DEF CheckAndUpdate
<1>2. /\ frames \in Seq(Frame) /\ out \in Seq(Byte) /\ cap \in Nat /\ cap \in Caps
      /\ root \in Nodes /\ buf \in BOOLEAN /\ ret \in Int
      /\ Len(out) <= (IF buf THEN cap ELSE 0)
  BY CapsAssumption DEF IInv, TypeOK, NeverOverruns
<1>3. Len(frames) \in Nat /\ Len(frames) >= 1 /\ Top \in Frame
  BY <1>1, <1>2, TopIsFrame
<1>4. CASE ret < 0
  <2>1. frames' = Callers /\ mode' = "ret"
    BY <1>1, <1>4 DEF CheckAndUpdate
  <2>2. /\ frames' \in Seq(Frame) /\ Len(frames') = Len(frames) - 1
        /\ \A c \in 1..(Len(frames) - 1) : frames'[c] = frames[c]
    BY <1>1, <1>2, <2>1, CallersOfFrames
  <2>3. TypeOK'
    BY <1>1, <1>2, <2>1, <2>2 DEF TypeOK
  <2>4. FramesWaiting'
    BY <1>1, <1>3, <2>1, <2>2 DEF IInv, FramesWaiting
  <2>5. CursorsAgree'
    BY <1>1, <1>3, <2>2, EmptySeq DEF IInv, CursorsAgree, StartOf
  <2>6. NoGapNoOverlap' /\ NeverOverruns' /\ SizeIsBytesWritten'
    BY <1>1, <1>2, <1>4, <2>1 DEF IInv, NoGapNoOverlap, NeverOverruns,
                                  SizeIsBytesWritten
  <2>. QED  BY <2>3, <2>4, <2>5, <2>6 DEF IInv
<1>5. CASE ret >= 0
  <2>1. PICK f : f = [Eat(Top, ret) EXCEPT !.sz = @ + ret, !.k = @ + 1]
    OBVIOUS
  <2>2. SetTop(f) /\ mode' = "run"
    BY <1>2, <1>5, <2>1 DEF CheckAndUpdate
  <2>3. Top.looping
    BY <1>1, <1>3 DEF IInv, FramesWaiting, Top
  <2>4. buf => Len(out) = Top.at + ret /\ Top.left = cap - Top.at
    BY <1>1, <1>3, <1>5 DEF IInv, NoGapNoOverlap, CursorsAgree, Top
  <2>5. /\ Top.k \in Nat /\ Top.node \in Nodes /\ Top.at \in Nat
        /\ Top.left \in Int /\ Top.sz \in Nat /\ Top.looping \in BOOLEAN
    BY <1>3 DEF Frame
  <2>6. CASE buf
    <3>1. f = [node |-> Top.node, k |-> Top.k + 1, at |-> Top.at + ret,
               left |-> Top.left - ret, sz |-> Top.sz + ret,
               looping |-> Top.looping]
      BY <1>3, <2>1, <2>6 DEF Eat, Frame
    <3>2. f \in Frame /\ f.looping
      <4>0. ret \in Nat
        BY <1>2, <1>5
      <4>2. Top.k + 1 \in Nat /\ Top.at + ret \in Nat
        BY <2>5, <4>0
      <4>3. Top.left - ret \in Int /\ Top.sz + ret \in Nat
        BY <2>5, <4>0
      <4>1. /\ Top.k + 1 \in Nat /\ Top.at + ret \in Nat
            /\ Top.left - ret \in Int /\ Top.sz + ret \in Nat
        BY <4>2, <4>3
      <4>. QED  BY <2>3, <2>5, <3>1, <4>1 DEF Frame
    <3>3. StartOf(f) = StartOf(Top)
      BY <1>2, <2>3, <2>5, <3>1 DEF StartOf
    <3>4. f.left = cap - f.at /\ Len(out') = f.at
      BY <1>1, <1>2, <2>4, <2>5, <2>6, <3>1
    <3>. QED
      BY <1>1, <1>2, <2>2, <3>2, <3>3, <3>4, SetTopKeepsInvariant
  <2>7. CASE ~buf
    <3>1. f = [node |-> Top.node, k |-> Top.k + 1, at |-> Top.at,
               left |-> Top.left, sz |-> Top.sz + ret,
               looping |-> Top.looping]
      BY <1>3, <2>1, <2>7 DEF Eat, Frame
    <3>2. f \in Frame /\ f.looping
      BY <1>2, <1>5, <2>3, <2>5, <3>1 DEF Frame
    <3>. QED
      BY <1>1, <1>2, <2>2, <2>7, <3>2, SetTopKeepsInvariant
  <2>. QED  BY <2>6, <2>7
<1>. QED  BY <1>2, <1>4, <1>5

(* The return of the outermost call.                                       *)
LEMMA FinishKeepsInvariant == IInv /\ Finish => IInv'
<1> SUFFICES ASSUME IInv, Finish PROVE IInv'
  OBVIOUS
<1>1. /\ mode = "ret" /\ frames = <<>> /\ mode' = "done"
      /\ UNCHANGED <<root, buf, cap, out, frames, ret>>
  BY DEF Finish
<1>2. TypeOK' /\ NeverOverruns' /\ SizeIsBytesWritten'
  BY <1>1 DEF IInv, TypeOK, NeverOverruns, SizeIsBytesWritten
<1>3. FramesWaiting' /\ CursorsAgree' /\ NoGapNoOverlap'
  BY <1>1, EmptySeq DEF FramesWaiting, CursorsAgree, NoGapNoOverlap
<1>. QED  BY <1>2, <1>3 DEF IInv

(* The outermost call starts at the beginning of the buffer.               *)
LEMMA InitEstablishes == Init => IInv
<1> SUFFICES ASSUME Init PROVE IInv
  OBVIOUS
<1>1. /\ root \in Nodes /\ buf \in BOOLEAN /\ cap \in Caps /\ cap \in Nat
      /\ out = <<>> /\ mode = "run" /\ ret = 0
  BY CapsAssumption DEF Init
<1>2. PICK e : e = Enter(root, 0, cap)
  OBVIOUS
<1>3. /\ e \in Frame /\ e.at = 0 /\ e.left = cap /\ ~e.looping /\ e.sz = 1
      /\ StartOf(e) = 0
  BY <1>1, <1>2 DEF Enter, Frame, StartOf
<1>4. frames = <<e>>
  BY <1>2 DEF Init
<1>5. frames \in Seq(Frame) /\ Len(frames) = 1 /\ frames[1] = e /\ frames # <<>>
  BY <1>3, <1>4
<1>6. TypeOK
  BY <1>1, <1>5, EmptySeq DEF TypeOK
<1>7. FramesWaiting
  BY <1>1, <1>3, <1>5 DEF FramesWaiting
<1>8. CursorsAgree
  BY <1>1, <1>3, <1>5 DEF CursorsAgree
<1>9. Len(out) = 0
  BY <1>1
<1>10. NoGapNoOverlap
  BY <1>1, <1>3, <1>5, <1>9 DEF NoGapNoOverlap, Top
<1>11. NeverOverruns /\ SizeIsBytesWritten
  BY <1>1, <1>9 DEF NeverOverruns, SizeIsBytesWritten
<1>. QED  BY <1>6, <1>7, <1>8, <1>10, <1>11 DEF IInv

-----------------------------------------------------------------------------
(* The theorems.                                                           *)

(* Every reachable state of the encoder satisfies the inductive invariant, *)
(* for every set of trees and of buffer sizes.                             *)
THEOREM Invariance == Spec => []IInv
<1>1. Init => IInv
  BY InitEstablishes
<1>2. IInv /\ [Next]_vars => IInv'
  <2> SUFFICES ASSUME IInv, [Next]_vars PROVE IInv'
    OBVIOUS
  <2>1. CASE NoRoom
    BY <2>1, NoRoomKeepsInvariant
  <2>2. CASE EncodeInt
    BY <2>2, EncodeIntKeepsInvariant
  <2>3. CASE EncodeString
    BY <2>3, EncodeStringKeepsInvariant
  <2>4. CASE Open
    BY <2>4, OpenKeepsInvariant
  <2>5. CASE ListItem
    BY <2>5, ListItemKeepsInvariant
  <2>6. CASE DictEntry
    BY <2>6, DictEntryKeepsInvariant
  <2>7. CASE Close
    BY <2>7, CloseKeepsInvariant
  <2>8. CASE CheckAndUpdate
    BY <2>8, CheckAndUpdateKeepsInvariant
  <2>9. CASE Finish
    BY <2>9, FinishKeepsInvariant
  <2>10. CASE UNCHANGED vars
    BY <2>10 DEF vars, IInv, TypeOK, FramesWaiting, CursorsAgree, StartOf,
                 NoGapNoOverlap, Top, NeverOverruns, SizeIsBytesWritten
  <2>. QED
    BY <2>1, <2>2, <2>3, <2>4, <2>5, <2>6, <2>7, <2>8, <2>9, <2>10 DEF Next
<1>. QED  BY <1>1, <1>2, PTL DEF Spec

(* Whatever the tree and however small the buffer, be_encode writes no     *)
(* byte past it, and none at all when outBuf is NULL.                      *)
THEOREM EncoderStaysInBuffer == Spec => []NeverOverruns
<1>1. IInv => NeverOverruns
  BY DEF IInv
<1>. QED  BY <1>1, Invariance, PTL

(* The by-value cursors of the nested calls describe the one buffer: each  *)
(* call started where its caller stands.                                   *)
THEOREM NestedCursorsAgree == Spec => []CursorsAgree
<1>1. IInv => CursorsAgree
  BY DEF IInv
<1>. QED  BY <1>1, Invariance, PTL

(* The size that be_encode returns is the number of bytes in the buffer.   *)
THEOREM ReturnedSizeIsWritten == Spec => []SizeIsBytesWritten
<1>1. IInv => SizeIsBytesWritten
  BY DEF IInv
<1>. QED  BY <1>1, Invariance, PTL


(* The variables keep their types, and a call that runs has its frame.     *)
THEOREM EncoderTypeCorrect == Spec => []TypeOK
<1>1. IInv => TypeOK
  BY DEF IInv
<1>. QED  BY <1>1, Invariance, PTL

(* Every byte up to the cursor of the running call has been written, and   *)
(* none beyond it; what a callee reports is what it wrote.                 *)
THEOREM NoByteSkippedOrRewritten == Spec => []NoGapNoOverlap
<1>1. IInv => NoGapNoOverlap
  BY DEF IInv
<1>. QED  BY <1>1, Invariance, PTL

-----------------------------------------------------------------------------
(* be_encode implements OutputBuffer.                                      *)

(* A call returns a size or -1, never another negative number.             *)
SizeOrFailure == ret = -1 \/ ret >= 0

LEMMA AnswerInvariance == Spec => []SizeOrFailure
<1>1. Init => SizeOrFailure
  BY DEF Init, SizeOrFailure
<1>2. IInv /\ SizeOrFailure /\ [Next]_vars => SizeOrFailure'
  <2> SUFFICES ASSUME IInv, SizeOrFailure, [Next]_vars PROVE SizeOrFailure'
    OBVIOUS
  <2>1. ASSUME NEW r \in Int, r = -1 \/ r >= 0, Return(r) PROVE SizeOrFailure'
    BY <2>1 DEF Return, SizeOrFailure
  <2>2. ASSUME Fail PROVE SizeOrFailure'
    BY <2>1, <2>2 DEF Fail
  <2>3. ASSUME NEW text \in Seq(Byte), Leaf(text) PROVE SizeOrFailure'
    <3>1. Len(text) \in Int /\ Len(text) >= 0
      OBVIOUS
    <3>. QED  BY <2>1, <2>2, <2>3, <3>1 DEF Leaf
  <2>4. CASE NoRoom
    BY <2>2, <2>4 DEF NoRoom
  <2>5. ASSUME mode = "run"
        PROVE  /\ Top.node \in Nodes /\ IntText(Top.node.i) \in Seq(Byte)
               /\ StrText(Top.node.s.s) \in Seq(Byte) /\ Top.sz \in Nat
    <3>1. Top.node \in Nodes /\ Top.sz \in Nat
      BY <2>5, RunningFacts DEF Frame
    <3>2. /\ Top.node.i \in Ints
          /\ Top.node.s \in CStr /\ Len(Top.node.s.s) \in Ints
      BY <3>1, NodesAssumption
    <3>. QED  BY <3>1, <3>2, TextsAreBytes DEF CStr
  <2>6. CASE EncodeInt
    BY <2>3, <2>5, <2>6 DEF EncodeInt, Entered, Running
  <2>7. CASE EncodeString
    BY <2>3, <2>5, <2>7 DEF EncodeString, Entered, Running, SizeOrFailure
  <2>8. CASE Open
    BY <2>8 DEF Open, SizeOrFailure
  <2>9. CASE ListItem
    BY <2>9 DEF ListItem, SizeOrFailure
  <2>10. CASE DictEntry
    BY <2>2, <2>10 DEF DictEntry, SizeOrFailure
  <2>11. CASE Close
    <3>1. Top.sz \in Nat
      BY <2>5, <2>11 DEF Close, Running
    <3>2. Top.sz + 1 \in Int /\ Top.sz + 1 >= 0
      BY <3>1
    <3>. QED  BY <2>1, <2>2, <2>11, <3>2 DEF Close
  <2>12. CASE CheckAndUpdate
    BY <2>12 DEF CheckAndUpdate, SizeOrFailure
  <2>13. CASE Finish
    BY <2>13 DEF Finish, SizeOrFailure
  <2>14. CASE UNCHANGED vars
    BY <2>14 DEF vars, SizeOrFailure
  <2>. QED  BY <2>4, <2>6, <2>7, <2>8, <2>9, <2>10, <2>11, <2>12, <2>13, <2>14
            DEF Next
<1>. QED  BY <1>1, <1>2, Invariance, PTL DEF Spec

(* What is in the buffer stays there, and more is added after it.          *)
OnlyAdds == Len(out') >= Len(out) /\ SubSeq(out', 1, Len(out)) = out

LEMMA SameAdds == ASSUME out \in Seq(Byte), out' = out PROVE OnlyAdds
<1>1. Len(out) \in Nat
  OBVIOUS
<1>. QED  BY <1>1, SubSeqFull DEF OnlyAdds

LEMMA WriteAdds ==
    ASSUME IInv, mode = "run", NEW s \in Seq(Byte), WriteIfBuf(Top.at, s)
    PROVE  OnlyAdds
<1>1. out \in Seq(Byte) /\ (buf => Len(out) = Top.at) /\ buf \in BOOLEAN
  BY RunningFacts
<1>2. CASE ~buf
  BY <1>1, <1>2, SameAdds DEF WriteIfBuf
<1>3. CASE buf
  <2>1. Write(Len(out), s)
    BY <1>1, <1>3 DEF WriteIfBuf
  <2>2. PICK n \in Nat : n = Len(out)
    BY <1>1
  <2>3. PICK m \in Nat : m = Len(s)
    OBVIOUS
  <2>4. SubSeq(out, 1, n) = out
    BY <1>1, <2>2, SubSeqFull
  <2>5. SubSeq(out, n + m + 1, n) = <<>>
    BY <1>1, <2>2, <2>3, SubSeqEmpty
  <2>6. PICK t : t = out \o s
    OBVIOUS
  <2>7. /\ t \in Seq(Byte) /\ Len(t) = Len(out) + Len(s)
        /\ \A j \in 1..(Len(out) + Len(s)) :
              t[j] = IF j <= Len(out) THEN out[j] ELSE s[j - Len(out)]
    BY <1>1, <2>6, ConcatProperties, Zenon
  <2>8. /\ Len(t) = n + m
        /\ \A j \in 1..(n + m) : t[j] = IF j <= n THEN out[j] ELSE s[j - n]
    BY <2>2, <2>3, <2>7, Zenon
  <2>9. out' = t \o <<>>
    BY <2>1, <2>2, <2>3, <2>4, <2>5, <2>6 DEF Write
  <2>10. out' = t
    BY <2>7, <2>9, ConcatEmptySeq
  <2>11. \A j \in 1..n : t[j] = out[j] /\ t[j] \in Byte
    <3>1. \A j \in 1..n : t[j] = out[j]
      BY <2>8
    <3>2. \A j \in 1..n : out[j] \in Byte
      BY <1>1, <2>2, ElementOfSeq
    <3>. QED  BY <3>1, <3>2
  <2>12. PICK u : u = SubSeq(t, 1, n)
    OBVIOUS
  <2>13. /\ u \in Seq(Byte) /\ Len(u) = n
         /\ \A j \in 1..n : u[j] = t[j]
    BY <2>11, <2>12, SubSeqProperties
  <2>14. u = out
    BY <1>1, <2>2, <2>11, <2>13, SeqEqual
  <2>. QED  BY <2>2, <2>8, <2>10, <2>12, <2>14 DEF OnlyAdds
<1>. QED  BY <1>1, <1>2, <1>3

(* An action that keeps running the call adds to the buffer, if anything.  *)
LEMMA StepAdds ==
    ASSUME IInv, Next
    PROVE  /\ OnlyAdds
           /\ UNCHANGED <<buf, cap>>
           /\ mode \in {"run", "ret"}
           /\ mode' = "done" => mode = "ret" /\ Finish
           /\ mode' = "crash" => out' = out
<1>1. out \in Seq(Byte) /\ buf \in BOOLEAN
  BY DEF IInv, TypeOK
<1>2. ASSUME mode = "run"
      PROVE  /\ Top.node \in Nodes /\ IntText(Top.node.i) \in Seq(Byte)
             /\ StrText(Top.node.s.s) \in Seq(Byte)
  <2>1. Top.node \in Nodes
    BY <1>2, RunningFacts DEF Frame
  <2>2. /\ Top.node.i \in Ints
        /\ Top.node.s \in CStr /\ Len(Top.node.s.s) \in Ints
    BY <2>1, NodesAssumption
  <2>. QED  BY <2>1, <2>2, TextsAreBytes DEF CStr
<1>3. <<"l">> \in Seq(Byte) /\ <<"d">> \in Seq(Byte) /\ <<"e">> \in Seq(Byte)
  <2>1. "l" \in Byte /\ "d" \in Byte /\ "e" \in Byte
    BY ByteAssumption DEF Syntax
  <2>. QED  BY <2>1
<1>4. ASSUME Fail PROVE OnlyAdds /\ mode' = "ret"
  BY <1>1, <1>4, SameAdds DEF Fail, Return
<1>5. ASSUME mode = "run", NEW text \in Seq(Byte), Leaf(text)
      PROVE  OnlyAdds /\ mode' = "ret"
  <2>1. CASE Fits(Top, text)
    BY <1>5, <2>1, WriteAdds DEF Leaf, Return
  <2>2. CASE ~Fits(Top, text)
    BY <1>4, <1>5, <2>2 DEF Leaf
  <2>. QED  BY <2>1, <2>2
<1>6. CASE NoRoom
  BY <1>4, <1>6 DEF NoRoom
<1>7. CASE EncodeInt
  BY <1>2, <1>5, <1>7 DEF EncodeInt, Entered, Running
<1>8. CASE EncodeString
  <2>1. mode = "run" /\ UNCHANGED <<buf, cap>>
    BY <1>8 DEF EncodeString, Entered, Running
  <2>2. CASE Top.node.s.null
    BY <1>1, <1>8, <2>1, <2>2, SameAdds DEF EncodeString
  <2>3. CASE ~Top.node.s.null
    <3>1. Leaf(StrText(Top.node.s.s))
      BY <1>8, <2>3 DEF EncodeString
    <3>. QED  BY <1>2, <1>5, <2>1, <3>1
  <2>. QED  BY <2>2, <2>3
<1>9. CASE Open
  <2>1. mode = "run" /\ mode' = "run" /\ UNCHANGED <<buf, cap>>
    BY <1>9 DEF Open, Entered, Running
  <2>2. PICK s \in Seq(Byte) : WriteIfBuf(Top.at, s)
    BY <1>3, <1>9 DEF Open
  <2>. QED  BY <2>1, <2>2, WriteAdds
<1>10. CASE ListItem
  BY <1>1, <1>10, SameAdds DEF ListItem, Running
<1>11. CASE DictEntry
  <2>1. mode = "run" /\ UNCHANGED <<buf, cap>>
    BY <1>11 DEF DictEntry, Running
  <2>2. PICK entry : entry = Top.node.d[Top.k + 1]
    OBVIOUS
  <2>3. StrText(entry.key.s) \in Seq(Byte)
    <3>1. Top.k \in Nat /\ Top.node \in Nodes
      BY <2>1, RunningFacts DEF Frame
    <3>2. Top.node.d \in Seq([key: {c \in CStr : Len(c.s) \in Ints}, val: Nodes])
      BY <3>1, NodesAssumption
    <3>3. Top.k < Len(Top.node.d)
      BY <1>11 DEF DictEntry
    <3>4. Top.k + 1 \in 1..Len(Top.node.d)
      BY <3>1, <3>2, <3>3, LenProperties
    <3>5. entry \in [key: {c \in CStr : Len(c.s) \in Ints}, val: Nodes]
      BY <2>2, <3>2, <3>4, ElementOfSeq
    <3>6. entry.key.s \in Seq(Byte) /\ Len(entry.key.s) \in Ints
      BY <3>5 DEF CStr
    <3>. QED  BY <3>6, TextsAreBytes
  <2>4. CASE entry.key.null
    BY <1>1, <1>11, <2>1, <2>2, <2>4, SameAdds DEF DictEntry
  <2>5. CASE ~entry.key.null /\ Fits(Top, StrText(entry.key.s))
    <3>1. WriteIfBuf(Top.at, StrText(entry.key.s)) /\ mode' = mode
      BY <1>11, <2>2, <2>5 DEF DictEntry
    <3>. QED  BY <2>1, <2>3, <3>1, WriteAdds
  <2>6. CASE ~entry.key.null /\ ~Fits(Top, StrText(entry.key.s))
    BY <1>4, <1>11, <2>1, <2>2, <2>6 DEF DictEntry
  <2>. QED  BY <2>4, <2>5, <2>6
<1>12. CASE Close
  <2>1. mode = "run" /\ UNCHANGED <<buf, cap>>
    BY <1>12 DEF Close, Running
  <2>2. CASE buf /\ Top.left = 0
    BY <1>4, <1>12, <2>1, <2>2 DEF Close
  <2>3. CASE ~(buf /\ Top.left = 0)
    BY <1>3, <1>12, <2>1, <2>3, WriteAdds DEF Close, Return
  <2>. QED  BY <2>2, <2>3
<1>13. CASE CheckAndUpdate
  BY <1>1, <1>13, SameAdds DEF CheckAndUpdate
<1>14. CASE Finish
  BY <1>1, <1>14, SameAdds DEF Finish
<1>. QED  BY <1>6, <1>7, <1>8, <1>9, <1>10, <1>11, <1>12, <1>13, <1>14 DEF Next

(* The encoder, with the cursors, rooms and sizes of all its nested calls, *)
(* implements the one buffer of OutputBuffer: it is filled from its start, *)
(* nothing is written twice or beyond its size, and the answer comes last. *)
THEOREM ImplementsOutputBuffer == Spec => FillsOneBuffer
<1>1. Init => Buffer!Init
  <2> SUFFICES ASSUME Init PROVE Buffer!Init
    OBVIOUS
  <2>1. cap \in Nat /\ buf \in BOOLEAN
    BY CapsAssumption DEF Init
  <2>2. out = <<>> /\ mode = "run"
    BY DEF Init
  <2>. QED  BY <2>1, <2>2 DEF Buffer!Init, Buffer!Pending
<1>2. IInv /\ IInv' /\ SizeOrFailure /\ [Next]_vars
        => [Buffer!Next]_(Buffer!bufferVars)
  <2> SUFFICES ASSUME IInv, IInv', SizeOrFailure, [Next]_vars
               PROVE  [Buffer!Next]_(Buffer!bufferVars)
    OBVIOUS
  <2>1. CASE UNCHANGED vars
    BY <2>1 DEF vars, Buffer!bufferVars
  <2>2. CASE Next
    <3>1. /\ OnlyAdds /\ buf' = buf /\ cap' = cap /\ mode \in {"run", "ret"}
          /\ mode' = "done" => mode = "ret" /\ Finish
          /\ mode' = "crash" => out' = out
      BY <2>2, StepAdds
    <3>2. Len(out') <= (IF buf THEN cap ELSE 0)
      BY <3>1 DEF IInv, NeverOverruns
    <3>3. CASE mode' \in {"run", "ret"}
      <4>1. Buffer!Add
        BY <3>1, <3>2, <3>3 DEF Buffer!Add, Buffer!Pending, OnlyAdds
      <4>. QED  BY <4>1 DEF Buffer!Next
    <3>4. CASE mode' = "crash"
      <4>1. Buffer!Crash
        BY <3>1, <3>4 DEF Buffer!Crash, Buffer!Pending, Buffer!Crashed
      <4>. QED  BY <4>1 DEF Buffer!Next
    <3>5. CASE mode' = "done"
      <4>1. mode = "ret" /\ frames = <<>> /\ out' = out /\ ret' = ret
        BY <3>1, <3>5 DEF Finish
      <4>2. ret = -1 \/ (ret >= 0 /\ (~buf \/ ret = Len(out)))
        BY <4>1 DEF IInv, SizeIsBytesWritten, SizeOrFailure
      <4>3. Buffer!Answer
        BY <3>1, <3>5, <4>1, <4>2 DEF Buffer!Answer, Buffer!Pending, Buffer!Failed
      <4>. QED  BY <4>3 DEF Buffer!Next
    <3>6. mode' \in {"run", "ret", "done", "crash"}
      BY DEF IInv, TypeOK
    <3>. QED  BY <3>3, <3>4, <3>5, <3>6
  <2>. QED  BY <2>1, <2>2
<1>. QED  BY <1>1, <1>2, Invariance, AnswerInvariance, PTL
          DEF Spec, FillsOneBuffer, Buffer!Spec

=============================================================================
