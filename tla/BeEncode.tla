------------------------------ MODULE BeEncode ------------------------------
(***************************************************************************)
(* be_encode (bencode/bencode.c): writes a tree into a caller's buffer, or *)
(* only computes the size when outBuf is NULL.                             *)
(*                                                                         *)
(* outBuf, outBufLen and sz are by-value locals of each recursive call:    *)
(* the callee writes at its own copy and the caller moves its own by the   *)
(* size that comes back (CHECK_AND_UPDATE).  A call is therefore a frame   *)
(* with its own cursor, room and size, and whether the frames agree on     *)
(* where the next byte goes is a property, not an assumption.              *)
(*                                                                         *)
(* A node is a tree value; the arrays of a list or dictionary end at their *)
(* first NULL value, so an entry always has a value.                       *)
(***************************************************************************)
EXTENDS Integers, Sequences

CONSTANTS
    Byte,      \* the characters of strings and of the syntax
    Nodes,     \* the trees that may be encoded, with all their subtrees
    Ints,      \* the long long values that occur in them
    Decimal,   \* snprintf("%lld"): the text of each of those values
    Caps       \* the buffer sizes outBufLen the encoder is called with

Syntax == {"l", "d", "i", "e", ":"}
CStr   == [null: BOOLEAN, s: Seq(Byte)]

ASSUME ByteAssumption    == Syntax \subseteq Byte
ASSUME DecimalAssumption == Ints \subseteq Int /\ Decimal \in [Ints -> Seq(Byte)]
ASSUME CapsAssumption    == Caps \subseteq Nat
ASSUME NodesAssumption   ==
    \A n \in Nodes :
        /\ n.type \in {"str", "int", "list", "dict"}
        /\ n.i \in Ints
        /\ n.s \in CStr /\ Len(n.s.s) \in Ints
        /\ n.l \in Seq(Nodes)
        /\ n.d \in Seq([key: {c \in CStr : Len(c.s) \in Ints}, val: Nodes])

VARIABLES
    root,     \* the tree of the outermost call
    buf,      \* FALSE when outBuf is NULL
    cap,      \* outBufLen of the outermost call
    out,      \* the bytes written, from the start of the buffer on
    frames,   \* the active calls, innermost last
    mode,     \* "run": the innermost call runs; "ret": it has returned
    ret       \* the value returned last

vars == <<root, buf, cap, out, frames, mode, ret>>

-----------------------------------------------------------------------------

(* A call: its node, how many children it has encoded, outBuf as an offset *)
(* into the buffer, outBufLen, sz, and whether it is in its loop.          *)
Frame == [node: Nodes, k: Nat, at: Nat, left: Int, sz: Nat, looping: BOOLEAN]

Enter(node, at, left) ==
    [node |-> node, k |-> 0, at |-> at, left |-> left, sz |-> 1,
     looping |-> FALSE]

Top     == frames[Len(frames)]
Callers == SubSeq(frames, 1, Len(frames) - 1)
Running(types) ==
    /\ mode = "run"
    /\ Top.node.type \in types

SetTop(f) == frames' = [frames EXCEPT ![Len(frames)] = f]

Return(r) ==
    /\ ret' = r
    /\ mode' = "ret"
    /\ frames' = Callers

(* Storing the bytes s at outBuf.                                          *)
Write(at, s) ==
    out' = SubSeq(out, 1, at) \o s \o SubSeq(out, at + Len(s) + 1, Len(out))

WriteIfBuf(at, s) == IF buf THEN Write(at, s) ELSE UNCHANGED out

(* Mutants of Eat: it moves the wrong way; it forgets the room.            *)
EatBackwards(f, n) ==
    IF buf THEN [f EXCEPT !.at = @ - n, !.left = @ + n] ELSE f
EatKeepsRoom(f, n) ==
    IF buf THEN [f EXCEPT !.at = @ + n] ELSE f

(* EAT and EAT_N: the call's outBuf and outBufLen, moved by n.             *)
Eat(f, n) ==
    IF buf THEN [f EXCEPT !.at = @ + n, !.left = @ - n] ELSE f

(* The texts snprintf and memcpy put together.                             *)
IntText(i) == <<"i">> \o Decimal[i] \o <<"e">>
StrText(s) == Decimal[Len(s)] \o <<":">> \o s

(* Mutants of Fits: no test at all; one byte too many is asked for.        *)
FitsAlways(f, text)   == TRUE
FitsStrictly(f, text) == buf => Len(text) < f.left

(* The test before every write of more than one byte.                      *)
Fits(f, text) == buf => Len(text) <= f.left

-----------------------------------------------------------------------------
(* Steps of be_encode.                                                     *)

Fail ==
    /\ Return(-1)
    /\ UNCHANGED out

(* if (outBuf && outBufLen == 0) return -1                                 *)
NoRoom ==
    /\ mode = "run"
    /\ ~Top.looping
    /\ buf
    /\ Top.left = 0
    /\ Fail
    /\ UNCHANGED <<root, buf, cap>>

Entered(types) ==
    /\ Running(types)
    /\ ~Top.looping
    /\ ~(buf /\ Top.left = 0)

(* case BE_INT and case BE_STR: one text, written whole or not at all.     *)
Leaf(text) ==
    IF Fits(Top, text)
    THEN /\ WriteIfBuf(Top.at, text)
         /\ Return(Len(text))
    ELSE Fail

EncodeInt ==
    /\ Entered({"int"})
    /\ Leaf(IntText(Top.node.i))
    /\ UNCHANGED <<root, buf, cap>>

(* be_encode_str reads the length stored before a string it assumes is     *)
(* there: a NULL string crashes.                                           *)
EncodeString ==
    /\ Entered({"str"})
    /\ IF Top.node.s.null
       THEN /\ mode' = "crash"
            /\ UNCHANGED <<out, frames, ret>>
       ELSE Leaf(StrText(Top.node.s.s))
    /\ UNCHANGED <<root, buf, cap>>

(* Mutant of Open: a dictionary is opened like a list.                     *)
OpenAsList ==
    /\ Entered({"list", "dict"})
    /\ WriteIfBuf(Top.at, <<"l">>)
    /\ SetTop([Eat(Top, 1) EXCEPT !.looping = TRUE])
    /\ UNCHANGED <<root, buf, cap, mode, ret>>

(* case BE_LIST and case BE_DICT: the opening character.                   *)
Open ==
    /\ Entered({"list", "dict"})
    /\ WriteIfBuf(Top.at, IF Top.node.type = "list" THEN <<"l">> ELSE <<"d">>)
    /\ SetTop([Eat(Top, 1) EXCEPT !.looping = TRUE])
    /\ UNCHANGED <<root, buf, cap, mode, ret>>

(* The recursive call for the next item of a list.                         *)
ListItem ==
    /\ Running({"list"})
    /\ Top.looping
    /\ Top.k < Len(Top.node.l)
    /\ frames' = Append(frames,
                        Enter(Top.node.l[Top.k + 1], Top.at, Top.left))
    /\ UNCHANGED <<root, buf, cap, out, mode, ret>>

(* Mutant of DictEntry: no CHECK_AND_UPDATE after the key.                 *)
DictEntryKeyNotEaten ==
    /\ Running({"dict"})
    /\ Top.looping
    /\ Top.k < Len(Top.node.d)
    /\ LET entry == Top.node.d[Top.k + 1]
       IN  /\ ~entry.key.null
           /\ Fits(Top, StrText(entry.key.s))
           /\ WriteIfBuf(Top.at, StrText(entry.key.s))
           /\ frames' = Append(frames, Enter(entry.val, Top.at, Top.left))
    /\ UNCHANGED <<root, buf, cap, mode, ret>>

(* The next entry of a dictionary: its key, then the recursive call for    *)
(* its value with what is left.                                            *)
DictEntry ==
    /\ Running({"dict"})
    /\ Top.looping
    /\ Top.k < Len(Top.node.d)
    /\ LET entry == Top.node.d[Top.k + 1]
           text  == StrText(entry.key.s)
           moved == [Eat(Top, Len(text)) EXCEPT !.sz = @ + Len(text)]
       IN  IF entry.key.null
           THEN /\ mode' = "crash"
                /\ UNCHANGED <<out, frames, ret>>
           ELSE IF Fits(Top, text)
           THEN /\ WriteIfBuf(Top.at, text)
                /\ frames' = Append(Append(Callers, moved),
                                    Enter(entry.val, moved.at, moved.left))
                /\ UNCHANGED <<mode, ret>>
           ELSE Fail
    /\ UNCHANGED <<root, buf, cap>>

(* Mutant of Close: the closing character is not counted.                  *)
CloseUncounted ==
    /\ Running({"list", "dict"})
    /\ Top.looping
    /\ Top.k = IF Top.node.type = "list" THEN Len(Top.node.l)
                                         ELSE Len(Top.node.d)
    /\ IF buf /\ Top.left = 0
       THEN Fail
       ELSE /\ WriteIfBuf(Top.at, <<"e">>)
            /\ Return(Top.sz)
    /\ UNCHANGED <<root, buf, cap>>

(* The closing character, with its own test for room.                      *)
Close ==
    /\ Running({"list", "dict"})
    /\ Top.looping
    /\ Top.k = IF Top.node.type = "list" THEN Len(Top.node.l)
                                         ELSE Len(Top.node.d)
    /\ IF buf /\ Top.left = 0
       THEN Fail
       ELSE /\ WriteIfBuf(Top.at, <<"e">>)
            /\ Return(Top.sz + 1)
    /\ UNCHANGED <<root, buf, cap>>

(* Mutant of CheckAndUpdate: the size is added up and the cursor forgotten. *)
CheckAndUpdateInPlace ==
    /\ mode = "ret"
    /\ frames # <<>>
    /\ IF ret < 0
       THEN /\ frames' = Callers
            /\ UNCHANGED <<mode, ret>>
       ELSE /\ SetTop([Top EXCEPT !.sz = @ + ret, !.k = @ + 1])
            /\ mode' = "run"
            /\ UNCHANGED ret
    /\ UNCHANGED <<root, buf, cap, out>>

(* CHECK_AND_UPDATE in the caller: give up, or move on by ret bytes.       *)
CheckAndUpdate ==
    /\ mode = "ret"
    /\ frames # <<>>
    /\ IF ret < 0
       THEN /\ frames' = Callers
            /\ UNCHANGED <<mode, ret>>
       ELSE /\ SetTop([Eat(Top, ret) EXCEPT !.sz = @ + ret, !.k = @ + 1])
            /\ mode' = "run"
            /\ UNCHANGED ret
    /\ UNCHANGED <<root, buf, cap, out>>

(* The outermost call returns.                                             *)
Finish ==
    /\ mode = "ret"
    /\ frames = <<>>
    /\ mode' = "done"
    /\ UNCHANGED <<root, buf, cap, out, frames, ret>>

-----------------------------------------------------------------------------

Init ==
    /\ root \in Nodes
    /\ buf \in BOOLEAN
    /\ cap \in Caps
    /\ out = <<>>
    /\ frames = <<Enter(root, 0, cap)>>
    /\ mode = "run"
    /\ ret = 0

Next ==
    \/ NoRoom
    \/ EncodeInt
    \/ EncodeString
    \/ Open
    \/ ListItem
    \/ DictEntry
    \/ Close
    \/ CheckAndUpdate
    \/ Finish

Spec == Init /\ [][Next]_vars

-----------------------------------------------------------------------------
(* Properties.                                                             *)

(* The variables have their types, and a running call has a frame.         *)
TypeOK ==
    /\ root \in Nodes
    /\ buf \in BOOLEAN
    /\ cap \in Caps
    /\ out \in Seq(Byte)
    /\ frames \in Seq(Frame)
    /\ mode \in {"run", "ret", "done", "crash"}
    /\ ret \in Int
    /\ mode \in {"run", "crash"} => frames # <<>>

(* Where call f of the C stack started writing, by its own account.        *)
StartOf(f) == f.at - (IF f.looping THEN f.sz ELSE 0)

(* Every call's cursor and room describe one place of the one buffer, and  *)
(* a call started exactly where its caller still stands.                   *)
CursorsAgree ==
    buf =>
      /\ \A c \in 1..Len(frames) : frames[c].left = cap - frames[c].at
      /\ \A c \in 1..(Len(frames) - 1) :
            StartOf(frames[c + 1]) = frames[c].at
      /\ frames # <<>> => StartOf(frames[1]) = 0

(* Every byte up to the running call's cursor, and none beyond it, has     *)
(* been written; a size that is returned is what the callee wrote.         *)
NoGapNoOverlap ==
    buf =>
      /\ mode = "run" => Len(out) = Top.at
      /\ mode = "ret" /\ ret >= 0 /\ frames # <<>> => Len(out) = Top.at + ret

(* be_encode never writes past the buffer it was given, whatever the tree  *)
(* and however small the buffer: read_metafile.cpp hands it a buffer of a  *)
(* size guessed from the text.                                             *)
NeverOverruns == Len(out) <= (IF buf THEN cap ELSE 0)

(* The size that the outermost call returns is the number of bytes it has  *)
(* put into the buffer.                                                    *)
SizeIsBytesWritten ==
    mode \in {"ret", "done"} /\ frames = <<>> /\ buf /\ ret >= 0 =>
        ret = Len(out)

(* be_encode, with all its nested cursors, fills one buffer once, from its *)
(* start to its end, and answers last.                                     *)
Buffer == INSTANCE OutputBuffer WITH
    log    <- out,
    size   <- IF buf THEN cap ELSE 0,
    sizing <- ~buf,
    answer <- CASE mode = "done"  -> ret
                [] mode = "crash" -> -2
                [] OTHER          -> -3

FillsOneBuffer == Buffer!Spec

=============================================================================
