------------------------------- MODULE BeDump -------------------------------
(***************************************************************************)
(* A tree from be_decode is shown by be_dump (bencode/bencode.c), as       *)
(* bencode/test.c does.                                                    *)
(*                                                                         *)
(* _be_dump gets its indentation as a signed number: a negative one says   *)
(* that the caller has begun the line with a key, and its absolute value   *)
(* is what the lines inside are indented by.  What is printed is left out, *)
(* except how far a line is indented and which node it shows.              *)
(***************************************************************************)
EXTENDS BeDecode

VARIABLES
    calls,   \* the active calls of _be_dump: node, next child, indent
    shown,   \* the lines printed: how far indented, the node, begin or end
    phase    \* how far the caller is with the tree

dumpVars == <<calls, shown, phase>>

-----------------------------------------------------------------------------

Inner == calls[Len(calls)]
Dumping(types) ==
    /\ phase = "dump"
    /\ calls # <<>>
    /\ heap[Inner.node].type \in types

abs(n)  == IF n < 0 THEN -n ELSE n

(* _be_dump_indent: nothing for a negative number, the key stands there.   *)
Line(indent, node, part) ==
    [indent |-> IF indent > 0 THEN indent ELSE 0, node |-> node, part |-> part]

(* A call: its first line, then indent = abs(indent).                      *)
Begin(node, indent) == [node |-> node, next |-> 1, indent |-> abs(indent)]

Enter(node, indent) ==
    /\ calls' = Append([calls EXCEPT ![Len(calls)].next = @ + 1],
                       Begin(node, indent))
    /\ shown' = Append(shown, Line(indent, node, "begin"))

Back == calls' = SubSeq(calls, 1, Len(calls) - 1)

(* The loop of case BE_LIST goes on as long as there is an item.           *)
ItemToShow(c) == c.next <= Len(heap[c.node].l)

(* Mutant of EntryToShow: the last entry is left out.                      *)
EntryToShowButOne(c) ==
    LET d == heap[c.node].d
    IN  c.next < Len(d) /\ d[c.next].val # NULL

(* The loop of case BE_DICT ends at the first entry without a value.       *)
EntryToShow(c) ==
    LET d == heap[c.node].d
    IN  c.next <= Len(d) /\ d[c.next].val # NULL

-----------------------------------------------------------------------------

(* be_dump(n), only for a tree.                                            *)
CallDump ==
    /\ phase = "decode"
    /\ mode = "done"
    /\ ret # NULL
    /\ calls' = <<Begin(ret, 0)>>
    /\ shown' = <<Line(0, ret, "begin")>>
    /\ phase' = "dump"
    /\ UNCHANGED vars

(* case BE_STR and case BE_INT: be_str_len takes a NULL string for an      *)
(* empty one.                                                              *)
DumpLeaf ==
    /\ Dumping({"str", "int"})
    /\ Back
    /\ UNCHANGED <<vars, shown, phase>>

(* for (i = 0; node->val.l[i]; ++i) _be_dump(node->val.l[i], indent + 1)   *)
DumpItem ==
    /\ Dumping({"list"})
    /\ ItemToShow(Inner)
    /\ Enter(heap[Inner.node].l[Inner.next], Inner.indent + 1)
    /\ UNCHANGED <<vars, phase>>

(* The key, on the line that the value goes on with.                       *)
DumpEntry ==
    /\ Dumping({"dict"})
    /\ EntryToShow(Inner)
    /\ Enter(heap[Inner.node].d[Inner.next].val, -(Inner.indent + 1))
    /\ UNCHANGED <<vars, phase>>

(* The closing line of a list or dictionary.                               *)
DumpEnd ==
    /\ Dumping({"list", "dict"})
    /\ ~ItemToShow(Inner) /\ ~EntryToShow(Inner)
    /\ shown' = Append(shown, Line(Inner.indent, Inner.node, "end"))
    /\ Back
    /\ UNCHANGED <<vars, phase>>

Dumped ==
    /\ phase = "dump"
    /\ calls = <<>>
    /\ phase' = "dumped"
    /\ UNCHANGED <<vars, calls, shown>>

-----------------------------------------------------------------------------

DumpInit ==
    /\ Init
    /\ calls = <<>>
    /\ shown = <<>>
    /\ phase = "decode"

DumpNext ==
    \/ CallDump
    \/ DumpLeaf
    \/ DumpItem
    \/ DumpEntry
    \/ DumpEnd
    \/ Dumped

-----------------------------------------------------------------------------
(* Properties.                                                             *)

(* A list or dictionary ends at the indentation of its depth in the tree,  *)
(* the number of nodes above it that are shown and not yet ended, whether  *)
(* it began its line or stands behind a key.                               *)
IndentIsDepth ==
    \A n \in DOMAIN shown :
        shown[n].part = "end" =>
            shown[n].indent =
              Cardinality({m \in 1..n :
                 /\ shown[m].part = "begin"
                 /\ shown[m].node # shown[n].node
                 /\ heap[shown[m].node].type \in {"list", "dict"}
                 /\ \A k \in 1..n : shown[k].node = shown[m].node
                                       => shown[k].part = "begin"})

=============================================================================
