------------------------------- MODULE BeFree -------------------------------
(***************************************************************************)
(* A tree from be_decode is released by be_free (bencode/bencode.c), as    *)
(* bencode/test.c, TrackerConnector::request and create_metafile do.       *)
(*                                                                         *)
(* be_free walks the tree by the same NULL-terminated arrays that the      *)
(* decoder fills.  Whether it meets every node once depends on the tree    *)
(* that the decoder leaves behind, also for texts that are not well        *)
(* formed: decoder, be_dump and be_free are composed here, in the order of *)
(* bencode/test.c, where be_dump is left out by the other callers.         *)
(***************************************************************************)
EXTENDS BeDump

VARIABLES
    frames,   \* the active calls of be_free: a node and its next child
    freed,    \* the nodes passed to free(), in order
    keys      \* the keys passed to _be_free_str: node and entry

freeVars == <<frames, freed, keys>>
allVars  == <<vars, dumpVars, freeVars>>

Call(p)    == [node |-> p, next |-> 1]
Current    == frames[Len(frames)]
CurrentIs(types) ==
    /\ phase = "free"
    /\ frames # <<>>
    /\ heap[Current.node].type \in types

(* The loop of case BE_LIST goes on as long as there is an item.           *)
ItemToFree(c) == c.next <= Len(heap[c.node].l)

(* Mutant of EntryToFree: the last entry is left out.                      *)
EntryToFreeButOne(c) ==
    LET d == heap[c.node].d
    IN  c.next < Len(d) /\ d[c.next].val # NULL

(* The loop of case BE_DICT ends at the first entry without a value.       *)
EntryToFree(c) ==
    LET d == heap[c.node].d
    IN  c.next <= Len(d) /\ d[c.next].val # NULL

(* Mutant of Descend: the counter stays.                                   *)
DescendAgain(p) == frames' = Append(frames, Call(p))

(* The recursive call for child p, with the caller's counter moved on.     *)
Descend(p) ==
    frames' = Append([frames EXCEPT ![Len(frames)].next = @ + 1], Call(p))

(* free(node), and back to the caller.                                     *)
Release ==
    /\ freed' = Append(freed, Current.node)
    /\ frames' = SubSeq(frames, 1, Len(frames) - 1)

-----------------------------------------------------------------------------

(* The caller releases a tree it got.                                      *)
CallFree ==
    /\ phase \in {"decode", "dumped"}
    /\ mode = "done"
    /\ IF ret = NULL
       THEN /\ phase' = "released"
            /\ UNCHANGED frames
       ELSE /\ phase' = "free"
            /\ frames' = <<Call(ret)>>
    /\ UNCHANGED <<vars, calls, shown, freed, keys>>

(* case BE_STR and case BE_INT.                                            *)
FreeLeaf ==
    /\ CurrentIs({"str", "int"})
    /\ Release
    /\ UNCHANGED <<vars, dumpVars, keys>>

(* for (i = 0; node->val.l[i]; ++i) be_free(node->val.l[i])                *)
FreeItem ==
    /\ CurrentIs({"list"})
    /\ ItemToFree(Current)
    /\ Descend(heap[Current.node].l[Current.next])
    /\ UNCHANGED <<vars, dumpVars, freed, keys>>

(* for (i = 0; node->val.d[i].val; ++i): the key, then the value.          *)
FreeEntry ==
    /\ CurrentIs({"dict"})
    /\ EntryToFree(Current)
    /\ keys' = keys \cup {<<Current.node, Current.next>>}
    /\ Descend(heap[Current.node].d[Current.next].val)
    /\ UNCHANGED <<vars, dumpVars, freed>>

(* The array of a list or dictionary, and its node.                        *)
FreeContainer ==
    /\ CurrentIs({"list", "dict"})
    /\ ~ItemToFree(Current) /\ ~EntryToFree(Current)
    /\ Release
    /\ UNCHANGED <<vars, dumpVars, keys>>

(* be_free returns to the caller.                                          *)
Released ==
    /\ phase = "free"
    /\ frames = <<>>
    /\ phase' = "released"
    /\ UNCHANGED <<vars, calls, shown, freeVars>>

-----------------------------------------------------------------------------

FreeInit ==
    /\ DumpInit
    /\ frames = <<>>
    /\ freed = <<>>
    /\ keys = {}

Decoding == Next /\ UNCHANGED <<dumpVars, freeVars>>

FreeNext ==
    \/ Decoding
    \/ DumpNext /\ UNCHANGED freeVars
    \/ CallFree
    \/ FreeLeaf
    \/ FreeItem
    \/ FreeEntry
    \/ FreeContainer
    \/ Released

(* One thread, from the call of be_decode to the return of be_free.        *)
FreeSpec == FreeInit /\ [][FreeNext]_allVars /\ WF_allVars(FreeNext)

-----------------------------------------------------------------------------
(* Properties.                                                             *)

(* No node is freed twice, and none is looked at after it has been freed:  *)
(* whatever the text, the decoder leaves a tree in which no two pointers   *)
(* lead to the same node, and be_free leaves a node before its parent.     *)
NeverTouchesFreed ==
    /\ \A m, n \in DOMAIN freed : m # n => freed[m] # freed[n]
    /\ \A c \in DOMAIN frames, m \in DOMAIN freed : frames[c].node # freed[m]

(* Memory is lost only through a dictionary entry that ended up without a  *)
(* value: otherwise every node that the decoder allocated is freed, with   *)
(* every key.                                                              *)
LeaksOnlyThroughNullEntries ==
    /\ phase = "released"
    /\ \A p \in DOMAIN heap : \A k \in DOMAIN heap[p].d :
          heap[p].d[k].val # NULL
    => /\ Range(freed) = DOMAIN heap
       /\ keys = UNION {{p} \X (DOMAIN heap[p].d) : p \in DOMAIN heap}

(* be_dump shows exactly the nodes that be_free releases, each once and at *)
(* the indentation of its depth: the two loops over the arrays stop at the *)
(* same places (bencode.c:258-267, 307-320).                               *)
ShowsWhatIsFreed ==
    /\ IndentIsDepth
    /\ phase = "released" /\ shown # <<>> =>
         LET begun == {k \in DOMAIN shown : shown[k].part = "begin"}
         IN  /\ \A j, k \in begun : j # k => shown[j].node # shown[k].node
             /\ {shown[k].node : k \in begun} = Range(freed)

(* Whatever the text, be_decode returns (or crashes), in particular the    *)
(* dictionary loop ends although it tests the wrong pointer, and then the  *)
(* caller gets through be_dump and be_free.                                *)
ReleaseEnds == <>(phase = "released" \/ mode = "crash")

=============================================================================
