------------------------------ MODULE MCTracker -----------------------------
(***************************************************************************)
(* Tracker with bodies of every kind and length up to MaxBody, with and    *)
(* without a NUL among their bytes.                                        *)
(***************************************************************************)
EXTENDS Tracker

CONSTANT MaxBody

FullEntry(p) == [shape |-> "full", peer |-> p]
NoIdEntry    == [shape |-> "noid", peer |-> 0]
OtherEntry   == [shape |-> "other", peer |-> 0]

PeerLists ==
    {<<>>, <<FullEntry(1), FullEntry(2)>>, <<OtherEntry, FullEntry(1)>>,
     <<FullEntry(1), OtherEntry, FullEntry(2)>>, <<FullEntry(1), NoIdEntry>>}

MCBodies ==
    LET Of(kind, lists) ==
            {[len |-> n, nul |-> z, kind |-> kind, entries |-> e] :
                n \in 1..MaxBody, z \in {0, 1, 3}, e \in lists}
    IN  {b \in Of("list", PeerLists)
               \cup UNION {Of(k, {<<>>}) :
                            k \in {"failure", "compact", "page", "other"}} :
           b.nul <= b.len}

(* Peers listed, one of them alone, and a peer of a list that only the     *)
(* damaged text has.                                                       *)
MCSpelled == {<<>>, <<2>>, <<3>>}
=============================================================================
