------------------------------ MODULE MCBeFree ------------------------------
(***************************************************************************)
(* BeFree on the texts of MCBeDecode: all short ones, and the encodings of *)
(* small trees.                                                            *)
(***************************************************************************)
EXTENDS BeFree, MCBeDecode

(* Texts with nested dictionaries, cut off and damaged at every place.     *)
Samples  == {<<"d", "1", ":", "x", "d", "1", ":", "y", "l", "i", "5", "e", "e",
               "e", "e">>,
             <<"d", "1", ":", "x", "l", "e", "1", ":", "y", "1", ":", "e", "2",
               ":", "x", "y", "i", "0", "e", "e">>,
             <<"l", "d", "0", ":", "0", ":", "1", ":", "x", "l", "e", "e", "1",
               ":", "y", "e">>}
Damage   == {"d", "l", "e", "i", "1", ":"}
Damaged  ==
    UNION {{SubSeq(s, 1, n) : n \in 0..Len(s)}
             \cup {[s EXCEPT ![n] = c] : n \in DOMAIN s, c \in Damage} : s \in Samples}
FreeTexts == Damaged \cup EncodedTexts \cup Short
=============================================================================
