----------------------------- MODULE MCMetafile -----------------------------
(***************************************************************************)
(* Metafile on files of several layouts: the keys in different orders, a   *)
(* list of hashes whose length has one to six digits, keys after pieces,   *)
(* the words info and pieces in a comment before the keys, keys that come  *)
(* twice, and values of the wrong type.                                    *)
(***************************************************************************)
EXTENDS Metafile

CONSTANTS
    PieceLengths,   \* lengths of the string of hashes
    Tails           \* bytes of the info dictionary after it

(* The info dictionary begins at offset 40, the key pieces ends at 90.     *)
Base(tops, infos, n, after) ==
    [opens |-> TRUE, decodes |-> TRUE, len |-> 110 + n + after,
     top |-> tops, info |-> infos, mistyped |-> {},
     infoAt |-> 40, piecesAt |-> 90, pieces |-> n, tail |-> after,
     firstInfo |-> 40, firstPieces |-> 90, number |-> n, atFive |-> 8,
     files |-> <<>>]

Tops  == {<<"announce", "comment", "info">>,
          <<"info">>,
          <<"info", "creation date", Unknown>>,
          <<"announce-list", "created by", "encoding", "info", Unknown>>,
          <<"announce">>}

(* Keys after pieces exactly when the string is followed by something.     *)
Infos(after) ==
    IF after = 0 THEN {<<"length", "name", "piece length", "pieces">>,
                       <<"pieces">>}
    ELSE {<<"files", "name", "piece length", "pieces", "private">>,
          <<"pieces", Unknown, "md5sum">>}

Regular == UNION {{Base(t, f, n, after) : t \in Tops, f \in Infos(after),
                                          n \in PieceLengths} : after \in Tails}

(* A comment at offset 20 that mentions one of the words or both: the      *)
(* search stops there, and atoi reads what follows the word.               *)
Mentions ==
    {[Base(<<"announce", "comment", "info">>, f, n, 0)
        EXCEPT !.firstInfo = fi, !.firstPieces = 20, !.number = num] :
        f \in Infos(0), n \in PieceLengths, fi \in {25, 40},
        num \in {-7, 0, 7, 200}}
    \cup
    {[Base(<<"announce", "comment", "info">>, f, n, 0) EXCEPT !.firstInfo = 20] :
        f \in Infos(0), n \in PieceLengths}

(* Keys that come twice: the second is searched for in a file whose size   *)
(* has been overwritten.                                                   *)
Repeated ==
    {Base(t, f, n, 0) :
        t \in {<<"info">>, <<"info", "info">>},
        f \in {<<"pieces">>, <<"pieces", "pieces">>, <<"name", "pieces", "name">>},
        n \in PieceLengths}
    \cup
    {[Base(t, f, n, 0) EXCEPT !.firstPieces = 20, !.number = num] :
        t \in {<<"comment", "info">>, <<"comment", "info", "info", "comment">>},
        f \in {<<"pieces">>, <<"pieces", "pieces">>},
        n \in PieceLengths, num \in {-20, 10, 30, 60, 300}}

Broken ==
    {[Base(<<"info">>, <<"pieces">>, 20, 0) EXCEPT !.opens = o, !.decodes = d] :
        o \in BOOLEAN, d \in BOOLEAN}
    \cup {Base(<<"comment", NoKey, "info">>, <<"pieces">>, 20, 0),
          Base(<<"comment", "info">>, <<"pieces", NoKey>>, 20, 0),
          \* no text "pieces" in the file
          [Base(<<"info">>, <<"name">>, 0, 0) EXCEPT !.firstPieces = 200]}
    \cup {[Base(<<"comment", "info">>, <<"files", "name", "pieces">>, 20, 0)
             EXCEPT !.mistyped = m] :
             m \in {{"comment"}, {"info"}, {"name"}, {"pieces"}, {"files"}}}

(* Torrents of several files, with and without checksums and paths.        *)
E(k, names) == [key |-> k, names |-> names]
Trees ==
    {<<>>,
     <<<<E("length", 0), E("path", 2)>>>>,
     <<<<E("length", 0), E("md5", 0), E("path", 1)>>,
       <<E("length", 0), E(Unknown, 0), E("path", 3)>>>>,
     <<<<E("md5sum", 0)>>, <<E("length", 0), E("path", 0)>>>>,
     <<<<E(NoKey, 0)>>>>}

Several == {[Base(<<"info">>, f, n, 10) EXCEPT !.files = t] :
              f \in Infos(10), n \in PieceLengths, t \in Trees}

MCFiles == Regular \cup Mentions \cup Repeated \cup Broken \cup Several
=============================================================================
