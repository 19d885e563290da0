------------------------------ MODULE Metafile ------------------------------
(***************************************************************************)
(* Metafile::create_metafile (read_metafile.cpp): reads a .torrent file,   *)
(* decodes it, copies the fields of the dictionaries and computes the info *)
(* hash, by which trackers and peers know the torrent.                     *)
(*                                                                         *)
(* The hash must cover the encoded info dictionary.  The code does not ask *)
(* be_encode for its size but guesses it from the text: from the first     *)
(* "info" and the first "pieces" found anywhere in the file and the number *)
(* after the latter.  A file is therefore described by where those texts   *)
(* are, and by the order of its keys; the values themselves are left out.  *)
(***************************************************************************)
EXTENDS Integers, Sequences, FiniteSets, FiniteSetsExt

CONSTANT Files   \* the metafiles the client may be started with

TopKeys  == {"announce", "announce-list", "creation date", "created by",
             "comment", "encoding", "info"}
InfoKeys == {"piece length", "pieces", "private", "name", "length", "files",
             "md5sum"}
Unknown  == "unknown key"
NoKey    == "no key"     \* an entry whose key did not decode
IntegerKeys == {"creation date", "piece length", "private", "length"}

(* opens, decodes: whether ifstream and be_decoden succeed; len: its bytes;*)
(* top, info: the keys of the two dictionaries, in file order;             *)
(* mistyped: the keys whose value is of another type than the code takes   *)
(* it for, and taken for a pointer (an integer is only a wrong number);    *)
(* infoAt, piecesAt: the offsets just after the keys info and pieces;      *)
(* pieces: the length of the string of hashes;                             *)
(* tail: the bytes of the info dictionary between that string and its 'e'; *)
(* firstInfo, firstPieces: the offsets just after the first such texts, or *)
(* beyond the end when there is none;                                      *)
(* number, atFive: what atoi reads at firstPieces and at offset 5;         *)
(* files: the dictionaries under the key files, each as its entries: a key *)
(* and how many names the list under it has.                               *)
FileType ==
    [opens: BOOLEAN, decodes: BOOLEAN, len: Nat,
     top: Seq(TopKeys \cup {Unknown, NoKey}),
     info: Seq(InfoKeys \cup {Unknown, NoKey}),
     mistyped: SUBSET ((TopKeys \cup InfoKeys) \ IntegerKeys),
     infoAt: Nat, piecesAt: Nat, pieces: Nat, tail: Nat,
     firstInfo: Nat, firstPieces: Nat, number: Int, atFive: Int,
     files: Seq(Seq([key: {"length", "md5sum", "md5", "path", Unknown, NoKey},
                     names: Nat]))]

ASSUME FilesAssumption == Files \subseteq FileType

VARIABLES
    file,     \* the metafile
    pc,       \* where create_metafile is
    i, j,     \* the loops over the keys
    fields,   \* the fields of the result that have been assigned
    size,     \* the size of the file, until a key pieces overwrites it
    hashed,   \* info_size: how many bytes of the encoding SHA1 covered
    pieces,   \* how many piece hashes have been stored
    garbage   \* a stored piece hash was not read from the string of hashes

metafileVars == <<file, pc, i, j, fields, size, hashed, pieces, garbage>>

-----------------------------------------------------------------------------
(* Sizes.                                                                  *)

HashLen  == 20
NotYet   == -1

(* The number of decimal digits of n, for n < 10^9.                        *)
Digits(n) == 1 + Cardinality({k \in 1..8 : n >= 10^k})

(* The encoded info dictionary: from its 'd' to the key pieces, the length *)
(* of the string, the colon, the string, the keys after it and the 'e'.    *)
EncodedInfoSize(f) ==
    (f.piecesAt - f.infoAt) + Digits(f.pieces) + 1 + f.pieces + f.tail + 1

(* What string::find and atoi find in the first size bytes of the file.   *)
(* Without such a text find returns npos, which is -1 as an int.           *)
InfoPosition == IF file.firstInfo <= size THEN file.firstInfo ELSE 3
PiecesPos    == IF file.firstPieces <= size THEN file.firstPieces ELSE 5
PiecesSize   == IF file.firstPieces <= size THEN file.number ELSE file.atFive

(* s.assign(memblock, size) throws for a negative size and reads beyond    *)
(* the file for one that is larger, which the address sanitizer stops.     *)
Searchable == 0 <= size /\ size <= file.len

(* pieces_pos - info_position + pieces_size + 7                            *)
InfoSize == PiecesPos - InfoPosition + PiecesSize + 7

-----------------------------------------------------------------------------

Abort ==
    /\ pc' = "abort"
    /\ UNCHANGED <<i, j, fields, size, hashed, pieces, garbage>>

(* A file that cannot be opened has size -1, which new char[] rejects with *)
(* an exception nobody catches; a file that does not decode leaves n NULL, *)
(* and the loop reads through it.                                          *)
ReadFile ==
    /\ pc = "read"
    /\ IF file.opens /\ file.decodes
       THEN /\ pc' = "top"
            /\ size' = file.len
            /\ UNCHANGED <<i, j, fields, hashed, pieces, garbage>>
       ELSE Abort
    /\ UNCHANGED file

(* strcmp reads through a key that is NULL; a value of another type is     *)
(* used as a pointer, or there happens to be something where it points.    *)
EntryMayAbort(key) ==
    /\ key \in {NoKey} \cup file.mistyped
    /\ Abort

(* One turn of the loop over the outer dictionary, for a key but info.     *)
TopField ==
    /\ pc = "top"
    /\ i <= Len(file.top)
    /\ file.top[i] # "info"
    /\ \/ EntryMayAbort(file.top[i])
       \/ /\ file.top[i] # NoKey
          /\ fields' = fields \cup ({file.top[i]} \cap TopKeys)
          /\ i' = i + 1
          /\ UNCHANGED <<pc, j, size, hashed, pieces, garbage>>
    /\ UNCHANGED file

(* The key info: a buffer of the guessed size is allocated, be_encode      *)
(* fills it (its result is not looked at) and SHA1 covers all of it.  A    *)
(* negative size is an exception nobody catches.                           *)
InfoField ==
    /\ pc = "top"
    /\ i <= Len(file.top)
    /\ file.top[i] = "info"
    /\ IF ~Searchable \/ InfoSize < 0
       THEN Abort
       ELSE \/ EntryMayAbort("info")
            \/ /\ hashed' = InfoSize
               /\ fields' = fields \cup {"info"}
               /\ pc' = "info"
               /\ j' = 1
               /\ UNCHANGED <<i, size, pieces, garbage>>
    /\ UNCHANGED file

(* k < size/20                                                             *)
HashCount == IF PiecesSize < 0 THEN 0 ELSE PiecesSize \div HashLen

(* Mutant of PiecesField: k <= size/20 in the loop.                        *)
PiecesFieldOneMore ==
    /\ pc = "info"
    /\ j <= Len(file.info)
    /\ file.info[j] = "pieces"
    /\ pieces' = pieces + HashCount + 1
    /\ size' = PiecesSize
    /\ fields' = fields \cup {"pieces"}
    /\ j' = j + 1
    /\ UNCHANGED <<file, pc, i, hashed, garbage>>

(* The key pieces: as many hashes as the number after the first "pieces"   *)
(* says are copied out of the string, wherever it ends.  Reading past its  *)
(* terminating NUL may abort (the address sanitizer) or yield garbage.     *)
(* The number is put in the variable that held the size of the file.       *)
PiecesField ==
    /\ pc = "info"
    /\ j <= Len(file.info)
    /\ file.info[j] = "pieces"
    /\ IF ~Searchable
       THEN Abort
       ELSE \/ EntryMayAbort("pieces")
            \/ /\ HashCount * HashLen > file.pieces + 1
               /\ Abort
            \/ /\ pieces' = pieces + HashCount
               /\ garbage' = (\/ garbage
                              \/ HashCount * HashLen > file.pieces
                              \/ "pieces" \in file.mistyped)
               /\ size' = PiecesSize
               /\ fields' = fields \cup {"pieces"}
               /\ j' = j + 1
               /\ UNCHANGED <<pc, i, hashed>>
    /\ UNCHANGED file

(* parse_dict ends the program at a path without names, which has no last  *)
(* separator to take off, and at an entry without a key.                   *)
ParseDictAborts(list) ==
    \E n \in DOMAIN list : \E k \in DOMAIN list[n] :
        \/ list[n][k].key = NoKey
        \/ list[n][k].key = "path" /\ list[n][k].names = 0

(* The key files.                                                          *)
FilesField ==
    /\ pc = "info"
    /\ j <= Len(file.info)
    /\ file.info[j] = "files"
    /\ IF ParseDictAborts(file.files)
       THEN Abort
       ELSE \/ EntryMayAbort("files")
            \/ /\ fields' = fields \cup {"files"}
               /\ j' = j + 1
               /\ UNCHANGED <<pc, i, size, hashed, pieces, garbage>>
    /\ UNCHANGED file

(* Any other key of the info dictionary.                                   *)
InfoEntry ==
    /\ pc = "info"
    /\ j <= Len(file.info)
    /\ file.info[j] \notin {"pieces", "files"}
    /\ \/ EntryMayAbort(file.info[j])
       \/ /\ file.info[j] # NoKey
          /\ fields' = fields \cup ({file.info[j]} \cap InfoKeys)
          /\ j' = j + 1
          /\ UNCHANGED <<pc, i, size, hashed, pieces, garbage>>
    /\ UNCHANGED file

(* Mutant of EndInfo: the end of the inner loop ends the outer one too.    *)
EndInfoAndTop ==
    /\ pc = "info"
    /\ j > Len(file.info)
    /\ pc' = "done"
    /\ UNCHANGED <<file, i, j, fields, size, hashed, pieces, garbage>>

(* The end of the inner loop, and of the outer one.                        *)
EndInfo ==
    /\ pc = "info"
    /\ j > Len(file.info)
    /\ pc' = "top"
    /\ i' = i + 1
    /\ UNCHANGED <<file, j, fields, size, hashed, pieces, garbage>>

EndTop ==
    /\ pc = "top"
    /\ i > Len(file.top)
    /\ pc' = "done"
    /\ UNCHANGED <<file, i, j, fields, size, hashed, pieces, garbage>>

MetafileInit ==
    /\ file \in Files
    /\ pc = "read"
    /\ i = 1
    /\ j = 1
    /\ fields = {}
    /\ size = 0
    /\ hashed = NotYet
    /\ pieces = 0
    /\ garbage = FALSE

MetafileNext ==
    \/ ReadFile
    \/ TopField
    \/ InfoField
    \/ PiecesField
    \/ FilesField
    \/ InfoEntry
    \/ EndInfo
    \/ EndTop

MetafileSpec == MetafileInit /\ [][MetafileNext]_metafileVars

-----------------------------------------------------------------------------
(* Properties.                                                             *)

(* There is one info dictionary with one list of hashes in it, each value  *)
(* of its own type.                                                        *)
KeysOnce(f) ==
    /\ f.mistyped = {}
    /\ \A m, n \in DOMAIN f.top : f.top[m] = "info" /\ f.top[n] = "info" => m = n
    /\ \A m, n \in DOMAIN f.info :
          f.info[m] = "pieces" /\ f.info[n] = "pieces" => m = n
    /\ \E m \in DOMAIN f.info : f.info[m] = "pieces"

(* The first "info" and the first "pieces" of the file are the keys.       *)
Plain(f) ==
    /\ f.firstInfo = f.infoAt
    /\ f.firstPieces = f.piecesAt
    /\ f.number = f.pieces
    /\ f.firstPieces <= f.len

(* read_metafile.cpp:104 "Assumes pieces is last element if so then pieces *)
(* position - info_position + 1 + length given from pieces is the total    *)
(* size": when pieces is the last key, SHA1 covers the encoded info        *)
(* dictionary, no byte less and no byte more.                              *)
HashCoversInfo ==
    hashed # NotYet /\ KeysOnce(file) /\ file.tail = 0 =>
        hashed = EncodedInfoSize(file)

(* Every piece hash of the file is stored once, and nothing else, wherever *)
(* the key pieces stands among the others (read_metafile.cpp:113-135).     *)
AllPiecesStored ==
    pc = "done" /\ hashed # NotYet /\ KeysOnce(file) /\ Plain(file) =>
        /\ ~garbage
        /\ pieces = file.pieces \div HashLen

(* Every known key of the file has been read when create_metafile returns, *)
(* in whatever order the keys come and however often.                      *)
EveryKeyRead ==
    pc = "done" =>
        fields = ({file.top[k] : k \in DOMAIN file.top} \cap TopKeys) \cup
                 (IF \E k \in DOMAIN file.top : file.top[k] = "info"
                  THEN {file.info[k] : k \in DOMAIN file.info} \cap InfoKeys
                  ELSE {})

=============================================================================
