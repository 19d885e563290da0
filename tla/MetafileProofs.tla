--------------------------- MODULE MetafileProofs ---------------------------
(***************************************************************************)
(* create_metafile, for every set of metafiles: what it reads of a file,   *)
(* in whatever order the keys come, and which piece hashes it stores.      *)
(***************************************************************************)
EXTENDS Metafile, FiniteSetTheorems, TLAPS

-----------------------------------------------------------------------------
(* The inductive invariant.                                                *)

(* The known keys among the first n of the two dictionaries.               *)
TopRead(f, n)  == {x \in TopKeys : \E k \in 1..n : f.top[k] = x}
InfoRead(f, n) == {x \in InfoKeys : \E k \in 1..n : f.info[k] = x}

(* The inner dictionary has been read if info is among the first n keys.   *)
InfoSeen(f, n)   == \E k \in 1..n : f.top[k] = "info"
InfoBefore(f, n) == IF InfoSeen(f, n) THEN InfoRead(f, Len(f.info)) ELSE {}

Places ==
    /\ file \in Files
    /\ pc \in {"read", "top", "info", "done", "abort"}
    /\ i \in Nat \ {0} /\ j \in Nat \ {0}
    /\ pc = "read" => i = 1 /\ fields = {}
    /\ pc = "top"  => i <= Len(file.top) + 1
    /\ pc = "info" => /\ i <= Len(file.top) /\ j <= Len(file.info) + 1
                      /\ file.top[i] = "info"

KeysRead ==
    /\ pc = "top"  => fields = TopRead(file, i - 1) \cup InfoBefore(file, i - 1)
    /\ pc = "info" => fields = TopRead(file, i) \cup InfoBefore(file, i - 1)
                                          \cup InfoRead(file, j - 1)
    /\ pc = "done" => fields = TopRead(file, Len(file.top))
                                 \cup InfoBefore(file, Len(file.top))

IInv == Places /\ KeysRead

-----------------------------------------------------------------------------
(* Lemmas.                                                                 *)

(* What a metafile is made of.                                             *)
LEMMA FileFacts ==
    ASSUME NEW f \in Files
    PROVE  /\ f.top \in Seq(TopKeys \cup {Unknown, NoKey})
           /\ f.info \in Seq(InfoKeys \cup {Unknown, NoKey})
           /\ Len(f.top) \in Nat /\ Len(f.info) \in Nat
           /\ f.infoAt \in Nat /\ f.piecesAt \in Nat /\ f.pieces \in Nat
           /\ f.len \in Nat /\ f.tail \in Nat /\ f.firstInfo \in Nat /\ f.firstPieces \in Nat
           /\ f.number \in Int
           /\ DOMAIN f.top = 1..Len(f.top) /\ DOMAIN f.info = 1..Len(f.info)
<1>1. f \in FileType
  BY FilesAssumption
<1>2. /\ f.top \in Seq(TopKeys \cup {Unknown, NoKey})
      /\ f.info \in Seq(InfoKeys \cup {Unknown, NoKey})
  BY <1>1 DEF FileType
<1>3. /\ f.infoAt \in Nat /\ f.piecesAt \in Nat /\ f.pieces \in Nat
      /\ f.len \in Nat /\ f.tail \in Nat /\ f.firstInfo \in Nat /\ f.firstPieces \in Nat
      /\ f.number \in Int
  BY <1>1 DEF FileType
<1>4. /\ Len(f.top) \in Nat /\ Len(f.info) \in Nat
      /\ DOMAIN f.top = 1..Len(f.top) /\ DOMAIN f.info = 1..Len(f.info)
  BY <1>2
<1>. QED  BY <1>2, <1>3, <1>4

(* One key more.                                                           *)
LEMMA OneKeyMore ==
    ASSUME NEW f, NEW n \in Nat, n >= 1
    PROVE  /\ TopRead(f, n) = TopRead(f, n - 1) \cup ({f.top[n]} \cap TopKeys)
           /\ InfoRead(f, n) = InfoRead(f, n - 1) \cup ({f.info[n]} \cap InfoKeys)
           /\ InfoSeen(f, n) <=> InfoSeen(f, n - 1) \/ f.top[n] = "info"
<1>1. 1..n = (1..(n - 1)) \cup {n}
  OBVIOUS
<1>2. TopRead(f, n) = TopRead(f, n - 1) \cup ({f.top[n]} \cap TopKeys)
  BY <1>1, Zenon DEF TopRead
<1>3. InfoRead(f, n) = InfoRead(f, n - 1) \cup ({f.info[n]} \cap InfoKeys)
  BY <1>1, Zenon DEF InfoRead
<1>4. InfoSeen(f, n) <=> InfoSeen(f, n - 1) \/ f.top[n] = "info"
  BY <1>1, Zenon DEF InfoSeen
<1>. QED  BY <1>2, <1>3, <1>4

(* Before the first key nothing has been read, and the keys that have been *)
(* read are among all of them.                                             *)
LEMMA NoKeys ==
    \A f : TopRead(f, 0) = {} /\ InfoRead(f, 0) = {} /\ ~InfoSeen(f, 0)
<1>1. 1..0 = {}
  OBVIOUS
<1>. QED  BY <1>1, Zenon DEF TopRead, InfoRead, InfoSeen

LEMMA InfoBeforeIsInfo ==
    \A f, n : InfoBefore(f, n) \subseteq InfoRead(f, Len(f.info))
  BY DEF InfoBefore

-----------------------------------------------------------------------------
(* The steps of create_metafile.                                           *)

LEMMA InitEstablishes == MetafileInit => IInv
  BY DEF MetafileInit, IInv, Places, KeysRead

(* An exception or a crash.                                                *)
LEMMA AbortKeepsInvariant ==
    ASSUME IInv, Abort, file' = file
    PROVE  IInv'
<1>1. pc' = "abort" /\ UNCHANGED <<file, i, j, fields>>
  BY DEF Abort
<1>. QED  BY <1>1 DEF IInv, Places, KeysRead

LEMMA ReadFileKeepsInvariant == IInv /\ ReadFile => IInv'
<1> SUFFICES ASSUME IInv, ReadFile PROVE IInv'
  OBVIOUS
<1>1. CASE file.opens /\ file.decodes
  <2>1. /\ pc = "read" /\ pc' = "top"
        /\ UNCHANGED <<file, i, j, fields>>
    BY <1>1 DEF ReadFile
  <2>2. i = 1 /\ fields = {} /\ file \in Files
    BY <2>1 DEF IInv, Places
  <2>3. Len(file.top) \in Nat
    BY <2>2, FileFacts
  <2>4. Places'
    BY <2>1, <2>2, <2>3 DEF IInv, Places
  <2>5. TopRead(file, 0) = {} /\ InfoBefore(file, 0) = {}
    BY NoKeys DEF InfoBefore
  <2>6. KeysRead'
    BY <2>1, <2>2, <2>5 DEF KeysRead
  <2>. QED  BY <2>4, <2>6 DEF IInv
<1>2. CASE ~(file.opens /\ file.decodes)
  BY <1>2, AbortKeepsInvariant DEF ReadFile
<1>. QED  BY <1>1, <1>2

(* A key of the outer dictionary but info.                                 *)
LEMMA TopFieldKeepsInvariant == IInv /\ TopField => IInv'
<1> SUFFICES ASSUME IInv, TopField PROVE IInv'
  OBVIOUS
<1>1. CASE Abort
  BY <1>1, AbortKeepsInvariant DEF TopField
<1>2. CASE ~Abort
  <2>1. /\ pc = "top" /\ i <= Len(file.top) /\ file.top[i] # "info"
        /\ fields' = fields \cup ({file.top[i]} \cap TopKeys) /\ i' = i + 1
        /\ UNCHANGED <<file, pc, j>>
    BY <1>2 DEF TopField, EntryMayAbort
  <2>2. /\ file \in Files /\ i \in Nat /\ i >= 1 /\ j \in Nat \ {0}
    BY DEF IInv, Places
  <2>3. Len(file.top) \in Nat
    BY <2>2, FileFacts
  <2>4. i' \in Nat \ {0} /\ i' <= Len(file.top) + 1 /\ i' - 1 = i
    BY <2>1, <2>2, <2>3
  <2>5. Places'
    BY <2>1, <2>2, <2>4 DEF IInv, Places
  <2>6. TopRead(file, i) = TopRead(file, i - 1) \cup ({file.top[i]} \cap TopKeys)
    BY <2>2, OneKeyMore
  <2>7. InfoBefore(file, i) = InfoBefore(file, i - 1)
    BY <2>1, <2>2, OneKeyMore DEF InfoBefore
  <2>8. fields = TopRead(file, i - 1) \cup InfoBefore(file, i - 1)
    BY <2>1 DEF IInv, KeysRead
  <2>9. fields' = TopRead(file, i) \cup InfoBefore(file, i)
    BY <2>1, <2>6, <2>7, <2>8
  <2>10. /\ TopRead(file, i - 1)' = TopRead(file, i)
         /\ InfoBefore(file, i - 1)' = InfoBefore(file, i)
    BY <2>1, <2>4
  <2>11. KeysRead'
    BY <2>1, <2>9, <2>10 DEF KeysRead
  <2>. QED  BY <2>5, <2>11 DEF IInv
<1>. QED  BY <1>1, <1>2

(* The key info: its dictionary is hashed and its keys are read next.      *)
LEMMA InfoFieldKeepsInvariant == IInv /\ InfoField => IInv'
<1> SUFFICES ASSUME IInv, InfoField PROVE IInv'
  OBVIOUS
<1>1. /\ pc = "top" /\ i <= Len(file.top) /\ file.top[i] = "info"
      /\ file' = file
  BY DEF InfoField
<1>2. CASE Abort
  BY <1>1, <1>2, AbortKeepsInvariant
<1>3. CASE ~Abort
  <2>1. /\ fields' = fields \cup {"info"}
        /\ pc' = "info" /\ j' = 1 /\ i' = i
    BY <1>3 DEF InfoField, EntryMayAbort
  <2>2. file \in Files /\ i \in Nat /\ i >= 1
    BY DEF IInv, Places
  <2>3. Len(file.info) \in Nat
    BY <2>2, FileFacts
  <2>4. Places'
    BY <1>1, <2>1, <2>2, <2>3 DEF Places
  <2>5. TopRead(file, i) = TopRead(file, i - 1) \cup {"info"}
    <3>1. {file.top[i]} \cap TopKeys = {"info"}
      BY <1>1 DEF TopKeys
    <3>. QED  BY <2>2, <3>1, OneKeyMore
  <2>6. fields = TopRead(file, i - 1) \cup InfoBefore(file, i - 1)
    BY <1>1 DEF IInv, KeysRead
  <2>7. InfoRead(file, 0) = {}
    BY NoKeys
  <2>8. fields' = TopRead(file, i) \cup InfoBefore(file, i - 1)
                                   \cup InfoRead(file, 0)
    BY <2>1, <2>5, <2>6, <2>7
  <2>9. KeysRead'
    BY <1>1, <2>1, <2>8 DEF KeysRead
  <2>. QED  BY <2>4, <2>9 DEF IInv
<1>. QED  BY <1>2, <1>3

(* A key of the info dictionary.                                           *)
LEMMA InfoStep ==
    ASSUME IInv, pc = "info", j <= Len(file.info), j' = j + 1,
           fields' = fields \cup ({file.info[j]} \cap InfoKeys),
           UNCHANGED <<file, pc, i>>
    PROVE  Places' /\ KeysRead'
<1>1. file \in Files /\ i \in Nat \ {0} /\ j \in Nat /\ j >= 1
  BY DEF IInv, Places
<1>2. Len(file.info) \in Nat
  BY <1>1, FileFacts
<1>3. j' \in Nat \ {0} /\ j' <= Len(file.info) + 1 /\ j' - 1 = j
  BY <1>1, <1>2
<1>4. Places'
  BY <1>1, <1>3 DEF IInv, Places
<1>5. InfoRead(file, j) = InfoRead(file, j - 1) \cup ({file.info[j]} \cap InfoKeys)
  BY <1>1, OneKeyMore
<1>6. fields = TopRead(file, i) \cup InfoBefore(file, i - 1)
                                \cup InfoRead(file, j - 1)
  BY DEF IInv, KeysRead
<1>7. fields' = TopRead(file, i) \cup InfoBefore(file, i - 1)
                                 \cup InfoRead(file, j)
  BY <1>5, <1>6
<1>8. InfoRead(file, j - 1)' = InfoRead(file, j)
  BY <1>3
<1>9. KeysRead'
  BY <1>7, <1>8 DEF KeysRead
<1>. QED  BY <1>4, <1>9

LEMMA PiecesFieldKeepsInvariant == IInv /\ PiecesField => IInv'
<1> SUFFICES ASSUME IInv, PiecesField PROVE IInv'
  OBVIOUS
<1>1. CASE Abort
  BY <1>1, AbortKeepsInvariant DEF PiecesField
<1>2. CASE ~Abort
  <2>1. /\ pc = "info" /\ j <= Len(file.info) /\ file.info[j] = "pieces"
        /\ fields' = fields \cup {"pieces"} /\ j' = j + 1
        /\ UNCHANGED <<file, pc, i>>
    BY <1>2 DEF PiecesField, EntryMayAbort
  <2>2. {file.info[j]} \cap InfoKeys = {"pieces"}
    BY <2>1 DEF InfoKeys
  <2>. QED  BY <2>1, <2>2, InfoStep DEF IInv
<1>. QED  BY <1>1, <1>2

LEMMA FilesFieldKeepsInvariant == IInv /\ FilesField => IInv'
<1> SUFFICES ASSUME IInv, FilesField PROVE IInv'
  OBVIOUS
<1>1. CASE Abort
  BY <1>1, AbortKeepsInvariant DEF FilesField
<1>2. CASE ~Abort
  <2>1. /\ pc = "info" /\ j <= Len(file.info) /\ file.info[j] = "files"
        /\ fields' = fields \cup {"files"} /\ j' = j + 1
        /\ UNCHANGED <<file, pc, i>>
    BY <1>2 DEF FilesField, EntryMayAbort
  <2>2. {file.info[j]} \cap InfoKeys = {"files"}
    BY <2>1 DEF InfoKeys
  <2>. QED  BY <2>1, <2>2, InfoStep DEF IInv
<1>. QED  BY <1>1, <1>2

LEMMA InfoEntryKeepsInvariant == IInv /\ InfoEntry => IInv'
<1> SUFFICES ASSUME IInv, InfoEntry PROVE IInv'
  OBVIOUS
<1>1. CASE Abort
  BY <1>1, AbortKeepsInvariant DEF InfoEntry
<1>2. CASE ~Abort
  <2>1. /\ pc = "info" /\ j <= Len(file.info)
        /\ fields' = fields \cup ({file.info[j]} \cap InfoKeys) /\ j' = j + 1
        /\ UNCHANGED <<file, pc, i>>
    BY <1>2 DEF InfoEntry, EntryMayAbort
  <2>. QED  BY <2>1, InfoStep DEF IInv
<1>. QED  BY <1>1, <1>2

(* The end of the inner loop: all its keys have been read.                 *)
LEMMA EndInfoKeepsInvariant == IInv /\ EndInfo => IInv'
<1> SUFFICES ASSUME IInv, EndInfo PROVE IInv'
  OBVIOUS
<1>1. /\ pc = "info" /\ j > Len(file.info) /\ pc' = "top" /\ i' = i + 1
      /\ UNCHANGED <<file, j, fields>>
  BY DEF EndInfo
<1>2. /\ file \in Files /\ i \in Nat /\ i >= 1 /\ j \in Nat \ {0}
      /\ i <= Len(file.top) /\ j <= Len(file.info) + 1 /\ file.top[i] = "info"
  BY <1>1 DEF IInv, Places
<1>3. Len(file.top) \in Nat /\ Len(file.info) \in Nat
  BY <1>2, FileFacts
<1>4. /\ i' \in Nat \ {0} /\ i' <= Len(file.top) + 1 /\ i' - 1 = i
      /\ j - 1 = Len(file.info)
  BY <1>1, <1>2, <1>3
<1>5. Places'
  BY <1>1, <1>2, <1>4 DEF IInv, Places
<1>6. fields = TopRead(file, i) \cup InfoBefore(file, i - 1)
                                \cup InfoRead(file, Len(file.info))
  BY <1>1, <1>4 DEF IInv, KeysRead
<1>7. InfoSeen(file, i)
  BY <1>2, OneKeyMore
<1>8. InfoBefore(file, i) = InfoRead(file, Len(file.info))
  BY <1>7 DEF InfoBefore
<1>9. InfoBefore(file, i - 1) \subseteq InfoRead(file, Len(file.info))
  BY InfoBeforeIsInfo
<1>10. fields' = TopRead(file, i) \cup InfoBefore(file, i)
  BY <1>1, <1>6, <1>8, <1>9
<1>11. /\ TopRead(file, i - 1)' = TopRead(file, i)
       /\ InfoBefore(file, i - 1)' = InfoBefore(file, i)
  BY <1>1, <1>4
<1>12. KeysRead'
  BY <1>1, <1>10, <1>11 DEF KeysRead
<1>. QED  BY <1>5, <1>12 DEF IInv

LEMMA EndTopKeepsInvariant == IInv /\ EndTop => IInv'
<1> SUFFICES ASSUME IInv, EndTop PROVE IInv'
  OBVIOUS
<1>1. /\ pc = "top" /\ i > Len(file.top) /\ pc' = "done"
      /\ UNCHANGED <<file, i, j, fields>>
  BY DEF EndTop
<1>2. file \in Files /\ i \in Nat /\ i <= Len(file.top) + 1
  BY <1>1 DEF IInv, Places
<1>3. Len(file.top) \in Nat
  BY <1>2, FileFacts
<1>4. i - 1 = Len(file.top)
  BY <1>1, <1>2, <1>3
<1>5. Places'
  BY <1>1 DEF IInv, Places
<1>6. KeysRead'
  BY <1>1, <1>4 DEF IInv, KeysRead
<1>. QED  BY <1>5, <1>6 DEF IInv

-----------------------------------------------------------------------------
(* The theorems.                                                           *)

(* The inductive invariant holds in every reachable state.                 *)
THEOREM Invariance == MetafileSpec => []IInv
<1>1. MetafileInit => IInv
  BY InitEstablishes
<1>2. IInv /\ [MetafileNext]_metafileVars => IInv'
  <2> SUFFICES ASSUME IInv, [MetafileNext]_metafileVars PROVE IInv'
    OBVIOUS
  <2>1. CASE ReadFile
    BY <2>1, ReadFileKeepsInvariant
  <2>2. CASE TopField
    BY <2>2, TopFieldKeepsInvariant
  <2>3. CASE InfoField
    BY <2>3, InfoFieldKeepsInvariant
  <2>4. CASE PiecesField
    BY <2>4, PiecesFieldKeepsInvariant
  <2>5. CASE FilesField
    BY <2>5, FilesFieldKeepsInvariant
  <2>6. CASE InfoEntry
    BY <2>6, InfoEntryKeepsInvariant
  <2>7. CASE EndInfo
    BY <2>7, EndInfoKeepsInvariant
  <2>8. CASE EndTop
    BY <2>8, EndTopKeepsInvariant
  <2>9. CASE UNCHANGED metafileVars
    BY <2>9 DEF metafileVars, IInv, Places, KeysRead
  <2>. QED  BY <2>1, <2>2, <2>3, <2>4, <2>5, <2>6, <2>7, <2>8, <2>9 DEF MetafileNext
<1>. QED  BY <1>1, <1>2, PTL DEF MetafileSpec

(* Whatever the order of the keys, and repeated or unknown ones included,  *)
(* every known key of the two dictionaries has been read at the end.       *)
THEOREM NoKeyIsMissed == MetafileSpec => []EveryKeyRead
<1>1. IInv => EveryKeyRead
  <2> SUFFICES ASSUME IInv, pc = "done"
               PROVE  fields =
                        ({file.top[k] : k \in DOMAIN file.top} \cap TopKeys)
                        \cup (IF \E k \in DOMAIN file.top : file.top[k] = "info"
                              THEN {file.info[k] : k \in DOMAIN file.info}
                                     \cap InfoKeys
                              ELSE {})
    BY DEF EveryKeyRead
  <2>1. /\ DOMAIN file.top = 1..Len(file.top)
        /\ DOMAIN file.info = 1..Len(file.info)
    BY FileFacts DEF IInv, Places
  <2>2. TopRead(file, Len(file.top))
          = {file.top[k] : k \in DOMAIN file.top} \cap TopKeys
    BY <2>1, Zenon DEF TopRead
  <2>3. InfoRead(file, Len(file.info))
          = {file.info[k] : k \in DOMAIN file.info} \cap InfoKeys
    BY <2>1, Zenon DEF InfoRead
  <2>4. InfoSeen(file, Len(file.top))
          <=> \E k \in DOMAIN file.top : file.top[k] = "info"
    BY <2>1, Zenon DEF InfoSeen
  <2>5. fields = TopRead(file, Len(file.top)) \cup InfoBefore(file, Len(file.top))
    BY DEF IInv, KeysRead
  <2>. QED  BY <2>2, <2>3, <2>4, <2>5 DEF InfoBefore
<1>. QED  BY <1>1, Invariance, PTL

-----------------------------------------------------------------------------
(* The piece hashes.                                                       *)

Count(f)         == f.pieces \div HashLen
PiecesSeen(f, n) == \E k \in 1..n : f.info[k] = "pieces"

(* In a file with one key of each kind the hashes have been stored exactly *)
(* if the loops are past their key, and before that size is still the size *)
(* of the file, so that the text "pieces" is found.                        *)
PiecesInv ==
    KeysOnce(file) /\ Plain(file) =>
        /\ ~garbage
        /\ pc = "read" => pieces = 0 /\ hashed = NotYet
        /\ pc = "top" => \/ InfoSeen(file, i - 1) /\ pieces = Count(file)
                         \/ /\ ~InfoSeen(file, i - 1)
                            /\ pieces = 0 /\ hashed = NotYet /\ size = file.len
        /\ pc = "info" => \/ PiecesSeen(file, j - 1) /\ pieces = Count(file)
                          \/ /\ ~PiecesSeen(file, j - 1)
                             /\ pieces = 0 /\ size = file.len
        /\ pc = "done" /\ hashed # NotYet => pieces = Count(file)

(* As long as size is that of the file, what is found is the key pieces,   *)
(* and as many hashes are copied as the string has.                        *)
LEMMA CountFacts ==
    ASSUME file \in Files, Plain(file), size = file.len
    PROVE  /\ HashCount = Count(file)
           /\ HashCount * HashLen <= file.pieces
           /\ Count(file) \in Nat
<1>1. file.number \in Int /\ file.pieces \in Nat
  BY FileFacts
<1>2. PiecesSize = file.pieces
  BY DEF Plain, PiecesSize
<1>. QED  BY <1>1, <1>2 DEF HashCount, Count, HashLen

LEMMA PiecesInvAborts ==
    ASSUME PiecesInv, Abort, file' = file
    PROVE  PiecesInv'
  BY DEF PiecesInv, Abort

LEMMA PiecesInvInit == MetafileInit => PiecesInv
  BY DEF MetafileInit, PiecesInv

(* Each step keeps the count right for a file with one key of each kind.   *)
LEMMA PiecesInvNext ==
    ASSUME IInv, PiecesInv, [MetafileNext]_metafileVars
    PROVE  PiecesInv'
<1> SUFFICES ASSUME KeysOnce(file), Plain(file) PROVE PiecesInv'
  <2>1. file' = file
    BY DEF MetafileNext, ReadFile, TopField, InfoField, PiecesField, FilesField,
           InfoEntry, EndInfo, EndTop, metafileVars
  <2>. QED  BY <2>1 DEF PiecesInv, KeysOnce, Plain
<1>1. /\ file \in Files /\ i \in Nat /\ i >= 1 /\ j \in Nat /\ j >= 1
  BY DEF IInv, Places
<1>2. /\ ~garbage /\ file.mistyped = {}
  BY DEF PiecesInv, KeysOnce
<1>3. /\ Len(file.top) \in Nat /\ Len(file.info) \in Nat
      /\ DOMAIN file.top = 1..Len(file.top)
      /\ DOMAIN file.info = 1..Len(file.info)
  BY <1>1, FileFacts
<1>4. ASSUME Abort, file' = file PROVE PiecesInv'
  BY <1>4, PiecesInvAborts
<1>5. CASE ReadFile
  <2>1. CASE Abort
    BY <1>4, <1>5, <2>1 DEF ReadFile
  <2>2. CASE ~Abort
    <3>1. /\ pc = "read" /\ pc' = "top" /\ size' = file.len
          /\ UNCHANGED <<file, i, hashed, pieces, garbage>>
      BY <1>5, <2>2 DEF ReadFile
    <3>2. i - 1 = 0
      BY <3>1 DEF IInv, Places
    <3>3. ~InfoSeen(file, 0)
      BY NoKeys
    <3>4. ~InfoSeen(file, i - 1)'
      BY <3>1, <3>2, <3>3
    <3>. QED  BY <3>1, <3>4 DEF PiecesInv
  <2>. QED  BY <2>1, <2>2
<1>6. CASE TopField
  <2>1. CASE Abort
    BY <1>4, <1>6, <2>1 DEF TopField
  <2>2. CASE ~Abort
    <3>1. /\ pc = "top" /\ file.top[i] # "info" /\ i' = i + 1
          /\ UNCHANGED <<file, pc, size, hashed, pieces, garbage>>
      BY <1>6, <2>2 DEF TopField, EntryMayAbort
    <3>2. InfoSeen(file, i) <=> InfoSeen(file, i - 1)
      BY <1>1, <3>1, OneKeyMore
    <3>3. i' - 1 = i
      BY <1>1, <3>1
    <3>4. InfoSeen(file, i - 1)' <=> InfoSeen(file, i)
      BY <3>1, <3>3 DEF InfoSeen
    <3>. QED  BY <3>1, <3>2, <3>4 DEF PiecesInv, Count
  <2>. QED  BY <2>1, <2>2
<1>7. CASE InfoField
  <2>1. CASE Abort
    BY <1>4, <1>7, <2>1 DEF InfoField
  <2>2. CASE ~Abort
    <3>1. /\ pc = "top" /\ i <= Len(file.top) /\ file.top[i] = "info"
          /\ pc' = "info" /\ j' = 1 /\ UNCHANGED <<file, i, size, pieces, garbage>>
      BY <1>7, <2>2 DEF InfoField, EntryMayAbort
    <3>2. ~InfoSeen(file, i - 1)
      <4>1. ASSUME NEW k \in 1..(i - 1), file.top[k] = "info" PROVE FALSE
        <5>1. k \in DOMAIN file.top /\ i \in DOMAIN file.top /\ k # i
          BY <1>1, <1>3, <3>1
        <5>. QED  BY <3>1, <4>1, <5>1 DEF KeysOnce
      <4>. QED  BY <4>1 DEF InfoSeen
    <3>3. pieces = 0 /\ size = file.len
      BY <3>1, <3>2 DEF PiecesInv
    <3>4. ~PiecesSeen(file, j - 1)'
      BY <3>1 DEF PiecesSeen
    <3>. QED  BY <1>2, <3>1, <3>3, <3>4 DEF PiecesInv
  <2>. QED  BY <2>1, <2>2
<1>8. CASE PiecesField
  <2>1. CASE Abort
    BY <1>4, <1>8, <2>1 DEF PiecesField
  <2>2. CASE ~Abort
    <3>1. /\ pc = "info" /\ j <= Len(file.info) /\ file.info[j] = "pieces"
          /\ pieces' = pieces + HashCount
          /\ garbage' = (\/ garbage \/ HashCount * HashLen > file.pieces
                         \/ "pieces" \in file.mistyped)
          /\ j' = j + 1 /\ UNCHANGED <<file, pc, i>>
      BY <1>8, <2>2 DEF PiecesField, EntryMayAbort
    <3>2. ~PiecesSeen(file, j - 1)
      <4>1. ASSUME NEW k \in 1..(j - 1), file.info[k] = "pieces" PROVE FALSE
        <5>1. k \in DOMAIN file.info /\ j \in DOMAIN file.info /\ k # j
          BY <1>1, <1>3, <3>1
        <5>. QED  BY <3>1, <4>1, <5>1 DEF KeysOnce
      <4>. QED  BY <4>1 DEF PiecesSeen
    <3>3. pieces = 0 /\ size = file.len
      BY <3>1, <3>2 DEF PiecesInv
    <3>4. /\ HashCount = Count(file) /\ HashCount * HashLen <= file.pieces
          /\ Count(file) \in Nat
      BY <1>1, <3>3, CountFacts
    <3>5. pieces' = Count(file)
      BY <3>1, <3>3, <3>4
    <3>6. ~(HashCount * HashLen > file.pieces)
      <4>1. file.pieces \in Nat /\ HashCount \in Nat
        BY <1>1, <3>4, FileFacts
      <4>. QED  BY <3>4, <4>1 DEF HashLen
    <3>7. ~garbage'
      BY <1>2, <3>1, <3>6
    <3>8. PiecesSeen(file, j - 1)'
      <4>1. j \in 1..(j' - 1)
        BY <1>1, <3>1
      <4>. QED  BY <3>1, <4>1 DEF PiecesSeen
    <3>9. Count(file)' = Count(file)
      BY <3>1 DEF Count
    <3>. QED  BY <3>1, <3>5, <3>7, <3>8, <3>9 DEF PiecesInv
  <2>. QED  BY <2>1, <2>2
<1>9. ASSUME pc = "info", j <= Len(file.info), file.info[j] # "pieces",
             j' = j + 1, UNCHANGED <<file, pc, size, pieces, garbage>>
      PROVE  PiecesInv'
  <2>1. j' - 1 = j /\ 1..j = (1..(j - 1)) \cup {j}
    BY <1>1, <1>9
  <2>2. PiecesSeen(file, j) <=> PiecesSeen(file, j - 1)
    BY <1>9, <2>1, Zenon DEF PiecesSeen
  <2>3. PiecesSeen(file, j - 1)' <=> PiecesSeen(file, j)
    BY <1>9, <2>1 DEF PiecesSeen
  <2>. QED  BY <1>9, <2>2, <2>3 DEF PiecesInv, Count
<1>10. CASE FilesField
  <2>1. CASE Abort
    BY <1>4, <1>10, <2>1 DEF FilesField
  <2>2. CASE ~Abort
    BY <1>9, <1>10, <2>2 DEF FilesField, EntryMayAbort
  <2>. QED  BY <2>1, <2>2
<1>11. CASE InfoEntry
  <2>1. CASE Abort
    BY <1>4, <1>11, <2>1 DEF InfoEntry
  <2>2. CASE ~Abort
    BY <1>9, <1>11, <2>2 DEF InfoEntry, EntryMayAbort
  <2>. QED  BY <2>1, <2>2
<1>12. CASE EndInfo
  <2>1. /\ pc = "info" /\ j > Len(file.info) /\ pc' = "top" /\ i' = i + 1
        /\ UNCHANGED <<file, j, pieces, garbage>>
    BY <1>12 DEF EndInfo
  <2>2. file.top[i] = "info"
    BY <2>1 DEF IInv, Places
  <2>3. PiecesSeen(file, j - 1)
    <3>1. PICK k \in DOMAIN file.info : file.info[k] = "pieces"
      BY DEF KeysOnce
    <3>2. k \in 1..(j - 1)
      BY <1>1, <1>3, <2>1
    <3>. QED  BY <3>1, <3>2 DEF PiecesSeen
  <2>4. pieces = Count(file)
    BY <2>1, <2>3 DEF PiecesInv
  <2>5. InfoSeen(file, i - 1)'
    <3>1. i \in 1..(i' - 1)
      BY <1>1, <2>1
    <3>. QED  BY <2>1, <2>2, <3>1 DEF InfoSeen
  <2>. QED  BY <1>2, <2>1, <2>4, <2>5 DEF PiecesInv, Count
<1>13. CASE EndTop
  BY <1>2, <1>13 DEF EndTop, PiecesInv, Count
<1>14. CASE UNCHANGED metafileVars
  BY <1>14 DEF metafileVars, PiecesInv, Count
<1>. QED  BY <1>5, <1>6, <1>7, <1>8, <1>10, <1>11, <1>12, <1>13, <1>14
          DEF MetafileNext

(* In a file with one info dictionary and one key pieces in it, wherever   *)
(* the keys stand, every piece hash is stored once and nothing beyond the  *)
(* string.                                                                 *)
THEOREM PiecesAreComplete == MetafileSpec => []AllPiecesStored
<1>1. MetafileInit => PiecesInv
  BY PiecesInvInit
<1>2. IInv /\ PiecesInv /\ [MetafileNext]_metafileVars => PiecesInv'
  BY PiecesInvNext
<1>3. PiecesInv => AllPiecesStored
  BY DEF PiecesInv, AllPiecesStored, Count
<1>. QED  BY <1>1, <1>2, <1>3, Invariance, PTL DEF MetafileSpec

=============================================================================
