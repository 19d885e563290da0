--------------------------- MODULE TrackerProofs ----------------------------
(***************************************************************************)
(* TrackerConnector, for every set of responses, every size of the buffer  *)
(* and of curl's chunks, and every number of requests.                     *)
(***************************************************************************)
EXTENDS Tracker, WellFoundedInduction, SequenceTheorems, TLAPS

-----------------------------------------------------------------------------
(* The inductive invariant.                                                *)

(* The variables have their types.                                         *)
TrackerTypes ==
    /\ body \in Bodies
    /\ received \in Nat /\ received <= body.len
    /\ chunks \in Nat
    /\ response \in [Cell -> Nat]
    /\ peers \in Seq(Nat)
    /\ phase \in {"new", "idle", "transfer", "decode", "done", "gone", "crash"}
    /\ result \in {-1, 0, NoResult}

(* Chunks are copied to the start of the buffer, so that only as many of   *)
(* its cells have been written as the chunks have bytes between them.      *)
RestIsNul ==
    phase \in {"transfer", "decode"} =>
        \A c \in Cell : c > received => response[c] = 0

(* After no chunk the buffer is empty; after one it starts with the body.  *)
FewChunks ==
    phase \in {"transfer", "decode"} =>
        /\ chunks = 0 => received = 0
        /\ chunks = 1 =>
             \A c \in Cell : response[c] = IF c <= received THEN c ELSE 0

IInv ==
    /\ TrackerTypes
    /\ RestIsNul
    /\ FewChunks
    /\ OneChunkGivesAllPeers

-----------------------------------------------------------------------------
(* Lemmas.                                                                 *)

(* The sizes are positive, and a body has a length and entries.            *)
LEMMA SizesAndBodies ==
    /\ BufSize \in Nat /\ BufSize >= 1 /\ MaxChunk \in Nat
    /\ \A b \in Bodies : b.len \in Nat /\ b.len >= 1 /\ b.entries \in Seq(Entry)
<1>1. BufSize \in Nat \ {0} /\ MaxChunk \in Nat \ {0}
  BY BufferAssumption
<1>2. \A b \in Bodies : b \in BodyType
  BY BodiesAssumption
<1>. QED  BY <1>1, <1>2 DEF BodyType

(* A set of natural numbers has a least one.                               *)
LEMMA LeastNat ==
    ASSUME NEW S, S \subseteq Nat, S # {}
    PROVE  \E x \in S : \A y \in S : x <= y
<1> DEFINE Less == {ss \in Nat \X Nat : ss[1] < ss[2]}
<1>1. IsWellFoundedOn(Less, Nat)
  BY NatLessThanWellFounded, Zenon DEF OpToRel
<1>2. PICK x \in S : \A y \in S : ~(<<y, x>> \in Less)
  <2>. HIDE DEF Less
  <2>. QED  BY <1>1, WFMin, Zenon
<1>3. \A y \in S : x <= y
  <2>. SUFFICES ASSUME NEW y \in S PROVE x <= y
    OBVIOUS
  <2>1. y < x => <<y, x>> \in Less
    OBVIOUS
  <2>. QED  BY <1>2, <2>1
<1>. QED  BY <1>3

(* parse_list_dict takes the entries before the first that does not start  *)
(* with ip, which are all of them if there is no such entry.               *)
LEMMA ParseTakesTheFirst ==
    ASSUME NEW e \in Seq(Entry)
    PROVE  \E n \in Nat :
              /\ n <= Len(e)
              /\ n < Len(e) => e[n + 1].shape = "other"
              /\ ParseListDict(e) = [k \in 1..n |-> e[k].peer]
              /\ ParseListDict(e) \in Seq(Nat)
              /\ Len(ParseListDict(e)) = n
<1>1. PICK l \in Nat : l = Len(e)
  BY LenProperties
<1>2. DOMAIN e = 1..l /\ \A k \in 1..l : e[k] \in Entry
  BY <1>1, LenProperties, ElementOfSeq
<1> DEFINE stops == {k \in 1..l : e[k].shape = "other"}
           first == IF stops = {} THEN l + 1
                    ELSE CHOOSE k \in stops : \A m \in stops : k <= m
<1>3. IpEntries(e) = SubSeq(e, 1, first - 1)
  BY <1>1, <1>2 DEF IpEntries
<1>4. first \in 1..(l + 1) /\ (first <= l => e[first].shape = "other")
  <2>1. CASE stops = {}
    BY <2>1
  <2>2. CASE stops # {}
    <3>1. stops \subseteq Nat
      OBVIOUS
    <3>2. \E k \in stops : \A m \in stops : k <= m
      BY <2>2, <3>1, LeastNat
    <3>3. first \in stops
      BY <2>2, <3>2
    <3> HIDE DEF first
    <3>. QED  BY <3>3
  <2>. QED  BY <2>1, <2>2
<1> HIDE DEF first, stops
<1>5. PICK n \in Nat : n = first - 1
  BY <1>4
<1>6. n <= l /\ (n < l => e[n + 1].shape = "other")
  <2>1. first = n + 1 /\ first \in 1..(l + 1)
    BY <1>4, <1>5
  <2>2. n <= l /\ (n < l => first <= l)
    BY <2>1
  <2>. QED  BY <1>4, <2>1, <2>2
<1>7. PICK s : s = SubSeq(e, 1, n)
  OBVIOUS
<1>8. s \in Seq(Entry) /\ Len(s) = n /\ \A k \in 1..n : s[k] = e[k]
  <2>1. \A k \in 1..n : e[k] \in Entry
    BY <1>2, <1>6
  <2>2. /\ SubSeq(e, 1, n) \in Seq(Entry)
        /\ Len(SubSeq(e, 1, n)) = IF 1 <= n THEN n - 1 + 1 ELSE 0
        /\ \A k \in 1..(n - 1 + 1) : SubSeq(e, 1, n)[k] = e[1 + k - 1]
    <3>1. 1 \in Int /\ n \in Int
      OBVIOUS
    <3>. QED  BY <2>1, <3>1, SubSeqProperties, SMTT(60)
  <2>3. (IF 1 <= n THEN n - 1 + 1 ELSE 0) = n /\ n - 1 + 1 = n
    OBVIOUS
  <2>4. \A k \in 1..n : 1 + k - 1 = k
    OBVIOUS
  <2>. QED  BY <1>7, <2>2, <2>3, <2>4, Zenon
<1>9. IpEntries(e) = s
  BY <1>3, <1>5, <1>7
<1>10. DOMAIN s = 1..n
  BY <1>8, LenProperties
<1>11. ParseListDict(e) = [k \in 1..n |-> s[k].peer]
  BY <1>9, <1>10 DEF ParseListDict
<1>12. ParseListDict(e) = [k \in 1..n |-> e[k].peer]
  BY <1>8, <1>11
<1>13. [k \in 1..n |-> e[k].peer] \in [1..n -> Nat]
  <2>1. \A k \in 1..n : e[k].peer \in Nat
    BY <1>2, <1>6 DEF Entry
  <2>. QED  BY <2>1
<1>14. ParseListDict(e) \in [1..n -> Nat]
  BY <1>12, <1>13, Zenon
<1>15. ParseListDict(e) \in Seq(Nat)
  BY <1>14, SeqDef
<1>16. DOMAIN ParseListDict(e) = 1..n
  BY <1>14
<1>17. Len(ParseListDict(e)) = n
  BY <1>15, <1>16, LenProperties, SMT
<1>. QED  BY <1>1, <1>6, <1>12, <1>15, <1>17

-----------------------------------------------------------------------------
(* The steps of the connector.                                             *)

LEMMA InitEstablishes == TrackerInit => IInv
<1> SUFFICES ASSUME TrackerInit PROVE IInv
  OBVIOUS
<1>1. received = 0 /\ peers = <<>> /\ phase = "new"
  BY DEF TrackerInit
<1>2. body \in Bodies /\ body.len \in Nat
  BY SizesAndBodies DEF TrackerInit
<1>3. response \in [Cell -> Nat]
  BY DEF TrackerInit, Empty
<1>4. TrackerTypes
  BY <1>1, <1>2, <1>3 DEF TrackerInit, TrackerTypes
<1>. QED  BY <1>1, <1>4 DEF IInv, RestIsNul, FewChunks, OneChunkGivesAllPeers

(* The constructor, the destructor, a refused request and the end of the   *)
(* transfer change neither the buffer nor the peers.                       *)
LEMMA QuietStep ==
    ASSUME IInv, UNCHANGED <<body, received, chunks, response, peers>>,
           phase' \in {"idle", "decode", "done", "gone", "crash"},
           phase' = "decode" => phase = "transfer",
           result' \in {-1, 0, NoResult},
           phase' = "done" => result' = -1
    PROVE  IInv'
<1>1. TrackerTypes'
  BY DEF IInv, TrackerTypes
<1>2. RestIsNul' /\ FewChunks'
  BY DEF IInv, RestIsNul, FewChunks
<1>3. OneChunkGivesAllPeers'
  <2>1. ~(phase' = "done" /\ result' = 0)
    OBVIOUS
  <2>. QED  BY <2>1 DEF OneChunkGivesAllPeers
<1>. QED  BY <1>1, <1>2, <1>3 DEF IInv

(* request() with a new answer on its way.                                 *)
LEMMA StartKeepsInvariant ==
    ASSUME IInv, NEW b \in Bodies, Start(b)
    PROVE  IInv'
<1>1. /\ body' = b /\ received' = 0
      /\ chunks' = 0 /\ response' = Empty /\ phase' = "transfer"
      /\ peers' = peers /\ result' = result
  BY DEF Start
<1>2. b.len \in Nat /\ b.entries \in Seq(Entry)
  BY SizesAndBodies
<1>3. Empty \in [Cell -> Nat] /\ \A c \in Cell : Empty[c] = 0
  BY DEF Empty
<1>4. TrackerTypes'
  BY <1>1, <1>2, <1>3 DEF IInv, TrackerTypes
<1>5. RestIsNul' /\ FewChunks'
  BY <1>1, <1>3 DEF RestIsNul, FewChunks
<1>6. OneChunkGivesAllPeers'
  BY <1>1 DEF OneChunkGivesAllPeers
<1>. QED  BY <1>4, <1>5, <1>6 DEF IInv

(* write_callback, whatever the size of the chunk.                         *)
LEMMA WriteKeepsInvariant ==
    ASSUME IInv, NEW n \in 1..MaxChunk, WriteCallback(n)
    PROVE  IInv'
<1>1. /\ phase = "transfer" /\ n <= body.len - received
      /\ received' = received + n /\ chunks' = chunks + 1
      /\ UNCHANGED <<body, peers, result>>
  BY DEF WriteCallback
<1>2. /\ n \in Nat /\ n >= 1 /\ received \in Nat /\ chunks \in Nat
      /\ body.len \in Nat /\ response \in [Cell -> Nat]
  BY SizesAndBodies DEF IInv, TrackerTypes
<1>3. /\ received' \in Nat /\ received' <= body'.len /\ chunks' \in Nat
  BY <1>1, <1>2
<1>4. CASE n > BufSize
  <2>1. phase' = "crash" /\ response' = response
    BY <1>2, <1>4, SizesAndBodies DEF WriteCallback
  <2>2. TrackerTypes'
    BY <1>1, <1>3, <2>1 DEF IInv, TrackerTypes
  <2>. QED  BY <2>1, <2>2
            DEF IInv, RestIsNul, FewChunks, OneChunkGivesAllPeers
<1>5. CASE n <= BufSize
  <2>1. response' = Stored(n) /\ phase' = "transfer"
    BY <1>1, <1>5 DEF WriteCallback
  <2>2. /\ response' \in [Cell -> Nat]
        /\ \A c \in Cell :
              response'[c] = IF c <= n THEN received + c ELSE response[c]
    <3>1. \A c \in Cell : received + c \in Nat /\ response[c] \in Nat
      BY <1>2, SizesAndBodies DEF Cell
    <3>. QED  BY <2>1, <3>1 DEF Stored
  <2>3. \A c \in Cell : c \in Nat /\ c >= 1
    BY SizesAndBodies DEF Cell
  <2>4. TrackerTypes'
    BY <1>1, <1>3, <2>1, <2>2 DEF IInv, TrackerTypes
  <2>5. RestIsNul'
    <3>1. \A c \in Cell : c > received => response[c] = 0
      BY <1>1 DEF IInv, RestIsNul
    <3>2. ASSUME NEW c \in Cell, c > received + n PROVE response'[c] = 0
      BY <1>2, <2>2, <2>3, <3>1, <3>2
    <3>. QED  BY <1>1, <3>2 DEF RestIsNul
  <2>6. FewChunks'
    <3>1. chunks' # 0
      BY <1>1, <1>2
    <3>2. ASSUME chunks' = 1, NEW c \in Cell
          PROVE  response'[c] = IF c <= received' THEN c ELSE 0
      <4>1. chunks = 0
        BY <1>1, <1>2, <3>2
      <4>2. received = 0
        BY <1>1, <4>1 DEF IInv, FewChunks
      <4>3. c > received => response[c] = 0
        BY <1>1 DEF IInv, RestIsNul
      <4>. QED  BY <1>1, <1>2, <2>2, <2>3, <4>2, <4>3
    <3>. QED  BY <3>1, <3>2 DEF FewChunks
  <2>7. OneChunkGivesAllPeers'
    BY <1>1, <2>1 DEF OneChunkGivesAllPeers
  <2>. QED  BY <2>4, <2>5, <2>6, <2>7 DEF IInv
<1>. QED  BY <1>2, <1>4, <1>5, SizesAndBodies

(* The decoded response gives a list of peers, or leaves the old one.      *)
LEMMA ReturnKeepsInvariant ==
    ASSUME IInv, phase = "decode", NEW list \in Seq(Nat), Return0(list),
           UNCHANGED <<body, received, chunks, response>>,
           TextIsBody /\ body.kind = "list" =>
               list = ParseListDict(body.entries)
    PROVE  IInv'
<1>1. peers' = list /\ result' = 0 /\ phase' = "done"
  BY DEF Return0
<1>2. body.entries \in Seq(Entry) /\ body.len \in Nat /\ received \in Nat
  BY SizesAndBodies DEF IInv, TrackerTypes
<1>3. TrackerTypes'
  BY <1>1 DEF IInv, TrackerTypes
<1>4. ASSUME chunks = 1, received = body.len, body.len < BufSize,
             body.nul = 0, body.kind = "list"
      PROVE  /\ Len(list) <= Len(body.entries)
             /\ \A k \in DOMAIN list : list[k] = body.entries[k].peer
             /\ Len(list) < Len(body.entries) =>
                  body.entries[Len(list) + 1].shape = "other"
  <2>1. HoldsBody
    BY <1>4 DEF IInv, FewChunks, HoldsBody
  <2>2. list = ParseListDict(body.entries)
    BY <1>4, <2>1 DEF TextIsBody
  <2>3. PICK n \in Nat :
              /\ n <= Len(body.entries)
              /\ n < Len(body.entries) => body.entries[n + 1].shape = "other"
              /\ list = [k \in 1..n |-> body.entries[k].peer]
              /\ Len(list) = n
    BY <1>2, <2>2, ParseTakesTheFirst
  <2>. QED  BY <2>3
<1>5. OneChunkGivesAllPeers'
  BY <1>1, <1>4 DEF OneChunkGivesAllPeers
<1>. QED  BY <1>1, <1>3, <1>5 DEF IInv, RestIsNul, FewChunks

(* be_decode of the buffer and the loop over what it gives.                *)
LEMMA DecodeKeepsInvariant ==
    ASSUME IInv, DecodeBody \/ DecodeNothing \/ DecodeTorn
    PROVE  IInv'
<1>1. phase = "decode" /\ UNCHANGED <<body, received, chunks, response>>
  BY DEF DecodeBody, DecodeNothing, DecodeTorn
<1>2. body.entries \in Seq(Entry) /\ peers \in Seq(Nat)
  BY SizesAndBodies DEF IInv, TrackerTypes
<1>3. CASE Crash
  <2>1. phase' = "crash" /\ peers' = peers /\ result' = result
    BY <1>3 DEF Crash
  <2>2. result' \in {-1, 0, NoResult}
    BY <2>1 DEF IInv, TrackerTypes
  <2>. QED  BY <1>1, <2>1, <2>2, QuietStep
<1>4. CASE DecodeBody /\ ~Crash
  <2>1. CASE body.kind = "failure" /\ Return0(peers)
    BY <1>1, <1>2, <2>1, ReturnKeepsInvariant
  <2>2. CASE body.kind = "list" /\ Return0(ParseListDict(body.entries))
    <3>1. ParseListDict(body.entries) \in Seq(Nat)
      BY <1>2, ParseTakesTheFirst
    <3>. QED  BY <1>1, <2>2, <3>1, ReturnKeepsInvariant
  <2>. QED  BY <1>4, <2>1, <2>2 DEF DecodeBody
<1>5. CASE DecodeTorn /\ ~Crash
  <2>1. ~(TextIsBody /\ body.kind = "list")
    BY <1>5 DEF DecodeTorn
  <2>2. CASE Return0(peers)
    BY <1>1, <1>2, <2>1, <2>2, ReturnKeepsInvariant
  <2>3. ASSUME NEW list \in Spelled, Return0(list) PROVE IInv'
    <3>1. list \in Seq(Nat)
      BY SpelledAssumption
    <3>. QED  BY <1>1, <2>1, <2>3, <3>1, ReturnKeepsInvariant
  <2>. QED  BY <1>5, <2>2, <2>3 DEF DecodeTorn
<1>. QED  BY <1>3, <1>4, <1>5 DEF DecodeNothing

-----------------------------------------------------------------------------
(* The theorems.                                                           *)

(* The inductive invariant holds in every reachable state.                 *)
THEOREM Invariance == TrackerSpec => []IInv
<1>1. TrackerInit => IInv
  BY InitEstablishes
<1>2. IInv /\ [TrackerNext]_trackerVars => IInv'
  <2> SUFFICES ASSUME IInv, [TrackerNext]_trackerVars PROVE IInv'
    OBVIOUS
  <2>1. result \in {-1, 0, NoResult}
    BY DEF IInv, TrackerTypes
  <2>2. ASSUME NEW ok \in BOOLEAN, Construct(ok) PROVE IInv'
    BY <2>1, <2>2, QuietStep DEF Construct
  <2>3. CASE Destroy
    BY <2>1, <2>3, QuietStep DEF Destroy
  <2>4. CASE Refuse
    BY <2>4, QuietStep DEF Refuse
  <2>5. ASSUME NEW b \in Bodies, Start(b) PROVE IInv'
    BY <2>5, StartKeepsInvariant
  <2>6. ASSUME NEW n \in 1..MaxChunk, WriteCallback(n) PROVE IInv'
    BY <2>6, WriteKeepsInvariant
  <2>7. CASE Performed
    BY <2>1, <2>7, QuietStep DEF Performed
  <2>8. CASE DecodeBody \/ DecodeNothing \/ DecodeTorn
    BY <2>8, DecodeKeepsInvariant
  <2>9. CASE UNCHANGED trackerVars
    BY <2>9 DEF trackerVars, IInv, TrackerTypes, RestIsNul, FewChunks,
                OneChunkGivesAllPeers
  <2>. QED  BY <2>2, <2>3, <2>4, <2>5, <2>6, <2>7, <2>8, <2>9 DEF TrackerNext
<1>. QED  BY <1>1, <1>2, PTL DEF TrackerSpec

(* A response without a NUL that comes in one chunk and fits gives its     *)
(* peers in order up to an entry that does not start with ip, whatever     *)
(* earlier requests left behind.                                           *)
THEOREM PeersUpToABadEntry == TrackerSpec => []OneChunkGivesAllPeers
<1>1. IInv => OneChunkGivesAllPeers
  BY DEF IInv
<1>. QED  BY <1>1, Invariance, PTL

(* The buffer that be_decode takes for a C string has a NUL in it whenever *)
(* the response is shorter than the buffer.                                *)
THEOREM BufferStaysAString == TrackerSpec => []ResponseTerminated
<1>1. IInv => ResponseTerminated
  <2> SUFFICES ASSUME IInv, phase = "decode", body.len < BufSize
               PROVE  response[BufSize] = 0 /\ BufSize \in Cell
    BY DEF ResponseTerminated
  <2>1. BufSize \in Cell /\ BufSize \in Nat
    BY SizesAndBodies DEF Cell
  <2>2. body.len \in Nat /\ received \in Nat /\ received <= body.len
    BY SizesAndBodies DEF IInv, TrackerTypes
  <2>3. BufSize > received
    BY <2>1, <2>2
  <2>. QED  BY <2>1, <2>3 DEF IInv, RestIsNul
<1>. QED  BY <1>1, Invariance, PTL

=============================================================================
