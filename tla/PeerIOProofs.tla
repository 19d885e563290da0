---------------------------- MODULE PeerIOProofs ----------------------------
(***************************************************************************)
(* One connection between two peers, for every list of peers, every set of *)
(* messages, every way to split them and every bound: what is taken.       *)
(***************************************************************************)
EXTENDS PeerIO, WireProofs, WellFoundedInduction

-----------------------------------------------------------------------------
(* The invariants.                                                         *)

ReaderType ==
    [pc: {"poll", "object", "header", "body", "crash"}, numBytes: Int,
     buf_length: [1..4 -> Byte], length: Int, start: Nat, size: Nat \ {0},
     chunk: Seq(Byte), reply: Seq(Byte)]

IOTypes ==
    /\ up \in BOOLEAN
    /\ stream \in Seq(Byte)
    /\ taken \in Nat /\ taken <= Len(stream)
    /\ errors \in Nat
    /\ rd \in ReaderType

(* numBytes counts what the body loop has taken, four bytes of the header, *)
(* and one less for each recv that failed.                                 *)
BodyCount ==
    rd.pc = "body" =>
        /\ rd.length >= 0 /\ rd.start <= taken
        /\ taken - rd.start <= rd.numBytes - 4 + errors

(* The header loop ends with the four bytes of its last recv.              *)
HeaderFilled ==
    rd.pc = "header" /\ rd.numBytes >= 4 =>
        taken >= 4 /\ \A k \in 1..4 : rd.buf_length[k] = stream[taken - 4 + k]

-----------------------------------------------------------------------------
(* recv() and buffers.                                                     *)

LEMMA MinOfTwo ==
    ASSUME NEW a \in Int, NEW b \in Int
    PROVE  Min({a, b}) \in Int /\ Min({a, b}) <= a /\ Min({a, b}) <= b
<1>1. \E x \in {a, b} : \A y \in {a, b} : x <= y
  <2>1. CASE a <= b
    BY <2>1
  <2>2. CASE b <= a
    BY <2>2
  <2>. QED  BY <2>1, <2>2
<1>2. Min({a, b}) \in {a, b} /\ \A y \in {a, b} : Min({a, b}) <= y
  BY <1>1 DEF Min
<1>. QED  BY <1>2

(* What recv() returns when it is asked for n bytes.                       *)
LEMMA RecvFacts ==
    ASSUME IOTypes, NEW n \in Int, n >= 1, NEW r \in Recv(n)
    PROVE  /\ \/ r = Failed
              \/ r \in Nat /\ r <= n /\ taken + r <= Len(stream)
           /\ r = 0 => taken = Len(stream)
<1>1. taken \in Nat /\ Len(stream) \in Nat /\ taken <= Len(stream)
  BY DEF IOTypes
<1>2. PICK left \in Nat : left = Len(stream) - taken
  BY <1>1
<1>3. \/ left > 0 /\ r \in Parts(Min({n, left}))
      \/ ~(left > 0) /\ r \in (IF up THEN {} ELSE {0})
      \/ r \in (IF errors < MaxErrors THEN {Failed} ELSE {})
  BY <1>2 DEF Recv
<1>4. CASE left > 0 /\ r \in Parts(Min({n, left}))
  <2>1. Min({n, left}) \in Int /\ Min({n, left}) <= n /\ Min({n, left}) <= left
    BY MinOfTwo
  <2>2. r \in Nat /\ r >= 1 /\ r <= n /\ r <= left
    BY <1>4, <2>1 DEF Parts
  <2>. QED  BY <1>1, <1>2, <2>2
<1>5. CASE ~(left > 0) /\ r \in (IF up THEN {} ELSE {0})
  <2>1. r = 0 /\ left = 0
    BY <1>5
  <2>. QED  BY <1>1, <1>2, <2>1
<1>6. CASE r \in (IF errors < MaxErrors THEN {Failed} ELSE {})
  BY <1>6 DEF Failed
<1>. QED  BY <1>3, <1>4, <1>5, <1>6

(* The bytes that it gives.                                                *)
LEMMA ChunkFacts ==
    ASSUME IOTypes, NEW r,
           r = Failed \/ (r \in Nat /\ taken + r <= Len(stream))
    PROVE  /\ Chunk(r) \in Seq(Byte)
           /\ Len(Chunk(r)) = IF r = Failed THEN 0 ELSE r
           /\ \A k \in 1..r : Chunk(r)[k] = stream[taken + k]
<1>1. taken \in Nat /\ Len(stream) \in Nat /\ r \in Int /\ stream \in Seq(Byte)
  BY DEF IOTypes, Failed
<1>2. \A k \in (taken + 1)..(taken + r) : stream[k] \in Byte
  <2>1. ASSUME NEW k \in (taken + 1)..(taken + r) PROVE k \in 1..Len(stream)
    BY <1>1, <2>1 DEF Failed
  <2>. QED  BY <1>1, <2>1, ElementOfSeq
<1>3. PICK a, b \in Int : a = taken + 1 /\ b = taken + r
  BY <1>1
<1>4. PICK s : s = SubSeq(stream, a, b)
  OBVIOUS
<1>5. /\ s \in Seq(Byte) /\ Len(s) = (IF a <= b THEN b - a + 1 ELSE 0)
      /\ \A k \in 1..(b - a + 1) : s[k] = stream[a + k - 1]
  BY <1>2, <1>3, <1>4, SubSeqProperties
<1>6. s = Chunk(r)
  BY <1>3, <1>4 DEF Chunk
<1>7. Len(s) = IF r = Failed THEN 0 ELSE r
  BY <1>1, <1>3, <1>5 DEF Failed
<1>8. \A k \in 1..r : s[k] = stream[taken + k]
  BY <1>1, <1>3, <1>5
<1>. QED  BY <1>5, <1>6, <1>7, <1>8

(* A copy to the start of the buffer for the length.                       *)
LEMMA OverwriteFacts ==
    ASSUME NEW b \in [1..4 -> Byte], NEW s \in Seq(Byte)
    PROVE  /\ Overwrite(b, s) \in [1..4 -> Byte]
           /\ Len(s) >= 4 => \A k \in 1..4 : Overwrite(b, s)[k] = s[k]
<1>1. Len(s) \in Nat /\ DOMAIN s = 1..Len(s)
  BY LenProperties
<1>2. Overwrite(b, s) =
        [k \in 1..4 |-> IF k \in 1..Len(s) THEN s[k] ELSE b[k]]
  BY <1>1 DEF Overwrite
<1>3. \A k \in 1..4 : (IF k \in 1..Len(s) THEN s[k] ELSE b[k]) \in Byte
  BY <1>1, ElementOfSeq
<1>4. ASSUME Len(s) >= 4, NEW k \in 1..4 PROVE Overwrite(b, s)[k] = s[k]
  <2>1. k \in 1..Len(s)
    BY <1>1, <1>4
  <2>. QED  BY <1>2, <2>1
<1>. QED  BY <1>2, <1>3, <1>4

-----------------------------------------------------------------------------
(* What the steps of the readers change.                                   *)

LEMMA PollStep ==
    ASSUME IOTypes, Poll
    PROVE  /\ rd.pc = "poll" /\ rd' \in ReaderType
           /\ rd'.pc = "header" /\ rd'.numBytes = 0
           /\ UNCHANGED <<up, stream, taken, errors>>
<1>1. rd \in ReaderType
  BY DEF IOTypes
<1>2. /\ rd.pc = "poll" /\ rd' = [rd EXCEPT !.pc = "header", !.numBytes = 0]
      /\ UNCHANGED <<up, stream, taken, errors>>
  BY DEF Poll, dialler
<1>3. PICK n \in Int : n = 0
  OBVIOUS
<1>4. rd' = [rd EXCEPT !.pc = "header", !.numBytes = n]
  BY <1>2, <1>3
<1>5. /\ rd' \in ReaderType /\ rd'.pc = "header" /\ rd'.numBytes = n
  BY <1>1, <1>4 DEF ReaderType
<1>. QED  BY <1>2, <1>3, <1>5

(* What a call of recv() does to what was taken of the stream.                *)
Took(r) ==
    /\ taken' = IF r = Failed THEN taken ELSE taken + r
    /\ errors' = IF r = Failed THEN errors + 1 ELSE errors
    /\ UNCHANGED <<up, stream>>

LEMMA HeaderStep ==
    ASSUME IOTypes, Header
    PROVE  \E r :
             /\ rd.pc = "header" /\ rd.numBytes < 4
             /\ \/ r = Failed
                \/ /\ r \in Nat /\ r <= 4 - rd.numBytes
                   /\ taken + r <= Len(stream)
             /\ r = 0 => taken = Len(stream)
             /\ rd' \in ReaderType
             /\ rd'.pc = IF r > 4 THEN "crash" ELSE "header"
             /\ rd'.numBytes = r
             /\ rd'.buf_length = Overwrite(rd.buf_length, Chunk(r))
             /\ Took(r)
<1>1. rd \in ReaderType
  BY DEF IOTypes
<1>2. rd.pc = "header" /\ rd.numBytes < 4 /\ rd.numBytes \in Int
  BY <1>1 DEF Header, ReaderType
<1>3. PICK n \in Int : n = 4 - rd.numBytes /\ n >= 1
  BY <1>2
<1>4. PICK r \in Recv(n) :
        /\ rd' = [rd EXCEPT !.pc = IF r > 4 THEN "crash" ELSE "header",
                            !.numBytes = r,
                            !.buf_length = Overwrite(@, Chunk(r))]
        /\ Take(r)
  BY <1>3 DEF Header
<1>5. /\ \/ r = Failed
         \/ r \in Nat /\ r <= n /\ taken + r <= Len(stream)
      /\ r = 0 => taken = Len(stream)
  BY <1>3, RecvFacts
<1>6. r \in Int
  BY <1>5 DEF Failed
<1>7. Chunk(r) \in Seq(Byte)
  BY <1>5, ChunkFacts
<1>8. PICK b : b = Overwrite(rd.buf_length, Chunk(r))
  OBVIOUS
<1>9. b \in [1..4 -> Byte]
  <2>1. rd.buf_length \in [1..4 -> Byte]
    BY <1>1 DEF ReaderType
  <2>. QED  BY <1>7, <1>8, <2>1, OverwriteFacts
<1>10. PICK c \in {"crash", "header"} : c = IF r > 4 THEN "crash" ELSE "header"
  OBVIOUS
<1>11. rd' = [rd EXCEPT !.pc = c, !.numBytes = r, !.buf_length = b]
  BY <1>4, <1>8, <1>10
<1>12. /\ rd' \in ReaderType /\ rd'.pc = c /\ rd'.numBytes = r
       /\ rd'.buf_length = b
  BY <1>1, <1>6, <1>9, <1>11 DEF ReaderType
<1>13. Took(r)
  BY <1>4 DEF Take, Took, dialler
<1>. QED  BY <1>2, <1>3, <1>5, <1>8, <1>10, <1>12, <1>13

LEMMA HeaderEndsStep ==
    ASSUME IOTypes, HeaderEnds
    PROVE  /\ rd.pc = "header" /\ rd.numBytes >= 4 /\ rd' \in ReaderType
           /\ rd'.length = Get32(rd.buf_length, 1)
           /\ rd'.buf_length = rd.buf_length
           /\ rd'.pc = IF rd'.length < 0 THEN "crash" ELSE "body"
           /\ rd'.numBytes = rd.numBytes /\ rd'.start = taken
           /\ UNCHANGED <<up, stream, taken, errors>>
<1>1. rd \in ReaderType /\ taken \in Nat
  BY DEF IOTypes
<1>2. /\ rd.pc = "header" /\ rd.numBytes >= 4
      /\ UNCHANGED <<up, stream, taken, errors>>
  BY DEF HeaderEnds, dialler
<1>3. PICK length : length = Get32(rd.buf_length, 1)
  OBVIOUS
<1>4. length \in Int
  <2>1. rd.buf_length \in [1..4 -> Byte]
    BY <1>1 DEF ReaderType
  <2>2. \A b \in Byte : b \in Int
    BY DEF Byte
  <2>3. \A k \in 1..4 : rd.buf_length[k] \in Int
    BY <2>1, <2>2
  <2>. QED  BY <1>3, <2>3 DEF Get32
<1>5. PICK c \in {"crash", "body"} : c = IF length < 0 THEN "crash" ELSE "body"
  OBVIOUS
<1>6. rd' = [rd EXCEPT !.pc = c, !.length = length, !.start = taken]
  BY <1>3, <1>5 DEF HeaderEnds
<1>7. /\ rd' \in ReaderType /\ rd'.pc = c /\ rd'.length = length
      /\ rd'.start = taken /\ rd'.numBytes = rd.numBytes
      /\ rd'.buf_length = rd.buf_length
  BY <1>1, <1>4, <1>6 DEF ReaderType
<1>. QED  BY <1>2, <1>3, <1>5, <1>7

LEMMA BodyStep ==
    ASSUME IOTypes, Body
    PROVE  \E r :
             /\ rd.pc = "body" /\ rd.numBytes < rd.length
             /\ \/ r = Failed
                \/ /\ r \in Nat /\ r <= rd.length - rd.numBytes
                   /\ taken + r <= Len(stream)
             /\ rd' \in ReaderType
             /\ rd'.pc = IF r > rd.length THEN "crash" ELSE "body"
             /\ rd'.numBytes = rd.numBytes + r
             /\ rd'.length = rd.length /\ rd'.start = rd.start
             /\ rd'.buf_length = rd.buf_length
             /\ Took(r)
<1>1. rd \in ReaderType
  BY DEF IOTypes
<1>2. /\ rd.pc = "body" /\ rd.numBytes < rd.length
      /\ rd.numBytes \in Int /\ rd.length \in Int
  BY <1>1 DEF Body, ReaderType
<1>3. PICK n \in Int : n = rd.length - rd.numBytes /\ n >= 1
  BY <1>2
<1>4. PICK r \in Recv(n) :
        /\ rd' = [rd EXCEPT !.pc = IF r > rd.length THEN "crash" ELSE "body",
                            !.numBytes = @ + r]
        /\ Take(r)
  BY <1>3 DEF Body
<1>5. \/ r = Failed
      \/ r \in Nat /\ r <= n /\ taken + r <= Len(stream)
  BY <1>3, RecvFacts
<1>6. r \in Int
  BY <1>5 DEF Failed
<1>7. PICK c \in {"crash", "body"} : c = IF r > rd.length THEN "crash" ELSE "body"
  OBVIOUS
<1>8. PICK k \in Int : k = rd.numBytes + r
  BY <1>2, <1>6
<1>9. rd' = [rd EXCEPT !.pc = c, !.numBytes = k]
  BY <1>4, <1>7, <1>8
<1>10. /\ rd' \in ReaderType /\ rd'.pc = c /\ rd'.numBytes = k
       /\ rd'.length = rd.length /\ rd'.start = rd.start
       /\ rd'.buf_length = rd.buf_length
  BY <1>1, <1>9 DEF ReaderType
<1>11. Took(r)
  BY <1>4 DEF Take, Took, dialler
<1>. QED  BY <1>2, <1>3, <1>5, <1>7, <1>8, <1>10, <1>11

LEMMA BodyEndsStep ==
    ASSUME IOTypes, BodyEnds
    PROVE  /\ rd.pc = "body" /\ rd.numBytes >= rd.length /\ rd' \in ReaderType
           /\ rd'.pc = "crash" \/ (rd'.pc = "poll" /\ rd.length = 0)
           /\ UNCHANGED <<up, stream, taken, errors>>
<1>1. rd \in ReaderType
  BY DEF IOTypes
<1>2. /\ rd.pc = "body" /\ rd.numBytes >= rd.length
      /\ UNCHANGED <<up, stream, taken, errors>>
  BY DEF BodyEnds, dialler
<1>3. CASE rd' = [rd EXCEPT !.pc = "crash"]
  BY <1>1, <1>2, <1>3 DEF ReaderType
<1>4. CASE rd.length = 0 /\ rd' = [rd EXCEPT !.pc = "poll"]
  BY <1>1, <1>2, <1>4 DEF ReaderType
<1>. QED  BY <1>3, <1>4 DEF BodyEnds

-----------------------------------------------------------------------------
(* peers::receive.                                                         *)

(* A set of natural numbers has a least one.                               *)
LEMMA MinOfNaturals ==
    ASSUME NEW S, S \subseteq Nat, S # {}
    PROVE  Min(S) \in S /\ \A y \in S : Min(S) <= y
<1> DEFINE Less == {ss \in Nat \X Nat : ss[1] < ss[2]}
<1>1. IsWellFoundedOn(Less, Nat)
  BY NatLessThanWellFounded, Zenon DEF OpToRel
<1>2. PICK x \in S : \A y \in S : ~(<<y, x>> \in Less)
  <2>. HIDE DEF Less
  <2>. QED  BY <1>1, WFMin, Zenon
<1>3. \A y \in S : x <= y
  <2>. SUFFICES ASSUME NEW y \in S PROVE x <= y
    OBVIOUS
  <2>1. y < x => <<y, x>> \in Less
    OBVIOUS
  <2>. QED  BY <1>2, <2>1
<1>. QED  BY <1>3 DEF Min

LEMMA ReplyIsBytes ==
    ASSUME NEW size \in Nat, size >= 1, NEW chunk \in Seq(Byte)
    PROVE  Reply(size, chunk) \in Seq(Byte)
<1>1. PICK l \in Nat : l = Len(chunk)
  BY LenProperties
<1>2. DOMAIN chunk = 1..l /\ \A k \in 1..l : chunk[k] \in Byte
  BY <1>1, LenProperties, ElementOfSeq
<1>3. 0 \in Byte
  BY DEF Byte
<1>4. PICK F : F = [Overwrite(Zeros(size), chunk) EXCEPT ![size] = 0]
  OBVIOUS
<1>5. F = [k \in 1..size |-> IF k = size THEN 0
                             ELSE IF k \in 1..l THEN chunk[k] ELSE 0]
  <2>1. Overwrite(Zeros(size), chunk) =
          [k \in 1..size |-> IF k \in 1..l THEN chunk[k] ELSE 0]
    BY <1>2 DEF Overwrite, Zeros
  <2>. QED  BY <1>4, <2>1
<1>6. \A k \in 1..size : F[k] \in Byte
  BY <1>2, <1>3, <1>5
<1>7. F \in Seq(Byte) /\ Len(F) = size
  <2>1. F \in [1..size -> Byte]
    BY <1>5, <1>6
  <2>2. F \in Seq(Byte) /\ DOMAIN F = 1..size
    BY <2>1, SeqDef
  <2>. QED  BY <2>2, LenProperties, SMT
<1> DEFINE K == {k \in 0..size : k = size \/ F[k + 1] = 0}
<1>8. Reply(size, chunk) = SubSeq(F, 1, Min(K))
  BY <1>4, <1>7 DEF Reply, CString
<1>9. K \subseteq 0..size /\ K \subseteq Nat /\ size \in K
  OBVIOUS
<1>10. PICK m : m = Min(K)
  OBVIOUS
<1>11. m \in K
  <2>. HIDE DEF K
  <2>. QED  BY <1>9, <1>10, MinOfNaturals
<1>12. m \in Nat /\ m <= size
  BY <1>9, <1>11
<1>13. \A k \in 1..m : F[k] \in Byte
  BY <1>6, <1>12
<1>14. SubSeq(F, 1, m) \in Seq(Byte)
  BY <1>12, <1>13, SubSeqProperties
<1>. QED  BY <1>8, <1>10, <1>14

LEMMA ReceiveStep ==
    ASSUME IOTypes, NEW size \in Sizes, Receive(size)
    PROVE  \E r :
             /\ rd.pc = "object" /\ rd' \in ReaderType
             /\ r = Failed \/ (r \in Nat /\ taken + r <= Len(stream))
             /\ rd'.pc \in {"object", "crash"}
             /\ Took(r)
<1>1. rd \in ReaderType /\ rd.pc = "object"
  BY DEF IOTypes, Receive
<1>2. size \in Nat /\ size >= 1 /\ size \in Nat \ {0} /\ size \in Int
  BY SizesAssumption
<1>3. PICK r \in Recv(size) :
        /\ rd' = IF r = Failed
                 THEN [rd EXCEPT !.pc = "crash"]
                 ELSE [rd EXCEPT !.size = size, !.chunk = Chunk(r),
                                 !.reply = Reply(size, Chunk(r))]
        /\ Take(r)
  BY DEF Receive
<1>4. r = Failed \/ (r \in Nat /\ r <= size /\ taken + r <= Len(stream))
  BY <1>2, RecvFacts
<1>5. Took(r)
  BY <1>3 DEF Take, Took, dialler
<1>6. CASE r = Failed
  <2>1. rd' = [rd EXCEPT !.pc = "crash"]
    BY <1>3, <1>6
  <2>2. rd' \in ReaderType /\ rd'.pc = "crash"
    BY <1>1, <2>1 DEF ReaderType
  <2>. QED  BY <1>1, <1>5, <1>6, <2>2
<1>7. CASE r # Failed
  <2>1. PICK c : c = Chunk(r)
    OBVIOUS
  <2>2. c \in Seq(Byte) /\ Len(c) <= size
    BY <1>4, <1>7, <2>1, ChunkFacts
  <2>3. PICK y : y = Reply(size, c)
    OBVIOUS
  <2>4. y \in Seq(Byte)
    BY <1>2, <2>2, <2>3, ReplyIsBytes
  <2>5. rd' = [rd EXCEPT !.size = size, !.chunk = c, !.reply = y]
    BY <1>3, <1>7, <2>1, <2>3
  <2>6. /\ rd' \in ReaderType /\ rd'.pc = "object" /\ rd'.size = size
        /\ rd'.chunk = c /\ rd'.reply = y
    BY <1>1, <1>2, <2>2, <2>4, <2>5 DEF ReaderType
  <2>. QED  BY <1>1, <1>4, <1>5, <1>7, <2>4, <2>6
<1>. QED  BY <1>6, <1>7

LEMMA ReadStep ==
    ASSUME IOTypes, Read
    PROVE  /\ rd.pc = "object" /\ rd' \in ReaderType /\ rd'.pc = "object"
           /\ UNCHANGED <<up, stream, taken, errors>>
<1>1. rd \in ReaderType
  BY DEF IOTypes
<1>2. /\ rd.pc = "object"
      /\ rd' = [rd EXCEPT !.size = 1, !.chunk = <<>>, !.reply = <<>>]
      /\ UNCHANGED <<up, stream, taken, errors>>
  BY DEF Read, dialler
<1>3. PICK e : e = <<>> /\ e \in Seq(Byte) /\ Len(e) = 0
  BY EmptySeq
<1>4. PICK n \in Nat \ {0} : n = 1
  OBVIOUS
<1>5. rd' = [rd EXCEPT !.size = n, !.chunk = e, !.reply = e]
  BY <1>2, <1>3, <1>4
<1>6. /\ rd' \in ReaderType /\ rd'.pc = rd.pc /\ rd'.size = n
      /\ rd'.chunk = e /\ rd'.reply = e
  BY <1>1, <1>3, <1>5 DEF ReaderType
<1>. QED  BY <1>2, <1>6

-----------------------------------------------------------------------------
(* Send, and the types of the variables.                                   *)

(* The first n bytes of b are appended to the stream.                      *)
Appended(b, n) ==
    /\ stream' \in Seq(Byte) /\ Len(stream') = Len(stream) + n
    /\ \A k \in 1..Len(stream) : stream'[k] = stream[k]
    /\ \A k \in 1..n : stream'[Len(stream) + k] = b[k]
    /\ up' = up

LEMMA SendStep ==
    ASSUME IOTypes, NEW m \in Messages, Send(m)
    PROVE  /\ UNCHANGED <<taken, errors, rd>>
           /\ Encode(m) \in Seq(Byte) /\ Len(Encode(m)) \in Nat
           /\ \/ up' = FALSE /\ UNCHANGED stream
              \/ \E n \in 1..Len(Encode(m)) : Appended(Encode(m), n)
<1>1. UNCHANGED <<taken, errors, rd>>
  BY DEF Send
<1>2. Encode(m) \in Seq(Byte) /\ Len(Encode(m)) \in Nat
  BY EncodeIsBytes, MessagesAssumption
<1>3. CASE ~connected
  BY <1>1, <1>2, <1>3 DEF Send
<1>4. CASE connected
  <2>1. PICK n \in 1..Len(Encode(m)) :
          /\ stream' = stream \o SubSeq(Encode(m), 1, n)
          /\ up' = up
    BY <1>4 DEF Send, Parts
  <2>2. PICK b : b = Encode(m) /\ b \in Seq(Byte) /\ Len(b) \in Nat
    BY <1>2
  <2>3. n \in Nat /\ n <= Len(b) /\ \A k \in 1..n : b[k] \in Byte
    <3>1. n \in Nat /\ n <= Len(b)
      BY <2>2
    <3>2. \A k \in 1..n : k \in 1..Len(b)
      BY <2>2, <3>1
    <3>. QED  BY <2>2, <3>1, <3>2, ElementOfSeq
  <2>4. PICK c : c = SubSeq(b, 1, n)
    OBVIOUS
  <2>5. c \in Seq(Byte) /\ Len(c) = n /\ \A k \in 1..n : c[k] = b[k]
    BY <2>3, <2>4, SubSeqProperties
  <2>6. PICK l \in Nat : l = Len(stream)
    BY LenProperties DEF IOTypes
  <2>7. PICK t : t = stream \o c
    OBVIOUS
  <2>8. stream \in Seq(Byte)
    BY DEF IOTypes
  <2>9. /\ t \in Seq(Byte) /\ Len(t) = Len(stream) + Len(c)
        /\ \A k \in 1..(Len(stream) + Len(c)) :
              t[k] = IF k <= Len(stream) THEN stream[k] ELSE c[k - Len(stream)]
    BY <2>5, <2>7, <2>8, ConcatProperties, Zenon
  <2>10. /\ Len(t) = l + n
         /\ \A k \in 1..(l + n) :
               t[k] = IF k <= l THEN stream[k] ELSE c[k - l]
    BY <2>5, <2>6, <2>9, Zenon
  <2>11. \A k \in 1..l : t[k] = stream[k]
    BY <2>3, <2>10
  <2>12. ASSUME NEW k \in 1..n PROVE t[l + k] = b[k]
    <3>1. k \in Nat /\ l + k \in 1..(l + n) /\ ~(l + k <= l) /\ (l + k) - l = k
      BY <2>3
    <3>. QED  BY <2>5, <2>10, <3>1
  <2>13. t = stream'
    BY <2>1, <2>2, <2>4, <2>7
  <2>14. Appended(b, n)
    BY <2>1, <2>2, <2>6, <2>9, <2>10, <2>11, <2>12, <2>13 DEF Appended
  <2>. QED  BY <1>1, <1>2, <2>2, <2>14
<1>. QED  BY <1>3, <1>4

LEMMA TypesNext == IOTypes /\ [Next]_vars => IOTypes'
<1> SUFFICES ASSUME IOTypes, [Next]_vars PROVE IOTypes'
  OBVIOUS
<1>1. ASSUME rd' \in ReaderType,
             UNCHANGED <<up, stream, taken, errors>>
      PROVE  IOTypes'
  BY <1>1 DEF IOTypes
<1>2. ASSUME rd' \in ReaderType, NEW r, Took(r),
             r = Failed \/ (r \in Nat /\ taken + r <= Len(stream))
      PROVE  IOTypes'
  <2>1. taken \in Nat /\ errors \in Nat /\ Len(stream) \in Nat
    BY DEF IOTypes
  <2>2. taken' \in Nat /\ errors' \in Nat /\ taken' <= Len(stream)
    BY <1>2, <2>1 DEF IOTypes, Took, Failed
  <2>. QED  BY <1>2, <2>2 DEF IOTypes, Took
<1>3. ASSUME NEW q \in Listed, Setup(q) PROVE IOTypes'
  BY <1>3 DEF Setup, IOTypes
<1>4. ASSUME NEW m \in Messages, Send(m) PROVE IOTypes'
  <2>1. PICK b : b = Encode(m)
    OBVIOUS
  <2>2. UNCHANGED <<taken, errors, rd>> /\ Len(b) \in Nat
    BY <1>4, <2>1, SendStep
  <2>3. CASE up' = FALSE /\ UNCHANGED stream
    BY <2>2, <2>3 DEF IOTypes
  <2>4. CASE \E n \in 1..Len(b) : Appended(b, n)
    <3>1. PICK n \in 1..Len(b) : Appended(b, n)
      BY <2>4
    <3>2. /\ stream' \in Seq(Byte) /\ Len(stream') = Len(stream) + n
          /\ up' = up
      BY <3>1 DEF Appended
    <3>3. taken \in Nat /\ Len(stream) \in Nat /\ taken <= Len(stream)
      BY DEF IOTypes
    <3>4. taken <= Len(stream')
      BY <2>2, <3>2, <3>3
    <3>. QED  BY <2>2, <3>2, <3>4 DEF IOTypes
  <2>. QED  BY <1>4, <2>1, <2>3, <2>4, SendStep
<1>5. CASE Leave
  BY <1>5 DEF Leave, IOTypes
<1>6. CASE Poll
  BY <1>1, <1>6, PollStep
<1>7. CASE Header
  BY <1>2, <1>7, HeaderStep
<1>8. CASE HeaderEnds
  BY <1>1, <1>8, HeaderEndsStep
<1>9. CASE Body
  BY <1>2, <1>9, BodyStep
<1>10. CASE BodyEnds
  BY <1>1, <1>10, BodyEndsStep
<1>11. ASSUME NEW size \in Sizes, Receive(size) PROVE IOTypes'
  BY <1>2, <1>11, ReceiveStep
<1>12. CASE Read
  BY <1>1, <1>12, ReadStep
<1>13. CASE UNCHANGED vars
  BY <1>13 DEF vars, IOTypes
<1>. QED  BY <1>3, <1>4, <1>5, <1>6, <1>7, <1>8, <1>9, <1>10, <1>11, <1>12,
             <1>13 DEF Next, Loop

LEMMA TypesInit == Init => IOTypes
<1> SUFFICES ASSUME Init PROVE IOTypes
  OBVIOUS
<1>1. PICK c \in {"poll", "object"} : rd = Reader(c)
  BY DEF Init
<1>2. Zeros(4) \in [1..4 -> Byte]
  BY DEF Zeros, Byte
<1>3. <<>> \in Seq(Byte) /\ Len(<<>>) = 0
  BY EmptySeq
<1>4. rd \in ReaderType
  BY <1>1, <1>2, <1>3 DEF Reader, ReaderType
<1>5. taken <= Len(stream)
  BY <1>3 DEF Init
<1>. QED  BY <1>3, <1>4, <1>5 DEF Init, IOTypes

LEMMA TypesInvariance == Spec => []IOTypes
  BY TypesInit, TypesNext, PTL DEF Spec

-----------------------------------------------------------------------------
(* The body loop.                                                          *)

BodyInv == BodyCount /\ StaysInFrame

LEMMA BodyInvNext == IOTypes /\ BodyInv /\ [Next]_vars => BodyInv'
<1> SUFFICES ASSUME IOTypes, BodyInv, [Next]_vars PROVE BodyInv'
  OBVIOUS
<1>1. /\ taken \in Nat /\ errors \in Nat /\ rd.start \in Nat
      /\ rd.length \in Int /\ rd.numBytes \in Int
  BY DEF IOTypes, ReaderType
<1>2. ASSUME UNCHANGED <<rd, taken, errors>> PROVE BodyInv'
  BY <1>2 DEF BodyInv, BodyCount, StaysInFrame
<1>3. ASSUME rd'.pc # "body" PROVE BodyInv'
  BY <1>3 DEF BodyInv, BodyCount, StaysInFrame
<1>4. ASSUME NEW q \in Listed, Setup(q) PROVE BodyInv'
  BY <1>2, <1>4 DEF Setup
<1>5. ASSUME NEW m \in Messages, Send(m) PROVE BodyInv'
  BY <1>2, <1>5 DEF Send
<1>6. CASE Leave
  BY <1>2, <1>6 DEF Leave
<1>7. CASE Poll
  BY <1>3, <1>7, PollStep
<1>8. CASE Header
  BY <1>3, <1>8, HeaderStep
<1>9. CASE HeaderEnds
  <2>1. /\ rd.numBytes >= 4 /\ rd'.numBytes = rd.numBytes /\ rd'.start = taken
        /\ rd'.length \in Int
        /\ rd'.pc = (IF rd'.length < 0 THEN "crash" ELSE "body")
        /\ taken' = taken /\ errors' = errors
    BY <1>9, HeaderEndsStep DEF ReaderType
  <2>2. CASE rd'.length < 0
    BY <1>3, <2>1, <2>2
  <2>3. CASE ~(rd'.length < 0)
    <3>1. /\ rd'.length >= 0 /\ rd'.start <= taken'
          /\ taken' - rd'.start <= rd'.numBytes - 4 + errors'
          /\ taken' <= rd'.start + rd'.length
      BY <1>1, <2>1, <2>3
    <3>. QED  BY <3>1 DEF BodyInv, BodyCount, StaysInFrame
  <2>. QED  BY <2>2, <2>3
<1>10. CASE Body
  <2>1. PICK r :
          /\ rd.pc = "body" /\ rd.numBytes < rd.length
          /\ r = Failed \/ (r \in Nat /\ r <= rd.length - rd.numBytes)
          /\ rd'.pc = (IF r > rd.length THEN "crash" ELSE "body")
          /\ rd'.numBytes = rd.numBytes + r
          /\ rd'.length = rd.length /\ rd'.start = rd.start
          /\ Took(r)
    BY <1>10, BodyStep
  <2>2. /\ rd.length >= 0 /\ rd.start <= taken
        /\ taken - rd.start <= rd.numBytes - 4 + errors
        /\ errors <= 4 => taken <= rd.start + rd.length
    BY <2>1 DEF BodyInv, BodyCount, StaysInFrame
  <2>3. CASE r = Failed
    <3>1. taken' = taken /\ errors' = errors + 1 /\ rd'.numBytes = rd.numBytes - 1
      BY <1>1, <2>1, <2>3 DEF Took, Failed
    <3>2. /\ rd'.length >= 0 /\ rd'.start <= taken'
          /\ taken' - rd'.start <= rd'.numBytes - 4 + errors'
          /\ errors' <= 4 => taken' <= rd'.start + rd'.length
      BY <1>1, <2>1, <2>2, <3>1
    <3>. QED  BY <3>2 DEF BodyInv, BodyCount, StaysInFrame
  <2>4. CASE r \in Nat /\ r <= rd.length - rd.numBytes
    <3>1. taken' = taken + r /\ errors' = errors
      BY <2>1, <2>4 DEF Took, Failed
    <3>2. /\ rd'.length >= 0 /\ rd'.start <= taken'
          /\ taken' - rd'.start <= rd'.numBytes - 4 + errors'
      BY <1>1, <2>1, <2>2, <2>4, <3>1
    <3>3. errors' <= 4 => taken' <= rd'.start + rd'.length
      BY <1>1, <2>1, <2>2, <2>4, <3>1
    <3>. QED  BY <3>2, <3>3 DEF BodyInv, BodyCount, StaysInFrame
  <2>. QED  BY <2>1, <2>3, <2>4
<1>11. CASE BodyEnds
  BY <1>3, <1>11, BodyEndsStep
<1>12. ASSUME NEW size \in Sizes, Receive(size) PROVE BodyInv'
  BY <1>3, <1>12, ReceiveStep
<1>13. CASE Read
  BY <1>3, <1>13, ReadStep
<1>14. CASE UNCHANGED vars
  BY <1>2, <1>14 DEF vars
<1>. QED  BY <1>4, <1>5, <1>6, <1>7, <1>8, <1>9, <1>10, <1>11, <1>12, <1>13,
             <1>14 DEF Next, Loop

LEMMA BodyInvInit == Init => BodyInv
  BY DEF Init, Reader, BodyInv, BodyCount, StaysInFrame

(* With up to four failures of recv the body loop takes no byte beyond the *)
(* message, whatever the lengths and however the bytes are split.          *)
THEOREM BodyStaysInFrame == Spec => []StaysInFrame
<1>1. BodyInv => StaysInFrame
  BY DEF BodyInv
<1>. QED  BY BodyInvInit, <1>1, BodyInvNext, TypesInvariance, PTL DEF Spec

-----------------------------------------------------------------------------
(* The length that the header loop finds.                                  *)

LengthInv == HeaderFilled /\ LengthFromOneRecv

(* Four bytes at one stroke fill the buffer.                               *)
LEMMA LengthOfHeader ==
    ASSUME IOTypes, Header PROVE LengthInv'
<1>1. PICK r :
        /\ rd.pc = "header" /\ rd.numBytes < 4
        /\ \/ r = Failed
           \/ r \in Nat /\ r <= 4 - rd.numBytes /\ taken + r <= Len(stream)
        /\ rd'.pc = (IF r > 4 THEN "crash" ELSE "header")
        /\ rd'.numBytes = r
        /\ rd'.buf_length = Overwrite(rd.buf_length, Chunk(r))
        /\ Took(r)
  BY HeaderStep
<1>2. taken \in Nat /\ rd.buf_length \in [1..4 -> Byte]
  BY DEF IOTypes, ReaderType
<1>3. LengthFromOneRecv'
  BY <1>1 DEF LengthFromOneRecv
<1>4. ASSUME rd'.pc = "header", rd'.numBytes >= 4
      PROVE  taken' >= 4 /\ \A k \in 1..4 : rd'.buf_length[k] = stream'[taken' - 4 + k]
  <2>1. r = 4 /\ r # Failed /\ taken + r <= Len(stream)
    BY <1>1, <1>4 DEF Failed
  <2>2. taken' = taken + 4 /\ stream' = stream
    BY <1>1, <2>1 DEF Took
  <2>3. PICK c : c = Chunk(r)
    OBVIOUS
  <2>4. c \in Seq(Byte) /\ Len(c) = 4 /\ \A k \in 1..4 : c[k] = stream[taken + k]
    BY <2>1, <2>3, ChunkFacts
  <2>5. PICK b \in [1..4 -> Byte] : b = rd.buf_length
    BY <1>2
  <2>6. \A k \in 1..4 : Overwrite(b, c)[k] = c[k]
    BY <2>4, OverwriteFacts
  <2>7. rd'.buf_length = Overwrite(b, c)
    BY <1>1, <2>3, <2>5
  <2>8. ASSUME NEW k \in 1..4 PROVE taken' - 4 + k = taken + k
    BY <1>2, <2>2
  <2>9. taken' >= 4
    BY <1>2, <2>2
  <2>. QED  BY <2>2, <2>4, <2>6, <2>7, <2>8, <2>9
<1>. QED  BY <1>3, <1>4 DEF LengthInv, HeaderFilled

(* Bytes that were taken stay where they are in the stream.                *)
LEMMA LengthOfSend ==
    ASSUME IOTypes, BodyCount, LengthInv, NEW m \in Messages, Send(m)
    PROVE  LengthInv'
<1>1. PICK b : b = Encode(m)
  OBVIOUS
<1>2. UNCHANGED <<taken, errors, rd>> /\ Len(b) \in Nat
  BY <1>1, SendStep
<1>3. CASE stream' = stream
  BY <1>2, <1>3 DEF LengthInv, HeaderFilled, LengthFromOneRecv
<1>4. CASE \E n \in 1..Len(b) : Appended(b, n)
  <2>1. PICK l \in Nat : l = Len(stream) /\ taken <= l
    BY LenProperties DEF IOTypes
  <2>2. \A k \in 1..l : stream'[k] = stream[k]
    BY <1>4, <2>1 DEF Appended
  <2>3. taken \in Nat /\ rd.start \in Nat
    BY DEF IOTypes, ReaderType
  <2>4. ASSUME NEW a \in Nat, a >= 4, a <= l, NEW k \in 1..4
        PROVE  stream'[a - 4 + k] = stream[a - 4 + k]
    <3>1. a - 4 + k \in 1..l
      BY <2>4
    <3>. QED  BY <2>2, <3>1
  <2>5. HeaderFilled'
    BY <1>2, <2>1, <2>3, <2>4 DEF LengthInv, HeaderFilled
  <2>6. ASSUME rd.pc = "body"
        PROVE  /\ rd.start >= 4
               /\ \A k \in 1..4 : rd.buf_length[k] = stream'[rd.start - 4 + k]
               /\ rd.length = Get32(stream', rd.start - 3)
    <3>1. PICK a \in Nat : a = rd.start /\ a >= 4 /\ a <= l
      BY <2>1, <2>3, <2>6 DEF LengthInv, LengthFromOneRecv, BodyCount
    <3>2. \A k \in 1..4 : stream'[a - 4 + k] = stream[a - 4 + k]
      BY <2>4, <3>1
    <3>3. \A k \in 1..4 : rd.buf_length[k] = stream[a - 4 + k]
      BY <2>6, <3>1 DEF LengthInv, LengthFromOneRecv
    <3>4. /\ a - 3 = a - 4 + 1 /\ (a - 3) + 1 = a - 4 + 2
          /\ (a - 3) + 2 = a - 4 + 3 /\ (a - 3) + 3 = a - 4 + 4
      OBVIOUS
    <3>5. Get32(stream', a - 3) = Get32(stream, a - 3)
      BY <3>2, <3>4 DEF Get32
    <3>6. rd.length = Get32(stream, a - 3)
      BY <2>6, <3>1 DEF LengthInv, LengthFromOneRecv
    <3>. QED  BY <3>1, <3>2, <3>3, <3>5, <3>6
  <2>. QED  BY <1>2, <2>5, <2>6 DEF LengthInv, LengthFromOneRecv
<1>. QED  BY <1>1, <1>3, <1>4, SendStep

LEMMA LengthInvNext ==
    IOTypes /\ BodyCount /\ LengthInv /\ [Next]_vars => LengthInv'
<1> SUFFICES ASSUME IOTypes, BodyCount, LengthInv, [Next]_vars PROVE LengthInv'
  OBVIOUS
<1>1. ASSUME UNCHANGED <<stream, taken, rd>> PROVE LengthInv'
  BY <1>1 DEF LengthInv, HeaderFilled, LengthFromOneRecv
<1>2. ASSUME rd'.pc \notin {"header", "body"} PROVE LengthInv'
  BY <1>2 DEF LengthInv, HeaderFilled, LengthFromOneRecv
<1>3. ASSUME NEW q \in Listed, Setup(q) PROVE LengthInv'
  BY <1>1, <1>3 DEF Setup
<1>4. ASSUME NEW m \in Messages, Send(m) PROVE LengthInv'
  BY <1>4, LengthOfSend
<1>5. CASE Leave
  BY <1>1, <1>5 DEF Leave
<1>6. CASE Poll
  <2>1. rd'.pc = "header" /\ rd'.numBytes = 0
    BY <1>6, PollStep
  <2>. QED  BY <2>1 DEF LengthInv, HeaderFilled, LengthFromOneRecv
<1>7. CASE Header
  BY <1>7, LengthOfHeader
<1>8. CASE HeaderEnds
  <2>1. /\ rd.pc = "header" /\ rd.numBytes >= 4
        /\ rd'.length = Get32(rd.buf_length, 1)
        /\ rd'.buf_length = rd.buf_length
        /\ rd'.pc \in {"crash", "body"} /\ rd'.start = taken
        /\ UNCHANGED <<stream, taken>>
    BY <1>8, HeaderEndsStep
  <2>2. taken >= 4 /\ \A k \in 1..4 : rd.buf_length[k] = stream[taken - 4 + k]
    BY <2>1 DEF LengthInv, HeaderFilled
  <2>3. taken \in Nat
    BY DEF IOTypes
  <2>4. /\ taken - 3 = taken - 4 + 1 /\ (taken - 3) + 1 = taken - 4 + 2
        /\ (taken - 3) + 2 = taken - 4 + 3 /\ (taken - 3) + 3 = taken - 4 + 4
        /\ 1 + 1 = 2 /\ 1 + 2 = 3 /\ 1 + 3 = 4
    BY <2>3
  <2>5. Get32(rd.buf_length, 1) = Get32(stream, taken - 3)
    BY <2>2, <2>4 DEF Get32
  <2>. QED  BY <2>1, <2>2, <2>5 DEF LengthInv, HeaderFilled, LengthFromOneRecv
<1>9. CASE Body
  <2>1. /\ rd.pc = "body" /\ rd'.pc \in {"crash", "body"}
        /\ rd'.length = rd.length /\ rd'.start = rd.start
        /\ rd'.buf_length = rd.buf_length /\ stream' = stream
    BY <1>9, BodyStep DEF Took
  <2>. QED  BY <2>1 DEF LengthInv, HeaderFilled, LengthFromOneRecv
<1>10. CASE BodyEnds
  BY <1>2, <1>10, BodyEndsStep
<1>11. ASSUME NEW size \in Sizes, Receive(size) PROVE LengthInv'
  BY <1>2, <1>11, ReceiveStep
<1>12. CASE Read
  BY <1>2, <1>12, ReadStep
<1>13. CASE UNCHANGED vars
  BY <1>1, <1>13 DEF vars
<1>. QED  BY <1>3, <1>4, <1>5, <1>6, <1>7, <1>8, <1>9, <1>10, <1>11, <1>12,
             <1>13 DEF Next, Loop

(* The length is made of four bytes that follow each other in the stream   *)
(* right before the body loop starts, for all messages, handshakes too,    *)
(* every splitting, every cut-off send and any number of failures.         *)
THEOREM LengthIsOfOnePlace == Spec => []LengthFromOneRecv
<1>1. Init => LengthInv
  BY DEF Init, Reader, LengthInv, HeaderFilled, LengthFromOneRecv
<1>2. Spec => []BodyInv
  BY BodyInvInit, BodyInvNext, TypesInvariance, PTL DEF Spec
<1>3. BodyInv => BodyCount
  BY DEF BodyInv
<1>4. LengthInv => LengthFromOneRecv
  BY DEF LengthInv
<1>. QED  BY <1>1, <1>2, <1>3, <1>4, LengthInvNext, TypesInvariance, PTL DEF Spec

=============================================================================
