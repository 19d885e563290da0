----------------------------- MODULE WireProofs -----------------------------
(***************************************************************************)
(* Lemmas about the peer wire messages, for every 32-bit value, every      *)
(* piece and every hash: the bytes that the encoders write.                *)
(***************************************************************************)
EXTENDS Wire, SequenceTheorems, TLAPS

-----------------------------------------------------------------------------
(* Numbers of four bytes.                                                  *)

(* The range of an int.                                                    *)
LEMMA Int32Range ==
    ASSUME NEW n \in Int32
    PROVE  n \in Int /\ MinInt <= n /\ n <= MaxInt
<1>1. MinInt \in Int /\ MaxInt \in Int
  BY SMT DEF MinInt, MaxInt
<1>. QED  BY <1>1, SMT DEF Int32

(* Small numbers are in that range.                                        *)
LEMMA SmallIsInt32 ==
    ASSUME NEW n \in Int, -128 <= n, n <= 127
    PROVE  n \in Int32
<1>1. MinInt \in Int /\ MaxInt \in Int
  BY SMT DEF MinInt, MaxInt
<1>2. MinInt <= n /\ n <= MaxInt
  BY SMT DEF MinInt, MaxInt
<1>. QED  BY <1>1, <1>2, SMT DEF Int32

(* One digit in base 256.                                                  *)
LEMMA Digit256 ==
    ASSUME NEW n \in Int
    PROVE  /\ n \div 256 \in Int
           /\ n % 256 \in Byte
           /\ n = (n \div 256) * 256 + (n % 256)
  BY SMT DEF Byte

(* The four bytes that htonl makes.                                        *)
LEMMA Put32Bytes ==
    ASSUME NEW n \in Int
    PROVE  /\ Put32(n) \in Seq(Byte)
           /\ Len(Put32(n)) = 4
           /\ Put32(n)[1] = (((n \div 256) \div 256) \div 256) % 256
           /\ Put32(n)[2] = ((n \div 256) \div 256) % 256
           /\ Put32(n)[3] = (n \div 256) % 256
           /\ Put32(n)[4] = n % 256
<1>1. /\ n \div 256 \in Int
      /\ (n \div 256) \div 256 \in Int
      /\ ((n \div 256) \div 256) \div 256 \in Int
  BY Digit256
<1>2. /\ (((n \div 256) \div 256) \div 256) % 256 \in Byte
      /\ ((n \div 256) \div 256) % 256 \in Byte
      /\ (n \div 256) % 256 \in Byte
      /\ n % 256 \in Byte
  BY <1>1, Digit256
<1>. QED  BY <1>2 DEF Put32

(* ntohl takes back what htonl made.                                       *)
LEMMA GetPut ==
    ASSUME NEW n \in Int32
    PROVE  Get32(Put32(n), 1) = n
<1>1. n \in Int /\ MinInt <= n /\ n <= MaxInt
  BY Int32Range
<1>2. PICK a \in Int : a = n \div 256 /\ n = a * 256 + (n % 256)
  BY <1>1, Digit256
<1>3. PICK b \in Int : b = a \div 256 /\ a = b * 256 + (a % 256)
  BY Digit256
<1>4. PICK c \in Int : c = b \div 256 /\ b = c * 256 + (b % 256)
  BY Digit256
<1>5. n % 256 \in 0..255 /\ a % 256 \in 0..255 /\ b % 256 \in 0..255
  BY <1>1, Digit256 DEF Byte
<1>6. -128 <= c /\ c <= 127
  <2>1. -(128 * 256 * 256) <= a /\ a <= 128 * 256 * 256 - 1
    BY <1>1, <1>2, <1>5, SMT DEF MinInt, MaxInt
  <2>2. -(128 * 256) <= b /\ b <= 128 * 256 - 1
    BY <1>3, <1>5, <2>1, SMT
  <2>. QED  BY <1>4, <1>5, <2>2, SMT
<1>7. (IF c % 256 >= 128 THEN (c % 256) - 256 ELSE c % 256) = c
  BY <1>6, SMT
<1>8. /\ Put32(n)[1] = c % 256 /\ Put32(n)[2] = b % 256
      /\ Put32(n)[3] = a % 256 /\ Put32(n)[4] = n % 256
  <2>1. n \in Int
    BY <1>1
  <2>2. a = n \div 256
    BY <1>2
  <2>3. b = a \div 256
    BY <1>3
  <2>4. c = b \div 256
    BY <1>4
  <2>. QED  BY <2>1, <2>2, <2>3, <2>4, Put32Bytes
<1>. QED  BY <1>2, <1>3, <1>4, <1>7, <1>8 DEF Get32

(* The number that four bytes of a message stand for.                      *)
LEMMA GetOfBytes ==
    ASSUME NEW b, NEW k \in Int32, NEW at \in Nat,
           b[at] = Put32(k)[1], b[at + 1] = Put32(k)[2],
           b[at + 2] = Put32(k)[3], b[at + 3] = Put32(k)[4]
    PROVE  Get32(b, at) = k
<1>1. Get32(b, at) = Get32(Put32(k), 1)
  BY DEF Get32
<1>. QED  BY <1>1, GetPut

(* A text with a number at its end: what stands before it stays, and the   *)
(* number can be read back.                                                *)
LEMMA PutAtEnd ==
    ASSUME NEW s \in Seq(Byte), NEW k \in Int32
    PROVE  /\ s \o Put32(k) \in Seq(Byte)
           /\ Len(s \o Put32(k)) = Len(s) + 4
           /\ \A j \in 1..Len(s) : (s \o Put32(k))[j] = s[j]
           /\ Get32(s \o Put32(k), Len(s) + 1) = k
<1>1. k \in Int
  BY Int32Range
<1>2. Put32(k) \in Seq(Byte) /\ Len(Put32(k)) = 4
  BY <1>1, Put32Bytes
<1>3. PICK n \in Nat : n = Len(s)
  BY LenProperties
<1>4. PICK t : t = s \o Put32(k)
  OBVIOUS
<1>5. /\ t \in Seq(Byte) /\ Len(t) = n + Len(Put32(k))
      /\ \A j \in 1..(n + Len(Put32(k))) :
            t[j] = IF j <= n THEN s[j] ELSE Put32(k)[j - n]
  BY <1>2, <1>3, <1>4, ConcatProperties, Zenon
<1>6. \A j \in 1..(n + 4) : t[j] = IF j <= n THEN s[j] ELSE Put32(k)[j - n]
  BY <1>2, <1>5, Zenon
<1>7. \A j \in 1..n : t[j] = s[j]
  BY <1>6
<1>8. /\ t[n + 1] = Put32(k)[1] /\ t[(n + 1) + 1] = Put32(k)[2]
      /\ t[(n + 1) + 2] = Put32(k)[3] /\ t[(n + 1) + 3] = Put32(k)[4]
  BY <1>6
<1>9. Get32(t, n + 1) = k
  BY <1>8, GetOfBytes
<1>. QED  BY <1>2, <1>3, <1>4, <1>5, <1>7, <1>9, Zenon

(* Bytes put after a text do not change a number in it.                    *)
LEMMA GetOfPrefix ==
    ASSUME NEW s, NEW t, NEW n \in Nat, NEW at \in Nat, at >= 1, at + 3 <= n,
           \A j \in 1..n : t[j] = s[j]
    PROVE  Get32(t, at) = Get32(s, at)
<1>1. /\ t[at] = s[at] /\ t[at + 1] = s[at + 1]
      /\ t[at + 2] = s[at + 2] /\ t[at + 3] = s[at + 3]
  OBVIOUS
<1>. QED  BY <1>1 DEF Get32

-----------------------------------------------------------------------------
(* The messages.                                                           *)

(* A length and the type after it: the start of every message but a        *)
(* handshake and a keepAlive.                                              *)
LEMMA StartBytes ==
    ASSUME NEW k \in Int32, NEW t \in Byte
    PROVE  /\ Put32(k) \o <<t>> \in Seq(Byte)
           /\ Len(Put32(k) \o <<t>>) = 5
           /\ Get32(Put32(k) \o <<t>>, 1) = k
           /\ (Put32(k) \o <<t>>)[1] = Put32(k)[1]
           /\ (Put32(k) \o <<t>>)[5] = t
<1>1. k \in Int
  BY Int32Range
<1>2. Put32(k) \in Seq(Byte) /\ Len(Put32(k)) = 4
  BY <1>1, Put32Bytes
<1>3. PICK u : u = <<t>>
  OBVIOUS
<1>4. u \in Seq(Byte) /\ Len(u) = 1 /\ u[1] = t
  BY <1>3
<1>5. PICK b : b = Put32(k) \o u
  OBVIOUS
<1>6. /\ b \in Seq(Byte) /\ Len(b) = Len(Put32(k)) + Len(u)
      /\ \A j \in 1..(Len(Put32(k)) + Len(u)) :
            b[j] = IF j <= Len(Put32(k)) THEN Put32(k)[j] ELSE u[j - Len(Put32(k))]
  BY <1>2, <1>4, <1>5, ConcatProperties, Zenon
<1>7. Len(b) = 5 /\ b[5] = t /\ \A j \in 1..4 : b[j] = Put32(k)[j]
  BY <1>2, <1>4, <1>6
<1>8. Get32(b, 1) = Get32(Put32(k), 1)
  BY <1>7, GetOfPrefix
<1>. QED  BY <1>3, <1>5, <1>6, <1>7, <1>8, GetPut

(* The numbers of the messages are bytes.                                  *)
LEMMA TypeBytes == \A t \in Simple \cup Ranged \cup {"have", "piece"} : TypeByte[t] \in Byte
<1>1. /\ TypeByte["choke"] = 0 /\ TypeByte["unchoke"] = 1
      /\ TypeByte["interested"] = 2 /\ TypeByte["notInterested"] = 3
      /\ TypeByte["have"] = 4 /\ TypeByte["request"] = 6
      /\ TypeByte["piece"] = 7 /\ TypeByte["cancel"] = 8
  BY DEF TypeByte
<1>2. 0..8 \subseteq Byte
  BY DEF Byte
<1>. QED  BY <1>1, <1>2 DEF Simple, Ranged

(* A length below 19 * 2^24 does not begin with the byte 19.               *)
LEMMA FirstByte ==
    ASSUME NEW k \in Nat, k < 19 * 256 * 256 * 256
    PROVE  Put32(k)[1] # 19
<1>1. PICK a \in Int : a = k \div 256 /\ 0 <= a /\ a < 19 * 256 * 256
  BY SMT
<1>2. PICK b \in Int : b = a \div 256 /\ 0 <= b /\ b < 19 * 256
  BY <1>1, SMT
<1>3. PICK c \in Int : c = b \div 256 /\ 0 <= c /\ c < 19
  BY <1>2, SMT
<1>4. c % 256 # 19
  BY <1>3
<1>5. Put32(k)[1] = c % 256
  BY <1>1, <1>2, <1>3, Put32Bytes
<1>. QED  BY <1>4, <1>5

(* keepAlive: a length of 0 and nothing after it.                          *)
LEMMA KeepAliveBytes ==
    /\ keepAlive \in Seq(Byte)
    /\ Len(keepAlive) = 4
    /\ Get32(keepAlive, 1) = 0
    /\ keepAlive[1] # 19
<1>1. keepAlive = [k \in 1..4 |-> 0]
  BY DEF keepAlive, Zeros
<1>2. keepAlive[1] = 0 /\ keepAlive[2] = 0 /\ keepAlive[3] = 0 /\ keepAlive[4] = 0
  BY <1>1
<1>3. Len(keepAlive) = 4
  BY <1>1
<1>4. keepAlive \in Seq(Byte)
  <2>1. keepAlive \in [1..4 -> Byte]
    BY <1>1 DEF Byte
  <2>. QED  BY <2>1, SeqDef
<1>. QED  BY <1>2, <1>3, <1>4 DEF Get32

(* choke, unchoke, interested and notInterested.                           *)
LEMMA SimpleBytes ==
    ASSUME NEW t \in Simple
    PROVE  /\ simple(t) \in Seq(Byte)
           /\ Len(simple(t)) = 5
           /\ Get32(simple(t), 1) = 1
           /\ simple(t)[1] # 19
           /\ simple(t)[5] = TypeByte[t]
<1>1. TypeByte[t] \in Byte /\ 1 \in Int32
  BY TypeBytes, SmallIsInt32
<1>2. Put32(1)[1] # 19
  BY FirstByte
<1>. QED  BY <1>1, <1>2, StartBytes DEF simple

(* have: its index behind the type.                                        *)
LEMMA HaveBytes ==
    ASSUME NEW index \in Ints
    PROVE  /\ have(index) \in Seq(Byte)
           /\ Len(have(index)) = 9
           /\ Get32(have(index), 1) = 5
           /\ have(index)[1] # 19
<1>1. TypeByte["have"] \in Byte /\ 5 \in Int32 /\ index \in Int32
  BY TypeBytes, SmallIsInt32, IntsAssumption
<1>2. Put32(5)[1] # 19
  BY FirstByte
<1>3. PICK s : s = Put32(5) \o <<TypeByte["have"]>>
  OBVIOUS
<1>4. s \in Seq(Byte) /\ Len(s) = 5 /\ Get32(s, 1) = 5 /\ s[1] # 19
  BY <1>1, <1>2, <1>3, StartBytes
<1>5. PICK b : b = s \o Put32(index)
  OBVIOUS
<1>6. /\ b \in Seq(Byte) /\ Len(b) = Len(s) + 4
      /\ \A j \in 1..Len(s) : b[j] = s[j]
  BY <1>1, <1>4, <1>5, PutAtEnd
<1>7. Len(b) = 9 /\ \A j \in 1..5 : b[j] = s[j]
  BY <1>4, <1>6
<1>8. Get32(b, 1) = Get32(s, 1) /\ b[1] = s[1]
  BY <1>7, GetOfPrefix
<1>. QED  BY <1>3, <1>4, <1>5, <1>6, <1>7, <1>8 DEF have

(* request and cancel: three numbers behind the type.                      *)
LEMMA RangedBytes ==
    ASSUME NEW t \in Ranged, NEW index \in Ints, NEW begin \in Ints,
           NEW length \in Ints
    PROVE  /\ ranged(t, index, begin, length) \in Seq(Byte)
           /\ Len(ranged(t, index, begin, length)) = 17
           /\ Get32(ranged(t, index, begin, length), 1) = 13
           /\ ranged(t, index, begin, length)[1] # 19
           /\ ranged(t, index, begin, length)[5] = TypeByte[t]
           /\ Get32(ranged(t, index, begin, length), 6) = index
           /\ Get32(ranged(t, index, begin, length), 10) = begin
           /\ Get32(ranged(t, index, begin, length), 14) = length
<1>1. /\ TypeByte[t] \in Byte /\ 13 \in Int32
      /\ index \in Int32 /\ begin \in Int32 /\ length \in Int32
  BY TypeBytes, SmallIsInt32, IntsAssumption
<1>2. Put32(13)[1] # 19
  BY FirstByte
<1>3. PICK s : s = Put32(13) \o <<TypeByte[t]>>
  OBVIOUS
<1>4. /\ s \in Seq(Byte) /\ Len(s) = 5 /\ Get32(s, 1) = 13
      /\ s[1] # 19 /\ s[5] = TypeByte[t]
  BY <1>1, <1>2, <1>3, StartBytes
<1>5. PICK u : u = s \o Put32(index)
  OBVIOUS
<1>6. u \in Seq(Byte) /\ Len(u) = 9 /\ (\A j \in 1..5 : u[j] = s[j]) /\ Get32(u, 6) = index
  <2>1. /\ u \in Seq(Byte) /\ Len(u) = Len(s) + 4
        /\ \A j \in 1..Len(s) : u[j] = s[j]
        /\ Get32(u, Len(s) + 1) = index
    BY <1>1, <1>4, <1>5, PutAtEnd
  <2>. QED  BY <1>4, <2>1
<1>7. PICK v : v = u \o Put32(begin)
  OBVIOUS
<1>8. v \in Seq(Byte) /\ Len(v) = 13 /\ (\A j \in 1..9 : v[j] = u[j]) /\ Get32(v, 10) = begin
  <2>1. /\ v \in Seq(Byte) /\ Len(v) = Len(u) + 4
        /\ \A j \in 1..Len(u) : v[j] = u[j]
        /\ Get32(v, Len(u) + 1) = begin
    BY <1>1, <1>6, <1>7, PutAtEnd
  <2>. QED  BY <1>6, <2>1
<1>9. PICK w : w = v \o Put32(length)
  OBVIOUS
<1>10. w \in Seq(Byte) /\ Len(w) = 17 /\ (\A j \in 1..13 : w[j] = v[j]) /\ Get32(w, 14) = length
  <2>1. /\ w \in Seq(Byte) /\ Len(w) = Len(v) + 4
        /\ \A j \in 1..Len(v) : w[j] = v[j]
        /\ Get32(w, Len(v) + 1) = length
    BY <1>1, <1>8, <1>9, PutAtEnd
  <2>. QED  BY <1>8, <2>1
<1>11. w = ranged(t, index, begin, length)
  BY <1>3, <1>5, <1>7, <1>9 DEF ranged
<1>12. \A j \in 1..5 : w[j] = s[j]
  BY <1>6, <1>8, <1>10
<1>13. \A j \in 1..9 : w[j] = u[j]
  BY <1>8, <1>10
<1>14. Get32(w, 1) = Get32(s, 1)
  BY <1>12 DEF Get32
<1>15. w[1] = s[1] /\ w[5] = s[5]
  BY <1>12
<1>16. Get32(w, 6) = Get32(u, 6)
  BY <1>13 DEF Get32
<1>17. \A j \in 1..13 : w[j] = v[j]
  BY <1>10
<1>18. Get32(w, 10) = Get32(v, 10)
  BY <1>17 DEF Get32
<1>. QED
  BY <1>4, <1>6, <1>8, <1>10, <1>11, <1>14, <1>15, <1>16, <1>18

(* piece: the length counts the bytes that are sent, although one of them  *)
(* stands where none should be and the last of the block is cut off.       *)
LEMMA PieceBytes ==
    ASSUME NEW index \in Ints, NEW begin \in Ints, NEW data \in Pieces,
           NEW blockLen \in BlockLens, begin >= 0,
           begin <= Len(data) - blockLen
    PROVE  /\ piece(index, begin, data, blockLen) \in Seq(Byte)
           /\ Len(piece(index, begin, data, blockLen)) = blockLen + 13
           /\ Get32(piece(index, begin, data, blockLen), 1) = blockLen + 9
           /\ piece(index, begin, data, blockLen)[1] = Put32(blockLen + 9)[1]
<1>1. /\ blockLen \in Nat /\ blockLen + 9 \in Int32
      /\ index \in Int32 /\ begin \in Int32 /\ begin \in Nat
  <2>1. MaxInt \in Int /\ MinInt \in Int /\ MinInt <= 0
    BY SMT DEF MaxInt, MinInt
  <2>2. blockLen \in 0..(MaxInt - 13)
    BY PiecesAssumption
  <2>3. index \in Int32 /\ begin \in Int32
    BY IntsAssumption
  <2>4. begin \in Nat
    BY <2>3, Int32Range
  <2>. QED  BY <2>1, <2>2, <2>3, <2>4 DEF Int32
<1>2. PICK p : p = Put32(blockLen + 9)
  OBVIOUS
<1>3. p \in Seq(Byte) /\ Len(p) = 4 /\ Get32(p, 1) = blockLen + 9
  BY <1>1, <1>2, Put32Bytes, GetPut
<1>4. PICK u : u = <<0, TypeByte["piece"]>>
  OBVIOUS
<1>5. u \in Seq(Byte) /\ Len(u) = 2
  <2>1. 0 \in Byte /\ TypeByte["piece"] \in Byte
    BY TypeBytes DEF Byte
  <2>. QED  BY <1>4, <2>1
<1>6. PICK s : s = p \o u
  OBVIOUS
<1>7. s \in Seq(Byte) /\ Len(s) = 6 /\ \A j \in 1..4 : s[j] = p[j]
  <2>1. /\ s \in Seq(Byte) /\ Len(s) = Len(p) + Len(u)
        /\ \A j \in 1..(Len(p) + Len(u)) :
              s[j] = IF j <= Len(p) THEN p[j] ELSE u[j - Len(p)]
    BY <1>3, <1>5, <1>6, ConcatProperties, Zenon
  <2>. QED  BY <1>3, <1>5, <2>1
<1>8. PICK v : v = s \o Put32(index)
  OBVIOUS
<1>9. v \in Seq(Byte) /\ Len(v) = 10 /\ \A j \in 1..6 : v[j] = s[j]
  <2>1. /\ v \in Seq(Byte) /\ Len(v) = Len(s) + 4
        /\ \A j \in 1..Len(s) : v[j] = s[j]
    BY <1>1, <1>7, <1>8, PutAtEnd
  <2>. QED  BY <1>7, <2>1
<1>10. PICK w : w = v \o Put32(begin)
  OBVIOUS
<1>11. w \in Seq(Byte) /\ Len(w) = 14 /\ \A j \in 1..10 : w[j] = v[j]
  <2>1. /\ w \in Seq(Byte) /\ Len(w) = Len(v) + 4
        /\ \A j \in 1..Len(v) : w[j] = v[j]
    BY <1>1, <1>9, <1>10, PutAtEnd
  <2>. QED  BY <1>9, <2>1
<1>12. PICK block : block = SubSeq(data, begin + 1, begin + blockLen)
  OBVIOUS
<1>13. block \in Seq(Byte) /\ Len(block) = blockLen
  <2>1. data \in Seq(Byte) /\ Len(data) \in Nat
    BY PiecesAssumption
  <2>2. \A j \in (begin + 1)..(begin + blockLen) : data[j] \in Byte
    BY <1>1, <2>1, ElementOfSeq
  <2>3. /\ block \in Seq(Byte)
        /\ Len(block) = IF begin + 1 <= begin + blockLen
                        THEN (begin + blockLen) - (begin + 1) + 1 ELSE 0
    BY <1>1, <1>12, <2>2, SubSeqProperties
  <2>. QED  BY <1>1, <2>3
<1>14. PICK buffer : buffer = w \o block
  OBVIOUS
<1>15. /\ buffer \in Seq(Byte) /\ Len(buffer) = 14 + blockLen
       /\ \A j \in 1..14 : buffer[j] = w[j]
  <2>1. /\ buffer \in Seq(Byte) /\ Len(buffer) = Len(w) + Len(block)
        /\ \A j \in 1..(Len(w) + Len(block)) :
              buffer[j] = IF j <= Len(w) THEN w[j] ELSE block[j - Len(w)]
    BY <1>11, <1>13, <1>14, ConcatProperties, Zenon
  <2>2. /\ Len(buffer) = 14 + blockLen
        /\ \A j \in 1..(14 + blockLen) :
              buffer[j] = IF j <= 14 THEN w[j] ELSE block[j - 14]
    BY <1>11, <1>13, <2>1, Zenon
  <2>3. blockLen \in Nat
    BY <1>1
  <2>4. \A j \in 1..14 : buffer[j] = w[j]
    BY <2>2, <2>3
  <2>. QED  BY <2>1, <2>2, <2>4
<1>16. PICK b : b = SubSeq(buffer, 1, blockLen + 13)
  OBVIOUS
<1>17. /\ b \in Seq(Byte) /\ Len(b) = blockLen + 13
       /\ \A j \in 1..(blockLen + 13) : b[j] = buffer[j]
  <2>1. \A j \in 1..(blockLen + 13) : buffer[j] \in Byte
    <3>1. \A j \in 1..Len(buffer) : buffer[j] \in Byte
      BY <1>15, ElementOfSeq
    <3>2. blockLen \in Nat /\ Len(buffer) = 14 + blockLen
      BY <1>1, <1>15
    <3>3. \A j \in 1..(blockLen + 13) : j \in 1..Len(buffer)
      BY <3>2
    <3>. QED  BY <3>1, <3>3
  <2>2. /\ b \in Seq(Byte)
        /\ Len(b) = IF 1 <= blockLen + 13 THEN (blockLen + 13) - 1 + 1 ELSE 0
        /\ \A j \in 1..((blockLen + 13) - 1 + 1) : b[j] = buffer[1 + j - 1]
    BY <1>1, <1>16, <2>1, SubSeqProperties
  <2>. QED  BY <1>1, <2>2
<1>18. \A j \in 1..4 : b[j] = p[j]
  <2>1. \A j \in 1..4 : w[j] = p[j]
    BY <1>7, <1>9, <1>11
  <2>2. \A j \in 1..4 : buffer[j] = p[j]
    BY <1>15, <2>1
  <2>. QED  BY <1>1, <1>17, <2>2
<1>19. Get32(b, 1) = Get32(p, 1) /\ b[1] = p[1]
  BY <1>18 DEF Get32
<1>20. b = piece(index, begin, data, blockLen)
  BY <1>2, <1>4, <1>6, <1>8, <1>10, <1>12, <1>14, <1>16 DEF piece
<1>. QED  BY <1>2, <1>3, <1>17, <1>19, <1>20

(* handshake: the length of the protocol's name comes first.               *)
LEMMA HandshakeBytes ==
    ASSUME NEW hash \in Hashes, NEW peerId \in Hashes
    PROVE  handshake(hash, peerId) \in Seq(Byte) /\ handshake(hash, peerId)[1] = 19
<1>1. hash \in Seq(Byte) /\ peerId \in Seq(Byte)
  <2>1. hash \in [1..20 -> Byte] /\ peerId \in [1..20 -> Byte]
    BY HashesAssumption
  <2>. QED  BY <2>1, SeqDef
<1>2. PICK z : z = Zeros(8)
  OBVIOUS
<1>3. z \in Seq(Byte)
  <2>1. z \in [1..8 -> Byte]
    BY <1>2 DEF Zeros, Byte
  <2>. QED  BY <2>1, SeqDef
<1>4. <<19>> \in Seq(Byte) /\ Len(<<19>>) = 1 /\ <<19>>[1] = 19
  BY DEF Byte
<1>5. Protocol \in Seq(Byte)
  BY DEF Protocol, Byte
<1>6. PICK f : f = <<19>>
  OBVIOUS
<1>7. f \in Seq(Byte) /\ Len(f) \in Nat /\ Len(f) >= 1 /\ f[1] = 19
  BY <1>4, <1>6
<1>8. \A s, t \in Seq(Byte) : Len(s) >= 1 /\ s[1] = 19 =>
         s \o t \in Seq(Byte) /\ Len(s \o t) >= 1 /\ (s \o t)[1] = 19
  <2> SUFFICES ASSUME NEW s \in Seq(Byte), NEW t \in Seq(Byte),
                      Len(s) >= 1, s[1] = 19
               PROVE  s \o t \in Seq(Byte) /\ Len(s \o t) >= 1 /\ (s \o t)[1] = 19
    OBVIOUS
  <2>1. PICK c : c = s \o t
    OBVIOUS
  <2>2. /\ c \in Seq(Byte) /\ Len(c) = Len(s) + Len(t)
        /\ \A j \in 1..(Len(s) + Len(t)) :
              c[j] = IF j <= Len(s) THEN s[j] ELSE t[j - Len(s)]
    BY <2>1, ConcatProperties, Zenon
  <2>3. Len(s) \in Nat /\ Len(t) \in Nat
    BY LenProperties
  <2>4. Len(c) >= 1 /\ c[1] = 19
    BY <2>2, <2>3
  <2>. QED  BY <2>1, <2>2, <2>4
<1>9. PICK g : g = f \o Protocol
  OBVIOUS
<1>10. g \in Seq(Byte) /\ Len(g) >= 1 /\ g[1] = 19
  BY <1>5, <1>7, <1>8, <1>9
<1>11. PICK h : h = g \o z
  OBVIOUS
<1>12. h \in Seq(Byte) /\ Len(h) >= 1 /\ h[1] = 19
  BY <1>3, <1>8, <1>10, <1>11
<1>13. PICK k : k = h \o hash
  OBVIOUS
<1>14. k \in Seq(Byte) /\ Len(k) >= 1 /\ k[1] = 19
  BY <1>1, <1>8, <1>12, <1>13
<1>15. k \o peerId \in Seq(Byte) /\ (k \o peerId)[1] = 19
  BY <1>1, <1>8, <1>14
<1>16. handshake(hash, peerId) = k \o peerId
  BY <1>2, <1>6, <1>9, <1>11, <1>13 DEF handshake
<1>. QED  BY <1>15, <1>16

-----------------------------------------------------------------------------
(* Messages, their fields and what decode makes of them.                   *)

(* The length of a block is a natural number.                              *)
LEMMA BlockLensAreNat == \A n \in BlockLens : n \in Nat
<1>1. MaxInt \in Int
  BY SMT DEF MaxInt
<1>. QED  BY <1>1, PiecesAssumption

(* What decode returns for a message of one byte, and of thirteen.         *)
LEMMA PayloadFields ==
    ASSUME NEW b
    PROVE  /\ Get32(b, 1) = 1 => DecodePayload(b).msgType = b[5]
           /\ Get32(b, 1) = 13 =>
                /\ DecodePayload(b).msgType = b[5]
                /\ DecodePayload(b).index = Get32(b, 6)
                /\ DecodePayload(b).begin = Get32(b, 10)
                /\ DecodePayload(b).reqLen = Get32(b, 14)
<1>1. PICK len : len = Get32(b, 1)
  OBVIOUS
<1>2. PICK r : r = [Unread EXCEPT !.lenPayload = len]
  OBVIOUS
<1>3. DOMAIN r = {"lenPayload", "msgType", "index", "begin", "reqLen",
                  "blockLen", "block", "hash", "peerId"}
  BY <1>2 DEF Unread
<1>4. CASE len = 1
  <2>1. DecodePayload(b) = [r EXCEPT !.msgType = b[5]]
    BY <1>1, <1>2, <1>4 DEF DecodePayload
  <2>2. [r EXCEPT !.msgType = b[5]].msgType = b[5]
    BY <1>3
  <2>. QED  BY <1>1, <1>4, <2>1, <2>2
<1>5. CASE len = 13
  <2>1. PICK i, g, l : i = Get32(b, 6) /\ g = Get32(b, 10) /\ l = Get32(b, 14)
    OBVIOUS
  <2>2. DecodePayload(b) = [r EXCEPT !.msgType = b[5], !.index = i,
                                     !.begin = g, !.reqLen = l]
    BY <1>1, <1>2, <1>5, <2>1 DEF DecodePayload
  <2>3. PICK d : d = [r EXCEPT !.msgType = b[5], !.index = i,
                               !.begin = g, !.reqLen = l]
    OBVIOUS
  <2>4. d.msgType = b[5] /\ d.index = i /\ d.begin = g /\ d.reqLen = l
    BY <1>3, <2>3
  <2>. QED  BY <1>1, <1>5, <2>1, <2>2, <2>3, <2>4
<1>. QED  BY <1>1, <1>4, <1>5

(* The fields that a message of each type has.                             *)
LEMMA MessageFields ==
    ASSUME NEW m \in Message
    PROVE  /\ m.type \in Simple \cup Ranged
                           \cup {"keepAlive", "have", "handshake", "piece"}
           /\ m.type = "have" => m.index \in Ints
           /\ m.type \in Ranged =>
                m.index \in Ints /\ m.begin \in Ints /\ m.length \in Ints
           /\ m.type = "handshake" => m.hash \in Hashes /\ m.peerId \in Hashes
           /\ m.type = "piece" =>
                /\ m.index \in Ints /\ m.begin \in Ints /\ m.piece \in Pieces
                /\ m.blockLen \in BlockLens /\ m.begin >= 0
                /\ m.begin <= Len(m.piece) - m.blockLen
<1>1. CASE m \in [type: Simple \cup {"keepAlive"}]
  BY <1>1 DEF Simple, Ranged
<1>2. CASE m \in [type: {"have"}, index: Ints]
  BY <1>2 DEF Ranged
<1>3. CASE m \in [type: Ranged, index: Ints, begin: Ints, length: Ints]
  BY <1>3 DEF Ranged
<1>4. CASE m \in [type: {"handshake"}, hash: Hashes, peerId: Hashes]
  BY <1>4 DEF Ranged
<1>5. CASE m \in {n \in [type: {"piece"}, index: Ints, begin: Ints,
                         piece: Pieces, blockLen: BlockLens] :
                    n.begin >= 0 /\ n.begin <= Len(n.piece) - n.blockLen}
  BY <1>5 DEF Ranged
<1>. QED  BY <1>1, <1>2, <1>3, <1>4, <1>5 DEF Message

(* Which encoder a message goes to.                                        *)
LEMMA EncodeOf ==
    ASSUME NEW m
    PROVE  /\ m.type = "keepAlive" => Encode(m) = keepAlive
           /\ m.type \in Simple => Encode(m) = simple(m.type)
           /\ m.type = "have" => Encode(m) = have(m.index)
           /\ m.type \in Ranged =>
                Encode(m) = ranged(m.type, m.index, m.begin, m.length)
           /\ m.type = "handshake" => Encode(m) = handshake(m.hash, m.peerId)
           /\ m.type = "piece" =>
                Encode(m) = piece(m.index, m.begin, m.piece, m.blockLen)
<1>1. CASE m.type = "keepAlive"
  BY <1>1 DEF Encode, Simple, Ranged
<1>2. CASE m.type \in Simple
  BY <1>2 DEF Encode, Simple, Ranged
<1>3. CASE m.type = "have"
  BY <1>3 DEF Encode, Simple, Ranged
<1>4. CASE m.type \in Ranged
  BY <1>4 DEF Encode, Simple, Ranged
<1>5. CASE m.type = "handshake"
  BY <1>5 DEF Encode, Simple, Ranged
<1>6. CASE m.type = "piece"
  BY <1>6 DEF Encode, Simple, Ranged
<1>. QED  BY <1>1, <1>2, <1>3, <1>4, <1>5, <1>6

-----------------------------------------------------------------------------
(* Every message.                                                          *)

LEMMA EncodeIsBytes == \A m \in Message : Encode(m) \in Seq(Byte)
<1> SUFFICES ASSUME NEW m \in Message PROVE Encode(m) \in Seq(Byte)
  OBVIOUS
<1>1. CASE m.type = "keepAlive"
  BY <1>1, EncodeOf, KeepAliveBytes
<1>2. CASE m.type \in Simple
  BY <1>2, EncodeOf, SimpleBytes
<1>3. CASE m.type = "have"
  BY <1>3, EncodeOf, MessageFields, HaveBytes
<1>4. CASE m.type \in Ranged
  BY <1>4, EncodeOf, MessageFields, RangedBytes
<1>5. CASE m.type = "handshake"
  BY <1>5, EncodeOf, MessageFields, HandshakeBytes
<1>6. CASE m.type = "piece"
  BY <1>6, EncodeOf, MessageFields, PieceBytes
<1>. QED  BY <1>1, <1>2, <1>3, <1>4, <1>5, <1>6, MessageFields

(* The first four bytes of a message but a handshake say how many follow.  *)
LEMMA PrefixCounts ==
    ASSUME NEW m \in Message, m.type # "handshake"
    PROVE  /\ Len(Encode(m)) = 4 + Get32(Encode(m), 1)
           /\ Get32(Encode(m), 1) \in Nat
<1>1. PICK b : b = Encode(m)
  OBVIOUS
<1>2. CASE m.type = "keepAlive"
  <2>1. b = keepAlive
    BY <1>1, <1>2, EncodeOf
  <2>2. Len(b) = 4 /\ Get32(b, 1) = 0
    BY <2>1, KeepAliveBytes
  <2>. QED  BY <1>1, <2>2
<1>3. CASE m.type \in Simple
  <2>1. b = simple(m.type)
    BY <1>1, <1>3, EncodeOf
  <2>2. Len(b) = 5 /\ Get32(b, 1) = 1
    BY <1>3, <2>1, SimpleBytes
  <2>. QED  BY <1>1, <2>2
<1>4. CASE m.type = "have"
  <2>1. b = have(m.index) /\ m.index \in Ints
    BY <1>1, <1>4, EncodeOf, MessageFields
  <2>2. Len(b) = 9 /\ Get32(b, 1) = 5
    BY <2>1, HaveBytes
  <2>. QED  BY <1>1, <2>2
<1>5. CASE m.type \in Ranged
  <2>1. b = ranged(m.type, m.index, m.begin, m.length)
    BY <1>1, <1>5, EncodeOf
  <2>2. m.index \in Ints /\ m.begin \in Ints /\ m.length \in Ints
    BY <1>1, <1>5, MessageFields
  <2>3. Len(b) = 17 /\ Get32(b, 1) = 13
    BY <1>5, <2>1, <2>2, RangedBytes
  <2>. QED  BY <1>1, <2>3
<1>6. CASE m.type = "piece"
  <2>1. /\ m.index \in Ints /\ m.begin \in Ints /\ m.piece \in Pieces
        /\ m.blockLen \in BlockLens /\ m.begin >= 0
        /\ m.begin <= Len(m.piece) - m.blockLen
    BY <1>1, <1>6, MessageFields
  <2>2. m.blockLen \in Nat
    BY <2>1, BlockLensAreNat
  <2>3. b = piece(m.index, m.begin, m.piece, m.blockLen)
    BY <1>1, <1>6, EncodeOf
  <2>4. Len(b) = m.blockLen + 13 /\ Get32(b, 1) = m.blockLen + 9
    BY <2>1, <2>3, PieceBytes
  <2>. QED  BY <1>1, <2>2, <2>4
<1>. QED  BY <1>2, <1>3, <1>4, <1>5, <1>6, MessageFields

=============================================================================
