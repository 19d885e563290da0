--------------------------- MODULE MsgCodecProofs ---------------------------
(***************************************************************************)
(* The peer wire messages, for every 32-bit value, every piece and every   *)
(* hash: the length prefix frames what is sent, and what the receiver      *)
(* decodes is what the sender encoded.                                     *)
(***************************************************************************)
EXTENDS MsgCodec, WireProofs

-----------------------------------------------------------------------------
(* The invariant: what is on the wire is an encoded message, and what was  *)
(* received is one of the results of decoding it.                          *)

CodecInv ==
    /\ codec \in {"idle", "sent", "received"}
    /\ codec # "idle" => msg \in Message /\ wire = Encode(msg)
    /\ codec = "received" => got \in Decode(wire)

LEMMA CodecInvariance == CodecSpec => []CodecInv
<1>1. CodecInit => CodecInv
  BY DEF CodecInit, CodecInv
<1>2. CodecInv /\ [CodecNext]_codecVars => CodecInv'
  <2> SUFFICES ASSUME CodecInv, [CodecNext]_codecVars PROVE CodecInv'
    OBVIOUS
  <2>1. ASSUME NEW m \in Message, EncodeMessage(m) PROVE CodecInv'
    BY <2>1 DEF EncodeMessage, CodecInv
  <2>2. CASE DecodeMessage
    BY <2>2 DEF DecodeMessage, CodecInv
  <2>3. CASE UNCHANGED codecVars
    BY <2>3 DEF codecVars, CodecInv
  <2>. QED  BY <2>1, <2>2, <2>3 DEF CodecNext
<1>. QED  BY <1>1, <1>2, PTL DEF CodecSpec

-----------------------------------------------------------------------------
(* The theorems.                                                           *)

(* For every message but a handshake the first four bytes say how many     *)
(* bytes follow, also for a piece, which its encoder shifts by one.        *)
THEOREM PrefixFrames == CodecSpec => []LengthPrefixFramesMessage
<1>1. CodecInv => LengthPrefixFramesMessage
  <2> SUFFICES ASSUME CodecInv, codec = "sent", msg.type # "handshake"
               PROVE  Len(wire) = 4 + Get32(wire, 1)
    BY DEF LengthPrefixFramesMessage
  <2>1. msg \in Message /\ wire = Encode(msg)
    BY DEF CodecInv
  <2>2. Len(Encode(msg)) = 4 + Get32(Encode(msg), 1)
    BY <2>1, PrefixCounts
  <2>. QED  BY <2>1, <2>2
<1>. QED  BY <1>1, CodecInvariance, PTL

(* As long as no block has 19 * 2^24 - 9 bytes or more, a message begins   *)
(* with the byte 19, by which decode tells a handshake, exactly if it is   *)
(* one.  (The event loop requests blocks of 16384 bytes.)                  *)
THEOREM HandshakesStandOut ==
    ASSUME \A n \in BlockLens : n + 9 < 19 * 256 * 256 * 256
    PROVE  CodecSpec => []OnlyHandshakesLookLikeOne
<1>1. CodecInv => OnlyHandshakesLookLikeOne
  <2> SUFFICES ASSUME CodecInv, codec = "sent"
               PROVE  wire[1] = 19 <=> msg.type = "handshake"
    BY DEF OnlyHandshakesLookLikeOne
  <2>1. msg \in Message /\ wire = Encode(msg)
    BY DEF CodecInv
  <2>2. CASE msg.type = "keepAlive"
    BY <2>1, <2>2, EncodeOf, KeepAliveBytes
  <2>3. CASE msg.type \in Simple
    BY <2>1, <2>3, EncodeOf, SimpleBytes DEF Simple
  <2>4. CASE msg.type = "have"
    BY <2>1, <2>4, EncodeOf, MessageFields, HaveBytes
  <2>5. CASE msg.type \in Ranged
    BY <2>1, <2>5, EncodeOf, MessageFields, RangedBytes DEF Ranged
  <2>6. CASE msg.type = "piece"
    <3>1. /\ msg.index \in Ints /\ msg.begin \in Ints /\ msg.piece \in Pieces
          /\ msg.blockLen \in BlockLens /\ msg.begin >= 0
          /\ msg.begin <= Len(msg.piece) - msg.blockLen
      BY <2>1, <2>6, MessageFields
    <3>2. /\ msg.blockLen + 9 \in Nat
          /\ msg.blockLen + 9 < 19 * 256 * 256 * 256
      <4>1. msg.blockLen \in Nat
        BY <3>1, BlockLensAreNat
      <4>. QED  BY <3>1, <4>1, SMT
    <3>3. Put32(msg.blockLen + 9)[1] # 19
      BY <3>2, FirstByte, SMT
    <3>4. wire = piece(msg.index, msg.begin, msg.piece, msg.blockLen)
      BY <2>1, <2>6, EncodeOf
    <3>5. wire[1] = Put32(msg.blockLen + 9)[1]
      BY <3>1, <3>4, PieceBytes
    <3>. QED  BY <2>6, <3>3, <3>5
  <2>7. CASE msg.type = "handshake"
    BY <2>1, <2>7, EncodeOf, MessageFields, HandshakeBytes
  <2>. QED  BY <2>1, <2>2, <2>3, <2>4, <2>5, <2>6, <2>7, MessageFields
<1>. QED  BY <1>1, CodecInvariance, PTL

(* What a peer says about choking and interest, and the three numbers of a *)
(* request or cancel, negative ones included, are what the other decodes.  *)
THEOREM ControlSurvives == CodecSpec => []ControlRoundtrip
<1>1. CodecInv => ControlRoundtrip
  <2> SUFFICES ASSUME CodecInv, codec = "received" PROVE ControlRoundtrip
    BY DEF ControlRoundtrip
  <2>1. msg \in Message /\ wire = Encode(msg) /\ got \in Decode(wire)
    BY DEF CodecInv
  <2>2. wire[1] # 19 => got = DecodePayload(wire)
    BY <2>1 DEF Decode
  <2>3. CASE msg.type \in Simple
    <3>1. wire[1] # 19 /\ Get32(wire, 1) = 1 /\ wire[5] = TypeByte[msg.type]
      BY <2>1, <2>3, EncodeOf, SimpleBytes
    <3>2. got.msgType = wire[5]
      BY <2>2, <3>1, PayloadFields
    <3>. QED  BY <2>3, <3>1, <3>2 DEF ControlRoundtrip, Simple, Ranged
  <2>4. CASE msg.type \in Ranged
    <3>1. /\ wire[1] # 19 /\ Get32(wire, 1) = 13 /\ wire[5] = TypeByte[msg.type]
          /\ Get32(wire, 6) = msg.index /\ Get32(wire, 10) = msg.begin
          /\ Get32(wire, 14) = msg.length
      BY <2>1, <2>4, EncodeOf, MessageFields, RangedBytes
    <3>2. /\ got.msgType = wire[5] /\ got.index = Get32(wire, 6)
          /\ got.begin = Get32(wire, 10) /\ got.reqLen = Get32(wire, 14)
      BY <2>2, <3>1, PayloadFields
    <3>. QED  BY <2>4, <3>1, <3>2 DEF ControlRoundtrip, Simple, Ranged
  <2>. QED  BY <2>3, <2>4 DEF ControlRoundtrip
<1>. QED  BY <1>1, CodecInvariance, PTL

=============================================================================
