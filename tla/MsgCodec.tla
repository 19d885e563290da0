------------------------------ MODULE MsgCodec ------------------------------
(***************************************************************************)
(* One peer encodes a message with MSG and sends msgByte bytes of the      *)
(* buffer; another decodes them (msg_protocol.cpp).                        *)
(***************************************************************************)
EXTENDS Wire

VARIABLES
    msg,    \* the message the sender encodes
    wire,   \* the bytes it sends
    got,    \* the MSG that the receiver's decode returns
    codec   \* whose turn it is

codecVars == <<msg, wire, got, codec>>

-----------------------------------------------------------------------------

EncodeMessage(m) ==
    /\ codec \in {"idle", "received"}
    /\ msg' = m
    /\ wire' = Encode(m)
    /\ got' = Unread
    /\ codec' = "sent"

DecodeMessage ==
    /\ codec = "sent"
    /\ got' \in Decode(wire)
    /\ codec' = "received"
    /\ UNCHANGED <<msg, wire>>

CodecInit ==
    /\ msg = [type |-> "keepAlive"]
    /\ wire = <<>>
    /\ got = Unread
    /\ codec = "idle"

CodecNext ==
    \/ \E m \in Message : EncodeMessage(m)
    \/ DecodeMessage

CodecSpec == CodecInit /\ [][CodecNext]_codecVars

-----------------------------------------------------------------------------
(* Properties.                                                             *)

(* The first four bytes say how many follow: the receive loop of the peer  *)
(* (torrent.cpp:102-107) finds the start of the next message by them.      *)
LengthPrefixFramesMessage ==
    codec = "sent" /\ msg.type # "handshake" => Len(wire) = 4 + Get32(wire, 1)

(* A message is not taken for a handshake: its length prefix would have to *)
(* start with 19.                                                          *)
OnlyHandshakesLookLikeOne ==
    codec = "sent" => (wire[1] = 19 <=> msg.type = "handshake")

(* Choking, interest and requests survive the trip.                        *)
ControlRoundtrip ==
    codec = "received" =>
        /\ msg.type \in Simple => got.msgType = TypeByte[msg.type]
        /\ msg.type \in Ranged =>
             /\ got.msgType = TypeByte[msg.type]
             /\ got.index = msg.index
             /\ got.begin = msg.begin
             /\ got.reqLen = msg.length

(* msg_protocol.h:22 says of decode "Return message type": also that of a  *)
(* piece made by the encoder of the same class.                            *)
PieceTypeReturned ==
    codec = "received" /\ msg.type = "piece" => got.msgType = TypeByte["piece"]

=============================================================================
