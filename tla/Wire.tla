-------------------------------- MODULE Wire --------------------------------
(***************************************************************************)
(* The peer wire messages (msg_protocol.cpp): what the encoders of class   *)
(* MSG write and what MSG::decode reads back.                              *)
(*                                                                         *)
(* A field that decode does not assign keeps the value the memory of its   *)
(* MSG object happened to have: NotSet.                                    *)
(***************************************************************************)
EXTENDS Integers, Sequences

CONSTANTS
    Ints,       \* the values of index, begin and length (32 bits)
    Pieces,     \* the contents of pieces, as sequences of bytes
    BlockLens,  \* the lengths of blocks
    Hashes,     \* info hashes and peer ids, 20 bytes each
    NotSet      \* stands for an uninitialized field

Byte    == 0..255
MaxInt  == 127 * 256 * 256 * 256 + (256 * 256 * 256 - 1)
MinInt  == -MaxInt - 1
Int32   == MinInt..MaxInt

ASSUME IntsAssumption   == Ints \subseteq Int32
(* blockLen + 13 is computed as an int.                                    *)
ASSUME PiecesAssumption ==
    Pieces \subseteq Seq(Byte) /\ BlockLens \subseteq 0..(MaxInt - 13)
ASSUME HashesAssumption == Hashes \subseteq [1..20 -> Byte]

-----------------------------------------------------------------------------
(* htonl and ntohl: big-endian two's complement in four bytes.             *)

Put32(n) == << (((n \div 256) \div 256) \div 256) % 256,
               ((n \div 256) \div 256) % 256, (n \div 256) % 256, n % 256 >>

Get32(b, at) ==
    LET high == IF b[at] >= 128 THEN b[at] - 256 ELSE b[at]
    IN  ((high * 256 + b[at + 1]) * 256 + b[at + 2]) * 256 + b[at + 3]

Zeros(n) == [k \in 1..n |-> 0]

-----------------------------------------------------------------------------
(* Messages, and the encoders.                                             *)

Simple   == {"choke", "unchoke", "interested", "notInterested"}
Ranged   == {"request", "cancel"}
Message  ==
    [type: Simple \cup {"keepAlive"}]
      \cup [type: {"have"}, index: Ints]
      \cup [type: Ranged, index: Ints, begin: Ints, length: Ints]
      \cup [type: {"handshake"}, hash: Hashes, peerId: Hashes]
      \cup {m \in [type: {"piece"}, index: Ints, begin: Ints, piece: Pieces,
                   blockLen: BlockLens] :
              m.begin >= 0 /\ m.begin <= Len(m.piece) - m.blockLen}

(* The message numbers of the protocol, as the encoders write them.        *)
TypeByte ==
    [choke |-> 0, unchoke |-> 1, interested |-> 2, notInterested |-> 3,
     have |-> 4, request |-> 6, piece |-> 7, cancel |-> 8]

(* "BitTorrent protocol", one byte per character.                          *)
Protocol == << 66, 105, 116, 84, 111, 114, 114, 101, 110, 116, 32,
               112, 114, 111, 116, 111, 99, 111, 108 >>

(* Mutants: have without its type in the length, and a handshake with the  *)
(* wrong length of the protocol's name.                                    *)
haveShort(index) == Put32(4) \o <<TypeByte["have"]>> \o Put32(index)
handshake18(hash, peerId) == <<18>> \o Protocol \o Zeros(8) \o hash \o peerId

keepAlive         == Zeros(4)
simple(type)      == Put32(1) \o <<TypeByte[type]>>
have(index)       == Put32(5) \o <<TypeByte["have"]>> \o Put32(index)
ranged(type, index, begin, length) ==
    Put32(13) \o <<TypeByte[type]>> \o Put32(index) \o Put32(begin)
              \o Put32(length)
handshake(hash, peerId) == <<19>> \o Protocol \o Zeros(8) \o hash \o peerId

(* piece: the type goes to offset 5 and everything after it one byte too   *)
(* far, so that the last byte of the block lies beyond msgByte.            *)
piece(index, begin, data, blockLen) ==
    LET buffer == Put32(blockLen + 9) \o <<0, TypeByte["piece"]>>
                    \o Put32(index) \o Put32(begin)
                    \o SubSeq(data, begin + 1, begin + blockLen)
    IN  SubSeq(buffer, 1, blockLen + 13)

Encode(m) ==
    CASE m.type = "keepAlive" -> keepAlive
      [] m.type \in Simple    -> simple(m.type)
      [] m.type = "have"      -> have(m.index)
      [] m.type \in Ranged    -> ranged(m.type, m.index, m.begin, m.length)
      [] m.type = "handshake" -> handshake(m.hash, m.peerId)
      [] m.type = "piece"     -> piece(m.index, m.begin, m.piece, m.blockLen)

-----------------------------------------------------------------------------
(* MSG::decode.                                                            *)

Unread ==
    [lenPayload |-> NotSet, msgType |-> NotSet, index |-> NotSet,
     begin |-> NotSet, reqLen |-> NotSet, blockLen |-> NotSet,
     block |-> NotSet, hash |-> NotSet, peerId |-> NotSet]

(* A handshake.  strcmp sees the 19 bytes and one that was never set: with *)
(* a NUL there the text is equal, and then nothing is copied.              *)
DecodeHandshake(b) ==
    LET text  == SubSeq(b, 2, 20)
        copied == [Unread EXCEPT !.hash = SubSeq(b, 29, 48),
                                 !.peerId = SubSeq(b, 49, 68)]
    IN  IF text = Protocol THEN {Unread, copied} ELSE {copied}

(* Mutant of DecodePayload: the length is read where begin is.             *)
DecodePayloadShifted(b) ==
    LET len == Get32(b, 1)
        r   == [Unread EXCEPT !.lenPayload = len]
    IN  CASE len = 0  -> r
          [] len = 13 ->
               [r EXCEPT !.msgType = b[5], !.index = Get32(b, 6),
                         !.begin = Get32(b, 10), !.reqLen = Get32(b, 10)]
          [] OTHER    -> [r EXCEPT !.msgType = b[5]]

(* Anything else, by the length of the payload.                            *)
DecodePayload(b) ==
    LET len == Get32(b, 1)
        r   == [Unread EXCEPT !.lenPayload = len]
    IN  CASE len = 0        -> r
          [] len \in {1, 5} -> [r EXCEPT !.msgType = b[5]]
          [] len = 13       ->
               [r EXCEPT !.msgType = b[5], !.index = Get32(b, 6),
                         !.begin = Get32(b, 10), !.reqLen = Get32(b, 14)]
          [] OTHER ->
               LET s == [r EXCEPT !.msgType = b[5], !.index = b[6],
                                  !.begin = b[10]]
               IN  IF b[5] = 7
                   THEN [s EXCEPT !.block = SubSeq(b, 15, Len(b)),
                                  !.blockLen = Len(b) - 14]
                   ELSE s

(* The block of a piece is copied to an array of MaxBlock bytes (MAX_BLOCK *)
(* of msg_protocol.h) without a look at its length.                        *)
MaxBlock == 16384

Overruns(b) ==
    /\ Get32(b, 1) \notin {0, 1, 5, 13}
    /\ b[5] = 7
    /\ Len(b) - 14 > MaxBlock

(* The results decode may return for the bytes b: none that can be relied  *)
(* on when it writes behind the array.                                     *)
Decode(b) ==
    CASE b[1] = 19                   -> DecodeHandshake(b)
      [] b[1] # 19 /\ Overruns(b)    -> {}
      [] b[1] # 19 /\ ~Overruns(b)   -> {DecodePayload(b)}

=============================================================================
