----------------------------- MODULE MCMsgCodec -----------------------------
(***************************************************************************)
(* MsgCodec with integers at the byte and word boundaries.                 *)
(***************************************************************************)
EXTENDS MsgCodec

MCInts   == {MinInt, -1, 0, 255, 258, 65536, MaxInt}
MCPieces == {[k \in 1..8 |-> 10 + k], [k \in 1..8 |-> 0]}
MCHashes == {[k \in 1..20 |-> 100 + k], [k \in 1..20 |-> 19]}
=============================================================================
