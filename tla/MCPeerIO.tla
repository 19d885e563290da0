------------------------------ MODULE MCPeerIO ------------------------------
(***************************************************************************)
(* PeerIO with a listed peer and messages of four, nine and 68 bytes.      *)
(***************************************************************************)
EXTENDS PeerIO

MCListed == {[ip |-> 1, port |-> 6881, peer_id |-> 11]}

Hash        == [k \in 1..20 |-> 100 + k]
HashOnly    == {Hash}
MCHandshake == [type |-> "handshake", hash |-> Hash, peerId |-> Hash]
Greeting    == {MCHandshake}
MCMessages  ==
    {MCHandshake, [type |-> "keepAlive"], [type |-> "have", index |-> 258]}
=============================================================================
