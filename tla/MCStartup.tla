----------------------------- MODULE MCStartup ------------------------------
(***************************************************************************)
(* Startup with up to two listed peers.                                    *)
(***************************************************************************)
EXTENDS Startup

PeerA   == [ip |-> 1, port |-> 6881, peer_id |-> 11]
PeerB   == [ip |-> 2, port |-> 6882, peer_id |-> 12]
MCLists == {<<>>, <<PeerA>>, <<PeerA, PeerB>>}
=============================================================================
