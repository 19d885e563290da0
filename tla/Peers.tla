-------------------------------- MODULE Peers -------------------------------
(***************************************************************************)
(* Class peers (peer.cpp): the connection object, without its traffic.     *)
(***************************************************************************)
EXTENDS Integers

NoId    == 0      \* the empty peer id of a new object
NoSock  == -1

(* peers::peers().                                                         *)
NewPeer == [sock |-> NoSock, port |-> 0, address |-> 0, peer_id |-> NoId]

(* peers::setup when there is a descriptor: connect() is given the port    *)
(* that the object had before the call, and only a connection that         *)
(* succeeds makes the peer id known.                                       *)
Dials(p, addr) == <<addr, p.port>>

AfterSetup(p, q, ok) ==
    [sock |-> 1, port |-> q.port, address |-> q.ip,
     peer_id |-> IF ok THEN q.peer_id ELSE p.peer_id]

(* connect(): nobody listens on port 0.                                    *)
Connects(p) == IF p.port = 0 THEN {FALSE} ELSE BOOLEAN

=============================================================================
