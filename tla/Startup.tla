------------------------------- MODULE Startup ------------------------------
(***************************************************************************)
(* The constructor of Torrent (torrent.cpp) after the tracker has answered *)
(* with a list of peers: it opens the listening socket, dials every peer   *)
(* (peers::setup, peer.cpp), means to send each one a handshake, and then  *)
(* waits in poll for clients.                                              *)
(*                                                                         *)
(* The loop around poll stands here with the branch that accepts a client. *)
(* What it does with the messages of a client is not modelled: it polls    *)
(* fd_count = 0 descriptors, so that the branch is never taken.            *)
(***************************************************************************)
EXTENDS Peers, Sequences, FiniteSets

CONSTANTS
    Lists,     \* the lists of peers the tracker may give: ip, port, peer_id
    Clients,   \* the peers that may connect to this one
    Backlog    \* the connections that listen() keeps waiting, 5 in the code

NULL == "NULL"

VARIABLES
    list,        \* coonector_peers
    sock_peer,   \* the objects of class peers made so far
    i,           \* the peer the loop is at
    dialled,     \* the addresses given to connect(), in order
    greeted,     \* the peers to which Send was called, by position
    fd_count,    \* how many descriptors poll looks at
    waiting,     \* clients that the kernel keeps for accept()
    accepted,    \* clients whose descriptor is in pfds
    pc           \* "setup", "handshake", "send", "poll" or "crash"

vars == <<list, sock_peer, i, dialled, greeted, fd_count, waiting, accepted, pc>>

-----------------------------------------------------------------------------

(* One turn of the loop over the peers: setup, whose result is not looked  *)
(* at, and push_back.                                                      *)
Setup ==
    /\ pc = "setup"
    /\ i <= Len(list)
    /\ \/ \E ok \in Connects(NewPeer) :
            /\ sock_peer' = Append(sock_peer, AfterSetup(NewPeer, list[i], ok))
            /\ dialled' = Append(dialled, Dials(NewPeer, list[i].ip))
       \* socket() failed
       \/ /\ sock_peer' = Append(sock_peer, NewPeer)
          /\ UNCHANGED dialled
    /\ pc' = "handshake"
    /\ UNCHANGED <<list, i, greeted, fd_count, waiting, accepted>>

(* size_t *size = NULL is what handshake() stores the length through.      *)
Size == NULL

Handshake ==
    /\ pc = "handshake"
    /\ pc' = IF Size = NULL THEN "crash" ELSE "send"
    /\ UNCHANGED <<list, sock_peer, i, dialled, greeted, fd_count, waiting,
                   accepted>>

Send ==
    /\ pc = "send"
    /\ greeted' = greeted \cup {i}
    /\ i' = i + 1
    /\ pc' = "setup"
    /\ UNCHANGED <<list, sock_peer, dialled, fd_count, waiting, accepted>>

EndOfList ==
    /\ pc = "setup"
    /\ i > Len(list)
    /\ pc' = "poll"
    /\ UNCHANGED <<list, sock_peer, i, dialled, greeted, fd_count, waiting,
                   accepted>>

(* A client connects to the listening socket.                              *)
ClientConnects(c) ==
    /\ c \notin waiting \cup accepted
    /\ pc # "crash"
    /\ Cardinality(waiting) < Backlog
    /\ waiting' = waiting \cup {c}
    /\ UNCHANGED <<list, sock_peer, i, dialled, greeted, fd_count, accepted, pc>>

(* poll() returns for the listening socket, pfds[0], when that is one of   *)
(* the descriptors it looks at; accept() takes a client.                   *)
Accept ==
    /\ pc = "poll"
    /\ fd_count > 0
    /\ \E c \in waiting :
          /\ waiting' = waiting \ {c}
          /\ accepted' = accepted \cup {c}
    /\ fd_count' = fd_count + 1
    /\ UNCHANGED <<list, sock_peer, i, dialled, greeted, pc>>

Init ==
    /\ list \in Lists
    /\ sock_peer = <<>>
    /\ i = 1
    /\ dialled = <<>>
    /\ greeted = {}
    /\ fd_count = 0
    /\ waiting = {}
    /\ accepted = {}
    /\ pc = "setup"

Program == Setup \/ Handshake \/ Send \/ EndOfList \/ Accept

Next == Program \/ \E c \in Clients : ClientConnects(c)

(* The program keeps running; clients come when they like.                 *)
Spec == Init /\ [][Next]_vars /\ WF_vars(Program)

-----------------------------------------------------------------------------
(* Properties.                                                             *)

(* peer.cpp:28 "Initializes the peer information using the ip, port, and   *)
(* peer id": the peer is dialled at the port it was listed with.           *)
DialsListedPort ==
    \A k \in DOMAIN dialled :
        \E m \in DOMAIN list : dialled[k] = <<list[m].ip, list[m].port>>

(* torrent.cpp:85 "Wait client to connect and accept": a client that       *)
(* connects is accepted in the end, unless the program has crashed.        *)
ClientsAccepted ==
    \A c \in Clients : c \in waiting ~> (c \in accepted \/ pc = "crash")

=============================================================================
