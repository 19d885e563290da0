------------------------------- MODULE PeerIO -------------------------------
(***************************************************************************)
(* One connection between two peers: the peer that dials, an object of     *)
(* class peers (setup and Send, peer.cpp), the bytes under way, and the    *)
(* peer that reads them.  A reader is either the branch of the event loop  *)
(* that takes one message off a client's socket (torrent.cpp:95-113) or an *)
(* object of class peers on which receive and read are called.             *)
(*                                                                         *)
(* The network (external): a send may take part of the bytes, a recv gives *)
(* what has come up to the number asked for, or part of it, 0 when the     *)
(* other side is gone and nothing is left, or fails.                       *)
(***************************************************************************)
EXTENDS Peers, Wire, FiniteSetsExt

CONSTANTS
    Listed,     \* the peers to dial: ip, port, peer_id
    Messages,   \* the messages that are sent
    Sizes,      \* the sizes that receive is called with
    Splits,     \* the sizes of the parts in which bytes may go and come
    MaxSends,   \* bound on the calls of Send
    MaxErrors   \* bound on the calls of recv that fail

ASSUME MessagesAssumption == Messages \subseteq Message
ASSUME SizesAssumption    == Sizes \subseteq Nat \ {0}

VARIABLES
    p,         \* the object that dials
    connected, \* its socket is connected to a listening peer
    up,        \* the dialling process runs
    stream,    \* every byte sent so far
    sends,     \* in how many calls of Send
    taken,     \* how many bytes of stream were received
    errors,    \* how many calls of recv failed
    rd         \* the reader: its kind, pc and local variables

dialler == <<p, connected, up, stream, sends>>
vars    == <<p, connected, up, stream, sends, taken, errors, rd>>

(* Of n bytes, all are taken or some first part of them.                   *)
Parts(n) == {k \in 1..n : k = n \/ k \in Splits}

-----------------------------------------------------------------------------
(* The peer that dials.                                                    *)

(* peers::setup.  When socket() fails it changes nothing.  A socket that   *)
(* is connected cannot be connected again.                                 *)
Setup(q) ==
    /\ up
    /\ \E ok \in IF connected THEN {FALSE} ELSE Connects(p) :
          /\ p' = AfterSetup(p, q, ok)
          /\ connected' = (connected \/ ok)
    /\ UNCHANGED <<up, stream, sends, taken, errors, rd>>

(* peers::Send of a message: true when send() took any of its bytes.       *)
(* Without a socket, or when send() fails, it returns false and nothing is *)
(* sent.  On a socket that is not connected the signal of send() ends the  *)
(* process.                                                                *)
Send(m) ==
    /\ up
    /\ p.sock # NoSock
    /\ sends < MaxSends
    /\ IF connected
       THEN \E n \in Parts(Len(Encode(m))) :
              /\ stream' = stream \o SubSeq(Encode(m), 1, n)
              /\ sends' = sends + 1
              /\ UNCHANGED up
       ELSE up' = FALSE /\ UNCHANGED <<stream, sends>>
    /\ UNCHANGED <<p, connected, taken, errors, rd>>

(* The dialling program ends.                                              *)
Leave ==
    /\ up
    /\ up' = FALSE
    /\ UNCHANGED <<p, connected, stream, sends, taken, errors, rd>>

-----------------------------------------------------------------------------
(* recv(): what it may return when it is asked for n bytes.                *)
Failed == -1
Recv(n) ==
    LET left == Len(stream) - taken
    IN  (IF left > 0 THEN Parts(Min({n, left})) ELSE IF up THEN {} ELSE {0})
          \cup (IF errors < MaxErrors THEN {Failed} ELSE {})

Chunk(r) == SubSeq(stream, taken + 1, taken + r)

Take(r) ==
    /\ taken' = IF r = Failed THEN taken ELSE taken + r
    /\ errors' = IF r = Failed THEN errors + 1 ELSE errors
    /\ UNCHANGED dialler

(* A copy to the start of a buffer.                                        *)
Overwrite(buffer, chunk) ==
    [k \in DOMAIN buffer |-> IF k \in DOMAIN chunk THEN chunk[k] ELSE buffer[k]]

-----------------------------------------------------------------------------
(* The event loop reads a message.                                         *)

(* poll says that there is something to read on the client's socket.       *)
Poll ==
    /\ rd.pc = "poll"
    /\ taken < Len(stream) \/ ~up
    /\ rd' = [rd EXCEPT !.pc = "header", !.numBytes = 0]
    /\ UNCHANGED <<dialler, taken, errors>>

(* Mutant of Header: the results are added up.                             *)
HeaderAdds ==
    /\ rd.pc = "header"
    /\ rd.numBytes < 4
    /\ \E r \in Recv(4 - rd.numBytes) :
          /\ rd' = [rd EXCEPT
                      !.pc = IF r > 4 THEN "crash" ELSE "header",
                      !.numBytes = @ + r,
                      !.buf_length = Overwrite(@, Chunk(r))]
          /\ Take(r)

(* The loop that takes the four bytes of the length.  Each recv starts at  *)
(* the beginning of buf_length, and what it returns replaces numBytes:     *)
(* after one that failed the next is asked for five bytes.                 *)
Header ==
    /\ rd.pc = "header"
    /\ rd.numBytes < 4
    /\ \E r \in Recv(4 - rd.numBytes) :
          /\ rd' = [rd EXCEPT
                      !.pc = IF r > 4 THEN "crash" ELSE "header",
                      !.numBytes = r,
                      !.buf_length = Overwrite(@, Chunk(r))]
          /\ Take(r)

(* The length is known.  malloc of a negative one ends the program.        *)
HeaderEnds ==
    /\ rd.pc = "header"
    /\ rd.numBytes >= 4
    /\ \E length \in {Get32(rd.buf_length, 1)} :
          rd' = [rd EXCEPT !.pc = IF length < 0 THEN "crash" ELSE "body",
                           !.length = length, !.start = taken]
    /\ UNCHANGED <<dialler, taken, errors>>

(* Mutants of Body: every recv asks for the whole length, and the results  *)
(* are not added up.                                                       *)
BodyAsksAll ==
    /\ rd.pc = "body"
    /\ rd.numBytes < rd.length
    /\ \E r \in Recv(rd.length) :
          /\ rd' = [rd EXCEPT !.numBytes = @ + r]
          /\ Take(r)

BodyReplaces ==
    /\ rd.pc = "body"
    /\ rd.numBytes < rd.length
    /\ \E r \in Recv(rd.length - rd.numBytes) :
          /\ rd' = [rd EXCEPT !.numBytes = r]
          /\ Take(r)

(* The loop that takes the rest, each recv at the start of buffer, which   *)
(* has length bytes.  The four bytes of the length are counted already.    *)
Body ==
    /\ rd.pc = "body"
    /\ rd.numBytes < rd.length
    /\ \E r \in Recv(rd.length - rd.numBytes) :
          /\ rd' = [rd EXCEPT !.pc = IF r > rd.length THEN "crash" ELSE "body",
                              !.numBytes = @ + r]
          /\ Take(r)

(* strcat and memcpy put the message together in msg.  The four bytes of   *)
(* buf_length are read length + 4 bytes far, which the address sanitizer   *)
(* of the Makefile stops; a keepAlive has only the four, and whether       *)
(* strcat stops depends on the memory of the empty buffer.  Its msgType is *)
(* not set: the branches for 4 and 6 store through a null pointer, the     *)
(* others go on to poll.                                                   *)
BodyEnds ==
    /\ rd.pc = "body"
    /\ rd.numBytes >= rd.length
    /\ \/ rd' = [rd EXCEPT !.pc = "crash"]
       \/ rd.length = 0 /\ rd' = [rd EXCEPT !.pc = "poll"]
    /\ UNCHANGED <<dialler, taken, errors>>

-----------------------------------------------------------------------------
(* Class peers reads.                                                      *)

(* The characters of a buffer up to the first NUL, as a string.            *)
CString(buffer) ==
    SubSeq(buffer, 1,
           Min({k \in 0..Len(buffer) : k = Len(buffer) \/ buffer[k + 1] = 0}))

(* What receive returns: its last byte is replaced by a NUL.               *)
Reply(size, chunk) ==
    CString([Overwrite(Zeros(size), chunk) EXCEPT ![size] = 0])

(* peers::receive: one recv.  A failure returns a string made from a null  *)
(* pointer, which throws.                                                  *)
Receive(size) ==
    /\ rd.pc = "object"
    /\ \E r \in Recv(size) :
          /\ rd' = IF r = Failed
                   THEN [rd EXCEPT !.pc = "crash"]
                   ELSE [rd EXCEPT !.size = size, !.chunk = Chunk(r),
                                   !.reply = Reply(size, Chunk(r))]
          /\ Take(r)

(* peers::read: its buffer holds a NUL, so that the loop is not entered    *)
(* and nothing is received.                                                *)
Read ==
    /\ rd.pc = "object"
    /\ rd' = [rd EXCEPT !.size = 1, !.chunk = <<>>, !.reply = <<>>]
    /\ UNCHANGED <<dialler, taken, errors>>

-----------------------------------------------------------------------------
(* The specification.                                                      *)

Reader(pc) ==
    [pc |-> pc, numBytes |-> 0, buf_length |-> Zeros(4), length |-> 0,
     start |-> 0, size |-> 1, chunk |-> <<>>, reply |-> <<>>]

Init ==
    /\ p = NewPeer
    /\ connected = FALSE
    /\ up = TRUE
    /\ stream = <<>>
    /\ sends = 0
    /\ taken = 0
    /\ errors = 0
    /\ rd \in {Reader("poll"), Reader("object")}

Loop == Poll \/ Header \/ HeaderEnds \/ Body \/ BodyEnds

Next ==
    \/ \E q \in Listed : Setup(q)
    \/ \E m \in Messages : Send(m)
    \/ Leave
    \/ Loop
    \/ \E size \in Sizes : Receive(size)
    \/ Read

(* The event loop keeps running; nothing makes the other side send.        *)
Spec == Init /\ [][Next]_vars /\ WF_vars(Loop)

-----------------------------------------------------------------------------
(* Properties.                                                             *)

(* The length that the body loop counts to is read from four bytes that    *)
(* follow each other in the stream, right before the place where that loop *)
(* starts: never from parts of two, however the bytes were split or a send *)
(* was cut off, whichever calls of recv failed, and whatever was sent, be  *)
(* it a handshake (torrent.cpp:95-103).                                    *)
LengthFromOneRecv ==
    rd.pc = "body" =>
        /\ rd.start >= 4
        /\ \A k \in 1..4 : rd.buf_length[k] = stream[rd.start - 4 + k]
        /\ rd.length = Get32(stream, rd.start - 3)

(* The body loop takes no byte of the next message, even with up to four   *)
(* failures of recv (torrent.cpp:105-107).                                 *)
StaysInFrame ==
    rd.pc = "body" /\ errors <= 4 => taken <= rd.start + rd.length

(* peer.cpp:66 "Reads set amount of bytes from recv": when recv fills the  *)
(* buffer with bytes other than NUL, they are what receive returns.        *)
ReceiveGivesBytes ==
    Len(rd.chunk) = rd.size /\ (\A k \in 1..rd.size : rd.chunk[k] # 0) =>
        rd.reply = rd.chunk

(* Once all of a message has come, the body loop ends, however the bytes   *)
(* were split and even when a few calls of recv failed.                    *)
WholeBodyEnds ==
    (rd.pc = "body" /\ Len(stream) >= rd.start + rd.length) ~> rd.pc # "body"

=============================================================================
