------------------------------ MODULE Tracker -------------------------------
(***************************************************************************)
(* TrackerConnector (tracker_connector.cpp): asks the tracker for peers.   *)
(*                                                                         *)
(* libcurl hands the body of the response to write_callback in chunks of   *)
(* its own choosing, which copies each one to the start of the buffer;     *)
(* then the buffer is decoded and the peers list is read from it.  A cell  *)
(* of the buffer holds the number of the body's byte that was stored       *)
(* there, or 0 for the NUL it was filled with.                             *)
(*                                                                         *)
(* curl and the tracker are external: any chunking may occur and the       *)
(* transfer may fail after any of them.  There is no fairness, because no  *)
(* timeout is set and curl_easy_perform may wait for ever.                 *)
(***************************************************************************)
EXTENDS Integers, Sequences, FiniteSets

CONSTANTS
    Bodies,     \* the responses the tracker may send
    Spelled,    \* the lists of peers that damaged text may spell
    BufSize,    \* sizeof(response), 10000 in the code
    MaxChunk,   \* the largest chunk curl hands over, CURL_MAX_WRITE_SIZE
    MaxRequests \* bound on the calls of request() on one connector

(* A body: its length; where its first NUL byte is, as in a binary peer    *)
(* id, 0 if it has none; what it is; and the entries of its list of        *)
(* peers.  It is a dictionary without peers ("failure"), with a list of    *)
(* dictionaries ("list") or a string ("compact") under "peers", a page     *)
(* that is no bencoding ("page"), or any other bencoding ("other").  The   *)
(* keys of an entry may be ip, peer id, port in that order ("full"), may   *)
(* start with ip but lack the peer id ("noid"), or may start with another  *)
(* key ("other").                                                          *)
Entry    == [shape: {"full", "noid", "other"}, peer: Nat]
BodyType == [len: Nat \ {0}, nul: Nat,
             kind: {"failure", "list", "compact", "page", "other"},
             entries: Seq(Entry)]

ASSUME BodiesAssumption == Bodies \subseteq BodyType
ASSUME SpelledAssumption == Spelled \subseteq Seq(Nat)
ASSUME BufferAssumption == {BufSize, MaxChunk, MaxRequests} \subseteq Nat \ {0}

VARIABLES
    curl,      \* whether curl_easy_init succeeded
    body,      \* the response on its way
    received,  \* how many of its bytes the callback has been given
    chunks,    \* in how many calls
    response,  \* the buffer
    peers,     \* TrackerConnector::peers
    phase,     \* where the connector is
    result,    \* what request() returned
    requests   \* history: how many times it was called

trackerVars ==
    <<curl, body, received, chunks, response, peers, phase, result, requests>>

Cell       == 1..BufSize
Empty      == [c \in Cell |-> 0]
NoResult   == 1

-----------------------------------------------------------------------------

(* The constructor.  When curl_easy_init fails the url is not stored, and  *)
(* request() goes on with a null handle.                                   *)
Construct(ok) ==
    /\ phase = "new"
    /\ curl' = ok
    /\ phase' = "idle"
    /\ UNCHANGED <<body, received, chunks, response, peers, result, requests>>

(* The destructor.  A crashed program does not come to it.                 *)
Destroy ==
    /\ phase \in {"idle", "done"}
    /\ phase' = "gone"
    /\ UNCHANGED <<curl, body, received, chunks, response, peers, result, requests>>

(* request() is called, for the first time or again.                       *)
Requested ==
    /\ phase \in {"idle", "done"}
    /\ requests < MaxRequests
    /\ requests' = requests + 1

(* request(): a null info hash or peer id is refused.                      *)
Refuse ==
    /\ Requested
    /\ result' = -1
    /\ phase' = "done"
    /\ UNCHANGED <<curl, body, received, chunks, response, peers>>

(* Mutant of Start: the buffer is not cleared.                             *)
StartUncleared(b) ==
    /\ Requested
    /\ body' = b
    /\ received' = 0
    /\ chunks' = 0
    /\ response' = [c \in Cell |-> 1]
    /\ phase' = "transfer"
    /\ UNCHANGED <<curl, peers, result>>

(* request(): the buffer is cleared, the url encoded, the transfer begun.  *)
Start(b) ==
    /\ Requested
    /\ body' = b
    /\ received' = 0
    /\ chunks' = 0
    /\ response' = Empty
    /\ phase' = "transfer"
    /\ UNCHANGED <<curl, peers, result>>

(* What a memcpy of n bytes to the start of the buffer leaves there.       *)
Stored(n) ==
    [c \in Cell |-> IF c <= n THEN received + c ELSE response[c]]

(* write_callback: a chunk of n bytes goes to the start of the buffer; a   *)
(* chunk larger than the buffer smashes the stack.                         *)
WriteCallback(n) ==
    /\ phase = "transfer"
    /\ curl
    /\ n <= body.len - received
    /\ received' = received + n
    /\ chunks' = chunks + 1
    /\ IF n <= BufSize
       THEN /\ response' = Stored(n)
            /\ UNCHANGED phase
       ELSE /\ phase' = "crash"
            /\ UNCHANGED response
    /\ UNCHANGED <<curl, body, peers, result, requests>>

(* curl_easy_perform returns: the body is complete, or the transfer has    *)
(* failed.  Its result is not looked at.                                   *)
Performed ==
    /\ phase = "transfer"
    /\ phase' = "decode"
    /\ UNCHANGED <<curl, body, received, chunks, response, peers, result, requests>>

-----------------------------------------------------------------------------

(* The buffer is the body, followed by NUL.                                *)
HoldsBody ==
    /\ body.len < BufSize
    /\ \A c \in Cell : response[c] = IF c <= body.len THEN c ELSE 0

(* Mutant of IpEntries: the last of them is left out.                      *)
IpEntriesButOne(entries) ==
    LET stops == {k \in DOMAIN entries : entries[k].shape = "other"}
        first == IF stops = {} THEN Len(entries)
                 ELSE CHOOSE k \in stops : \A m \in stops : k <= m
    IN  SubSeq(entries, 1, first - 1)

(* parse_list_dict: entries up to the first whose first key is not ip.     *)
IpEntries(entries) ==
    LET stops == {k \in DOMAIN entries : entries[k].shape = "other"}
        first == IF stops = {} THEN Len(entries) + 1
                 ELSE CHOOSE k \in stops : \A m \in stops : k <= m
    IN  SubSeq(entries, 1, first - 1)

(* The fields are taken by position: without a peer id the port is used as *)
(* a string pointer.                                                       *)
ParseCrashes(entries) ==
    \E k \in DOMAIN IpEntries(entries) : IpEntries(entries)[k].shape = "noid"

ParseListDict(entries) ==
    [k \in DOMAIN IpEntries(entries) |-> IpEntries(entries)[k].peer]

Return0(list) ==
    /\ peers' = list
    /\ result' = 0
    /\ phase' = "done"

Crash ==
    /\ phase' = "crash"
    /\ UNCHANGED <<peers, result>>

(* be_decode takes the text up to the first NUL: that is the body if the   *)
(* buffer holds it and it has no NUL of its own, and nothing if the buffer *)
(* starts with one.                                                        *)
TextIsBody == HoldsBody /\ body.nul = 0
TextEmpty  == response[1] \in {0, body.nul}

(* be_decode of the whole body, the loop over its keys and parse_list_dict.*)
DecodeBody ==
    /\ phase = "decode"
    /\ TextIsBody
    /\ \/ /\ body.kind = "failure"
          /\ Return0(peers)
       \/ /\ body.kind = "list"
          /\ IF ParseCrashes(body.entries)
             THEN Crash
             ELSE Return0(ParseListDict(body.entries))
       \* the characters of the string are used as pointers, and the NULL
       \* that be_decode returns for a page is dereferenced
       \/ /\ body.kind \in {"compact", "page"}
          /\ Crash
    /\ UNCHANGED <<curl, body, received, chunks, response, requests>>

(* An empty text decodes to NULL, which is dereferenced.                   *)
DecodeNothing ==
    /\ phase = "decode"
    /\ TextEmpty
    /\ Crash
    /\ UNCHANGED <<curl, body, received, chunks, response, requests>>

(* Part of the body, one part of it over another or a body cut off at a    *)
(* NUL of its own decodes to whatever its bytes happen to spell, and what  *)
(* is no dictionary is read as one: NULL or a broken tree that crashes the *)
(* loop, no peers, or peers that the tracker never listed.                 *)
DecodeTorn ==
    /\ phase = "decode"
    /\ ~TextEmpty
    /\ TextIsBody => body.kind = "other"
    /\ Crash \/ Return0(peers) \/ \E list \in Spelled : Return0(list)
    /\ UNCHANGED <<curl, body, received, chunks, response, requests>>

TrackerInit ==
    /\ curl = FALSE
    /\ body \in Bodies
    /\ received = 0
    /\ chunks = 0
    /\ response = Empty
    /\ peers = <<>>
    /\ phase = "new"
    /\ result = NoResult
    /\ requests = 0

TrackerNext ==
    \/ \E ok \in BOOLEAN : Construct(ok)
    \/ Destroy
    \/ Refuse
    \/ \E b \in Bodies : Start(b)
    \/ \E n \in 1..MaxChunk : WriteCallback(n)
    \/ Performed
    \/ DecodeBody
    \/ DecodeNothing
    \/ DecodeTorn

TrackerSpec == TrackerInit /\ [][TrackerNext]_trackerVars

-----------------------------------------------------------------------------
(* Properties.                                                             *)

(* A body without a NUL that arrives in one chunk, with room for the final *)
(* NUL, yields the peers of its list, in order and without a gap, whatever *)
(* earlier requests left behind, up to an entry that does not start with   *)
(* ip: parse_list_dict stops there instead of passing over it.             *)
OneChunkGivesAllPeers ==
    /\ phase = "done"
    /\ result = 0
    /\ chunks = 1
    /\ received = body.len
    /\ body.len < BufSize
    /\ body.nul = 0
    /\ body.kind = "list"
    => /\ Len(peers) <= Len(body.entries)
       /\ \A k \in DOMAIN peers : peers[k] = body.entries[k].peer
       /\ Len(peers) < Len(body.entries) =>
            body.entries[Len(peers) + 1].shape = "other"

(* be_decode and the stream output take the buffer for a C string: for a   *)
(* response shorter than the buffer there is a NUL in it when they run,    *)
(* however the response was cut into chunks and wherever it broke off,     *)
(* also after earlier and longer responses.                                *)
ResponseTerminated ==
    phase = "decode" /\ body.len < BufSize => \E c \in Cell : response[c] = 0

(* tracker_connector.cpp:47 "this is the callback for curl to read the     *)
(* tracker response": once the whole body has been handed over, the buffer *)
(* holds it.                                                               *)
BufferHoldsResponse ==
    phase = "decode" /\ received = body.len /\ body.len < BufSize => HoldsBody

=============================================================================
