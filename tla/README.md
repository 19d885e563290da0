# Torrent2: TLA+ models, checks and proofs

Torrent2 is a small BitTorrent client in C++: it reads a metafile, asks the
tracker for peers, dials them, and waits for clients. This directory holds TLA+
modules of its parts, TLC configurations that check them on small instances,
and TLAPS proofs for every instance.

## The system

| Part | Source | State | Operations |
|---|---|---|---|
| bencode decoder | `bencode/bencode.c` | cursor, bytes left, tree of nodes | `be_decode`, `be_decoden` |
| bencode encoder | `bencode/bencode.c` | output cursor, room and size of each call | `be_encode` |
| dump and release | `bencode/bencode.c` | the tree | `be_dump`, `be_free` |
| metafile reader | `read_metafile.cpp` | the fields of `Metafile`, the info hash | `create_metafile` |
| tracker connector | `tracker_connector.cpp` | curl handle, response buffer, peers | constructor, `request`, `write_callback`, `get_peers`, destructor |
| wire messages | `msg_protocol.cpp` | none | one encoder per message, `decode` |
| connection object | `peer.cpp` | socket, port, address, peer id | `setup`, `Send`, `receive`, `read` |
| client | `torrent.cpp` | peers, descriptor table, pieces | the constructor: start, then the event loop |
| blocks | `block_t.cpp` | one block | constructor, getters (does not compile, not built) |
| cpp-bencoding | `cpp-bencoding/src/` | a stream and its flags, lists and dictionaries, `encodedData`, `prettyRepr` and its indentation | `decode` (two forms), `create`, `operator[]`, `push_back`, `pop_back`, `front`, `back`, `setValue`, `encode`, `getPrettyRepr` |

How they interact: the client calls the metafile reader, which reads the whole
file, decodes it with `be_decoden`, walks the tree by NULL-terminated arrays,
re-encodes the info dictionary with `be_encode` to hash it, and releases the tree.
The client then constructs a tracker connector; libcurl calls `write_callback`
any number of times with pieces of the response, and `request` decodes the
buffer with `be_decode` and copies the peers. The client dials every peer with
`peers::setup`, encodes a handshake, and enters a loop around `poll` that accepts
clients and handles their messages with `MSG::decode`. cpp-bencoding is kept in the repository
with its tests; the client includes its header and has gone over to `bencode.c`.
There is one thread; the
concurrency is with the network: chunking by curl, failing transfers, peers and
clients.

What is hard here: two pieces of state that must move together (the decoder's
cursor and count; the encoder's per-call cursors), NULL-terminated arrays whose
terminator is written or tested at the wrong place, sizes guessed rather than
computed, results that nobody looks at, chunked input, and partial
initialization. `PROJECT.json` lists these under `hazards`, each at its line.

What makes each part correct:

* decoder: never loses track of where it is; ends; reads an encoding back as the
  tree it stands for; reads beyond the text only within a known bound;
* encoder: writes exactly the encoding, exactly when it fits, nowhere else;
* dump and release: every node once, none after it has been freed, the same nodes,
  at the indentation of their depth; both end;
* metafile: the hash covers the info dictionary, and all keys and hashes are read;
* tracker: the buffer holds the response and ends with a NUL, all peers are returned;
* messages: the length frames the message, decode inverts encode;
* cpp-bencoding: accepts exactly the format, leaves the stream behind the item,
  keeps keys in order, puts no null pointer into an item, encodes to what decodes to
  the same item, and prints the layout of its comments every time;
* connection: the receive loop takes a length from one place, stays inside the message
  and ends, and `receive` gives what it has read;
* client: listed peers are dialled and greeted, clients are accepted.

## Modules

| Module | Models | Extended by |
|---|---|---|
| `BeDecode` | `_be_decode`, `_be_decode_str`, `_be_decode_int` | `MCBeDecode`, `BeDump` |
| `BeDump` | `be_dump`, run on what `BeDecode` built | `BeFree` |
| `BeFree` | `be_free`, run after `be_dump` | `MCBeFree`, `BeDecodeProofs` |
| `OutputBuffer` | what `be_encode` promises: one buffer, filled at its end | instantiated by `BeEncode` |
| `BeEncode` | `be_encode`, `be_encode_str` | `MCBeEncode`, `BeEncodeProofs` |
| `Metafile` | `create_metafile`, and when `parse_dict` ends the program | `MCMetafile`, `MetafileProofs` |
| `Tracker` | `TrackerConnector` | `MCTracker`, `TrackerProofs` |
| `Wire` | class `MSG`: the encoders and `decode`, without state | `MsgCodec`, `PeerIO`, `WireProofs` |
| `MsgCodec` | one side encodes, the other decodes | `MCMsgCodec`, `MsgCodecProofs` |
| `Peers` | class `peers` without its traffic | `Startup`, `PeerIO` |
| `PeerIO` | `setup`, `Send`, `receive`, `read` and the receive loops of the event loop, over a byte stream | `MCPeerIO`, `PeerIOProofs` |
| `MCClient` | the client's parts in the order of `Torrent::Torrent` | - |
| `CppDecode` | `bencoding::Decoder`, `Utils`, the map of `BDictionary` | `CppSession` |
| `CppSession` | a caller of `Decoder`, `BDictionary`, `BList`, `BInteger`, `BString` and `Encoder` | `CppPrinter` |
| `CppPrinter` | the same caller with a `PrettyPrinter` | `MCCppSession`, `CppSessionProofs` |
| `Startup` | `Torrent::Torrent` up to and including `poll`/`accept` | `MCStartup` |

Definitions whose comment says "Mutant of" are deliberately wrong variants of the
definition that follows; they are not part of any specification. Each shows
that a property notices the mistake (`mutants` in `PROJECT.json`).

### BeDecode

`pos` and `dataLen` are `*data` (as an offset) and `*data_len`; `heap` holds the
`be_node` objects and pointers are indices into it (0 is NULL); `stack` holds the
suspended recursive calls. An action is what `_be_decode` does between two
recursive calls: `NoDataLeft`, `OpenList`, `OpenDict`, `DecodeInt`,
`DecodeString`, `Invalid` at a call; `ListLoop`/`DictLoop` at the loop test;
`ListItem`/`DictItem` when a call returns into a loop. The dictionary loop tests
`ret->val.l[i]`, which reads the array of entries as an array of pointers: entry
`i/2`, its key for even `i` and its value for odd `i` (`AliasIsNull`). Bytes
after the text are NUL, as in the response buffer of the tracker connector;
`create_metafile` passes a buffer without that NUL, where an overread has no defined
outcome. Left out: failing `malloc`, the width of `long` (it equals that of
`long long` on the build's platform).

### BeEncode

A frame is a call with its own `outBuf` (`at`), `outBufLen` (`left`) and `sz`, as the
C code passes them by value. `buf` is FALSE when `outBuf` is NULL. `Decimal` stands
for `snprintf("%lld")`. `DictEntry` writes the key and makes the call for the value,
`CheckAndUpdate` is the macro of that name in the caller.

Abstractly (`OutputBuffer`) there are no calls: a log that grows at its end and never
beyond the capacity, and one answer, which is the length of the log or a failure.
`BeEncode` implements it under the mapping in `Buffer`: the log is the buffer, the size
is what the calls have counted, and every action is an addition, the answer, or a
stutter (`FillsOneBuffer`).

### BeDump and BeFree

Extend `BeDecode`: the decoder runs first, then, as in `bencode/test.c`, the caller
dumps and releases what it got. `calls` and `frames` are the recursive calls of
`_be_dump` and `be_free`; `shown` is the sequence of lines printed, each with the node
it shows and its indentation; `freed` is the sequence of `free()` calls on nodes,
`keys` the keys freed. Each of the two functions has its own loop tests (`ItemToShow`,
`EntryToShow`; `ItemToFree`, `EntryToFree`), as in the code.

### Metafile

A file is described by what the code can tell apart: whether it opens and
decodes, the order of its keys, and the offsets and numbers that the search for
"info" and "pieces" meets. Keys may be unknown and may come twice: `size`, which the
first `pieces` overwrites (line 121), then bounds what a second `info` or `pieces`
searches. A negative or too large size ends the program. A key that did not decode is NULL
and ends the program in `strcmp`; a value of another type where a pointer is taken for
one may end it (`EntryMayAbort`), and an integer is only a wrong number. The values of
the fields are left out, and with them the strings that `parse_dict` collects; a path
without names and a key that is NULL end the program there (`ParseDictAborts`). A root
that is no dictionary counts as a file that does not decode.

### Tracker

A cell of `response` holds the number of the body's byte stored there. Any chunking
may happen and the transfer may end after any chunk. `be_decode` takes the text up to
the first NUL: that is the body if the buffer holds it and it has no NUL of its own
(`nul`, as in a binary peer id), and nothing if the buffer starts with one. Any other
text, one chunk over another or a body cut at its NUL, decodes to whatever its bytes spell
(`DecodeTorn`): a crash, no peers, or any list in `Spelled`, which need not be a part of
a list the tracker sent. A page that is no bencoding gives NULL, which is dereferenced;
another bencoding that is no dictionary is read as one, with any outcome. `request` may be
called again on the same connector, whose peers stay until an answer replaces them.
There is no fairness: no timeout is set.

### Wire and MsgCodec

Messages are encoded to bytes and decoded again. Fields that `decode` leaves alone
are `NotSet`. `strcmp` on the 20-byte copy of the protocol name reads a byte that
was never set, hence two outcomes for a handshake. The bounds of `int` are written as
products of bytes, which keeps the numerals within the reach of both tools. A block is
at most `MaxInt - 13` bytes long: the encoder of a piece computes `blockLen + 13` as an
`int`. A block of more than `MAX_BLOCK` bytes is copied behind the array of the result;
`Decode` then has no result (`Overruns`), so that no property says anything of it.

### Peers and PeerIO

`p` is the object that dials. `setup` may be called again after a failure or on a
connected object; `Send` appends any non-empty first part of a message to `stream`,
because `send()` may take less than it was given, and on a socket that is not connected
the signal of `send()` ends the process (`up`). The reader takes bytes with `Recv`
(external): a part of what was asked for and has come, 0 at the end of a closed
stream, or a failure. `Splits` names the sizes such parts may have. The reader is one of
two:

* the event loop (`torrent.cpp:95-113`): `Poll`, `Header`, `HeaderEnds`, `Body`,
  `BodyEnds`. Each `recv` writes at the start of its buffer. In the header loop the
  result replaces the count: once the four bytes come in two parts the loop never sees
  four again and goes on taking bytes, which is why `LengthFromOneRecv` holds, and why
  the loop hangs. After a failure it is asked for five bytes of a buffer of four, and the
  address sanitizer of the `Makefile` stops the program. The body loop counts the four
  bytes of the length as its own and leaves the last four of the message in the stream.
  A handshake, the one message the program sends (`torrent.cpp:67-68`), has no length in
  front: the loop takes its first four bytes for one.
  Putting the message together reads beyond `buf_length` for all but a keep-alive.
* an object of class `peers`: `Receive` and `Read`. The latter returns at once, because
  its buffer starts with the NUL that ends its loop.

As committed the loop is not reached (`fd_count` is 0, see `Startup`): `PeerIO` starts
where a client's descriptor has been accepted.

### CppDecode, CppSession and CppPrinter

`stream` is the `std::istream`: position, eofbit and failbit, changed by peek, get
and read as the standard says (`Peeked` is the library's part, external). `stack`
holds the lists and dictionaries being filled; an exception empties it. An action
is what the decoder does between two calls of `decode`: `Open`, `DecodeInteger`,
`DecodeString` or `Unexpected` at the dispatch, `Loop` at the test of the two
loops, `ListItem`, `DictKey`, `DictValue` when a call returns, `Finish` for the
outermost. An integer that does not fit leaves a variable uninitialized, so
that any value may be returned; a length that fits `size_t` but not memory
throws something that is not a `DecodingError`. `CppSession` adds the caller:
`DecodeNext` for the next item of the stream, the operations of the containers
(`Lookup`, `Assign`, `PushBack`, `PopBack`, `AssignFront`, `AssignBack`, `SetValue`,
`CreateList`, `CreateDict`), and `Encode` with the visits, all with one `Encoder`.
The caller may also assign null pointers, where `operator[]`, `front`, `back` and the
`create` functions take them; encoding or printing then goes through one (`VisitNull`,
`PrintNull`). `CppPrinter` adds `getPrettyRepr` on one printer: `visits` is what the
visits in progress have still to append, `currentIndent` and `indentLevel` are its
members. `setValue` on a key that is in a dictionary is left out: `std::map` promises
nothing after it.

### MCClient

The constructor of `Torrent` reads the metafile, asks the tracker, dials, and exchanges
messages. `MCClient` runs `Metafile`, `Tracker`, `MsgCodec` and `PeerIO` in that order.
They share no variable, and what one hands over does not change how the next behaves; so
each begins only when the one before has come to one chosen final state, and the states
of the parts add up instead of multiplying. `MsgCodec` stands beside `PeerIO`.

### Startup

`Setup`, `Handshake`, `Send`, `EndOfList` are the loop over the listed peers,
`ClientConnects` is the environment, `Accept` the branch of the event loop for the
listening socket. `fd_count` starts at 0 as in the code, so that `Accept` is never
enabled; `Size` is the NULL pointer, so that `Send` is never reached.

## Runs

| Run | Result | What it shows |
|---|---|---|
| `decode` | holds | all 2,801 texts of up to four characters over seven, the encodings of nested trees, and long texts cut and damaged at every place: decoded, dumped and released |
| `decode_empty_dict` | violated | `de` writes through a null pointer (`bencode.c:185`) |
| `encode` | holds | trees of depth three, with and without a buffer, every buffer size 0..28; implements `OutputBuffer` |
| `client` | holds | metafiles: orders of keys, keys that come twice, one to six digits, the words before the keys, wrong types, torrents of several files; two requests, bodies up to 5 bytes with and without a NUL, buffer 3, chunks up to 4; messages with integers at the boundaries of bytes, words and sign; two messages of 4, 9 or 68 bytes sent in part or whole, in parts of 1, 3 or all bytes, two failures of `recv` |
| `metafile_hash` | violated | 20 bytes of hashes at the end of info: the hash covers three bytes more than the dictionary has (`read_metafile.cpp:105`) |
| `tracker_chunks` | violated | two chunks: the second overwrites the first |
| `messages_piece` | violated | a piece decodes as type 0 |
| `peer_receive` | violated | a buffer of two is filled with the first two bytes of a handshake, and one is returned (`peer.cpp:76`) |
| `cpp_session` | holds | all 4,681 texts of up to four characters over eight, and three long ones cut and damaged at every place; up to two changes, calls of `encode` or calls of `getPrettyRepr` |
| `cpp_encoder_reuse` | violated | an encoder that is used twice returns the first text again before the second (`Encoder.cpp:35`) |
| `startup_port` | violated | `setup` dials port 0 |
| `startup_accept` | violated | a client that connects is never accepted |

The properties, with the code they are about, are stated in comments above their
definitions.

Bounds. `MaxLen` 4 is enough for every pair of nested openings to be cut off, for a
string whose length is one too large, and for a key without a value; longer
shapes are covered by the encodings and by three texts cut and damaged
at every place. `LLMax` 9 makes two-digit numbers saturate. `CapMax` 28 is
the length of the longest encoding of the trees, so that each tree meets every buffer that
is too small and the exact one, and all but the longest a larger one. `BufSize` 3 with
bodies to 5 and chunks to 4 has bodies and chunks on both sides of the buffer's size, as
16384 and 10000 are in the code; `Spelled` has a list no tracker sends. `PieceLengths` has
lengths of one to six digits; a comment that mentions the words is followed by numbers on
both sides of zero and of the length.
`Backlog` is the code's. In `cpp_session` `IntMax` 9, `StrMax` 9 and `SizeMax` 99
put an integer that does not fit, a length that memory cannot hold and a length
that `size_t` cannot hold within reach of four characters; `MaxUses` 2 lets a
change be followed by another, by a print or by an encoding, and one printer or encoder be
used twice. In `client`, `MaxSends` 2 has a next message to run into; a keep-alive
is the only message after which the loop goes on, nine bytes can be split into more
parts than the loops have states, and a handshake is longer than any length the loops
have to find in it; `Splits` {1, 3} lets the four bytes of a length come as 1+3, 3+1 and
four times one; `MaxErrors` 2 is below the four failures that the body loop survives.

Fairness. `FreeSpec` (decode, dump, release) has weak fairness of its next step:
sequential code that does not block. `Startup` has weak fairness of the program's own
steps and none for clients, `PeerIO` and `MCClient` of the event loop and none for the sender: a `recv`
that has bytes returns, and nothing makes the other side send. The other specifications state none and have no liveness property.

## Divergences that have no run

* The words "info" and "pieces" are searched for in the whole file (`read_metafile.cpp:99-100`),
  and may stand in a comment before the keys.
* An integer that does not fit 64 bits is not an error (`Decoder.cpp:216`), and a
  huge string length is one of another type than `DecodingError` (`Decoder.cpp:297`).
* A list or dictionary without its `e` is accepted (`bencode.c:146`), as is `i04e`,
  which `bencode.txt:28` excludes.
* `be_free` loses everything after the first entry without a value
  (`bencode.c:267`); `LeaksOnlyThroughNullEntries` says exactly when.
* `decode` leaves the index of a have message unassigned (`msg_protocol.cpp:45`).
* "Handshake is of length 70" (`msg_protocol.cpp:83`): it has 68 bytes.
* A length that comes in two parts is never completed (`torrent.cpp:100`, where "first
  four bytes of message" are wanted), a handshake is taken for a message with a length, and
  the last four bytes of a body stay in the stream (`torrent.cpp:106`).
* `Send` reports success when part of the data was sent (`peer.cpp:56`).
* `request` uses the response of a transfer that failed (`tracker_connector.cpp:138`) and of
  one with a NUL in it, up to that.
* `receive` also loses what follows a zero byte (`peer.cpp:77`); `read`, "byte-by-byte"
  (`peer.cpp:80`), reads none.
* The test of `TrackerConnector::encode` (`tracker_connector.cpp:213`) expects
  `http://` and `:8080/announce` around the url it gave; `encode` adds neither.
* With one listed peer or more the client stops at the first handshake, whose
  length is stored through a NULL pointer (`torrent.cpp:65`).

## Proofs

TLAPS checks every proof; the theorems hold for every value of the constants that
meets the named assumptions.

| Module | Theorem | Always holds | From |
|---|---|---|---|
| `BeDecodeProofs` | `TypeCorrect` | `TypeOK` | `InputsAssumption`, `LLMaxAssumption` |
| | `CursorNeverDrifts` | `CursorMatchesLength` | |
| | `OverreadIsBounded` | `CursorBounded` | |
| | `NestingIsPaidFor` | `OpenFramesBounded` | |
| | `TreeIsFreedOnce` | `NeverTouchesFreed` | |
| | `LeaksAreNullEntries` | `LeaksOnlyThroughNullEntries` | |
| | `DumpShowsWhatIsFreed` | `ShowsWhatIsFreed` | |
| `BeEncodeProofs` | `EncoderTypeCorrect` | `TypeOK` | the four assumptions of `BeEncode` |
| | `EncoderStaysInBuffer` | `NeverOverruns` | |
| | `NestedCursorsAgree` | `CursorsAgree` | |
| | `NoByteSkippedOrRewritten` | `NoGapNoOverlap` | |
| | `ReturnedSizeIsWritten` | `SizeIsBytesWritten` | |
| | `ImplementsOutputBuffer` | `FillsOneBuffer`, the refinement | |
| `MetafileProofs` | `NoKeyIsMissed` | `EveryKeyRead` | `FilesAssumption` |
| | `PiecesAreComplete` | `AllPiecesStored` | |
| `TrackerProofs` | `PeersUpToABadEntry` | `OneChunkGivesAllPeers` | `BodiesAssumption`, `SpelledAssumption`, `BufferAssumption` |
| | `BufferStaysAString` | `ResponseTerminated` | |
| `MsgCodecProofs` | `PrefixFrames` | `LengthPrefixFramesMessage` | the three assumptions of `Wire` |
| | `ControlSurvives` | `ControlRoundtrip` | |
| | `HandshakesStandOut` | `OnlyHandshakesLookLikeOne` | and blocks below 19 * 2^24 - 9 bytes |
| `PeerIOProofs` | `BodyStaysInFrame` | `StaysInFrame` | those of `Wire` and `PeerIO` |
| | `LengthIsOfOnePlace` | `LengthFromOneRecv` | |
| `CppSessionProofs` | `StreamIsReusable` | `StreamStaysGood` | none |
| | `DictionariesStayInOrder` | `KeysInOrder` | `TextsAssumption`, `CallerAssumption` |

`WireProofs` holds the lemmas about bytes that `MsgCodecProofs` and `PeerIOProofs` share.

One theorem has a hypothesis of its own, the size of blocks: the first byte of a message
tells a handshake, and the length of a larger piece could begin with 19; the client
requests 16384 bytes. Two properties carry theirs in themselves. `AllPiecesStored`
speaks of files with one `info` and one `pieces` of the right types (`KeysOnce`) that are
the first texts of their kind (`Plain`): otherwise the hashes are appended again or their
number is read from another place. `OneChunkGivesAllPeers` speaks of a body without a NUL.

Decoder. The inductive invariant is `TypeOK`, `CursorMatchesLength` and
`OpenFramesBounded`. The bound on the cursor is not inductive by itself: leaving a
list or dictionary steps over a byte that may lie beyond the text, so how far the
cursor can go depends on how many are open; each was opened by a byte of the
text, and that is `OpenFramesBounded`. Lemmas say that `Strtoll` and `DecodeStr`
stop at or before the first byte that cannot belong to the number, that is at the
end of the text at the latest, and that a string ends within the bytes left.

Release. `NeverTouchesFreed` says nothing of the decoder, and rests on it: no two pointers
may lead to one node. `TreeInv` is the invariant of the decoder: a pointer leads to a
node allocated after the one it stands in, no two to the same (`Forest`), and none to a node
that is still being filled (`StackApart`) or has just been returned (`RetApart`), so that
storing that one keeps it so. `FreeInv` follows `be_free`: its calls go down along
pointers (`CallsDescend`), and a freed node was reached by a pointer that is behind the
counter of its call or in a freed node itself (`FreedBehind`). A child that a
counter comes to is reached by one pointer only, which is not behind it; hence it is
not freed yet.

Leaks. `LeaksOnlyThroughNullEntries` is the other half and needs as much of the decoder. Its
invariant `OwnInv` says that every node is being filled, has just been returned, or
something points to it (`Owned`), unless an entry has lost its value for good (`ValueLost`).
An entry without a value is no loss yet while a call is to bring it: the last entry of
every suspended dictionary waits (`AwaitsValue`), which is also why overwriting it drops no
pointer but when the aliased test stops the loop, and then the entry stays without a value. On the
side of `be_free`, `LeakInv` says that the root has been reached, so has what a pointer
behind a counter leads to (`Covered`), and the keys freed are those of the entries
behind a counter (`KeysPassed`). A node is freed when its counter is at the end of the array or
at an entry without a value. Without such an entry nothing is skipped, and the oldest node
that is not freed could be neither the root nor pointed to by an older, freed one.

Dump. `ShowsWhatIsFreed` compares two walks that never run at the same time, so each is
described by the tree alone: `Walk` says that what has been visited is exactly what the
pointers behind the active calls lead to from the root, and that every pointer behind a
counter is one that the loop goes on over. `be_free` keeps it by `FreeWalk` and
`_be_dump` by `DumpWalk`; a step down comes to a node not visited before, since
nothing but the pointer behind the counter leads there (`WalkDown`), and a return adds
no pointer, since the next one would end the array (`WalkUp`). Two walks that have come to
their end have visited the same nodes (`WalkEnd`, again by the oldest that only one has). For the
indentation, `DumpInv` says that call number `a` is indented by `a - 1` and that the lists
and dictionaries begun and not ended are those of the active calls; the number of
lines above one that ends is counted by a bijection with those calls (`DepthIsCounted`).

Encoder. `NeverOverruns` is not inductive either: it needs that a call's own room is
what is left of the buffer (`CursorsAgree`), that the cursor stands behind the
last byte written (`NoGapNoOverlap`), and that the calls below the running one
wait in their loops (`FramesWaiting`), for only there does `CheckAndUpdate` move
the cursor and the size together. One lemma per action, and three for
what a step does to the stack of calls: replace the innermost, push one, drop one.
The refinement needs in addition that a call returns a size or -1 (`SizeOrFailure`)
and that every step only adds to the buffer (`StepAdds`); the initial state maps to an initial
state, and each action to an addition, the answer or a stutter.

Metafile. What has been read is a function of the two loop counters (`KeysRead`), and
where the counters stand is `Places`. For the pieces, `PiecesInv` says how many are stored
before and after the key, and that `size` is still the size of the file before it, so that
the text is found.

Tracker. Chunks are copied to the start of the buffer: cells behind what has been received
are NUL (`RestIsNul`), and after one chunk the buffer starts with the body (`FewChunks`), so
that a body without a NUL of its own is what `be_decode` sees. That the peers end where
`parse_list_dict` meets an entry of another shape is the least such place in the list.

Messages. Four bytes in network order give back the number for every 32-bit value
(`GetPut`); each encoder is described by its length, its type byte and the numbers at
their places, and the properties follow message by message.

Connection. `BodyCount` relates the count of the body loop to what was taken: it starts
four ahead and loses one with each failure, which is where the four failures of
`StaysInFrame` come from. `HeaderFilled` says that when the header loop has counted four,
`buf_length` holds the last four bytes taken: the count is the result of one `recv`, so
they came at one stroke.

C++ decoder. A character can be peeked only from a stream without a flag, hence
every path that returns an item leaves it so. While the caller encodes or prints, the
stream waits: that is the strengthening.

Order of keys. `Assigned` puts a key between the entries below the map's two bounds
(`LowerBound`, `UpperBound`). `ByValue` is shown to be transitive and total on texts and to
imply the order of the characters (`ByValuePrecedes`); a sequence that is strictly increasing
in it stays so when a key is put between its bounds (`AssignedIsMap`). `OrderInv` carries
this through the decoder and the caller: the frames and the item returned are maps, lists
or leaves of the shape `IsItem`. `CallerAssumption` says that the caller's keys are texts
and that what it assigns are items or null pointers.

Only model-checked:

* `ReleaseEnds`, `WholeBodyEnds` and `ClientsAccepted`: liveness is out of the prover's reach;
* `DecodesWhatWasEncoded`, `EncodesExactly`, `FailureLeavesPrefix`,
  `AcceptsExactlyTheFormat`, `FirstEncodingReadsBack`, `EncodingIsShortest`,
  `PrintsTheLayout`, `DecodedItemsAreWhole`: they need induction over trees, which the
  installed provers cannot do, and the reference definitions of all but the last are
  recursive.

## Not modelled

* `block_t` does not compile and is not built; `print_meta` only prints.
* The answers of the event loop to have, request and piece (`torrent.cpp:115-237`): each
  begins by storing a size through a null pointer, where the program ends (`BodyEnds`), and
  lines 172-237 do not compile. The blocks of a piece, the store of pieces and the check of
  their hashes have therefore no behaviour to model.
* The doubling of the descriptor table (`torrent.cpp:87-90`), behind an accept that is never
  reached.
* In `Metafile` the values of the fields, the copy of announce-list and the strings of
  `parse_dict`; in `Tracker` the text of the url; what `be_dump` prints besides order, node
  and indentation.
* A block larger than the array it is copied to (`msg_protocol.cpp:64-65`): the behaviour is
  undefined.
* `sample/decoder.cpp` of cpp-bencoding, which calls `decode` and `getPrettyRepr` once each.
* Failing `malloc`, and `setValue` on the key of a dictionary.
