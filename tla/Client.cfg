\* Metafiles of every layout with lists of hashes of up to six digits; tracker
\* responses and chunks below, at and above the size of the buffer, as curl's
\* chunks may be larger than its 10000 bytes; messages with integers at the
\* byte and word boundaries; one connection with handshakes, split and cut.
CONSTANTS
    PieceLengths = {0, 20, 160, 1000, 9980, 10000, 51800, 99980, 100000}
    Tails = {0, 4, 6, 12}
    Files <- MCFiles
    MaxBody = 5
    BufSize = 3
    MaxChunk = 4
    MaxRequests = 2
    Bodies <- MCBodies
    Spelled <- MCSpelled
    NotSet = NotSet
    Ints <- MCInts
    Pieces <- MCPieces
    Hashes <- MCHashes
    BlockLens = {0, 1, 4, 5, 8}
    Listed <- MCListed
    Messages <- MCMessages
    Sizes = {2}
    Splits = {1, 3}
    MaxSends = 2
    MaxErrors = 2
SPECIFICATION ClientSpec
INVARIANTS
    AllPiecesStored
    EveryKeyRead
    OneChunkGivesAllPeers
    ResponseTerminated
    LengthPrefixFramesMessage
    OnlyHandshakesLookLikeOne
    ControlRoundtrip
    LengthFromOneRecv
    StaysInFrame
PROPERTY WholeBodyEnds
CHECK_DEADLOCK FALSE
