CONSTANTS
    NotSet = NotSet
    Ints <- MCInts
    Pieces <- MCPieces
    Hashes <- MCHashes
    BlockLens = {0, 1, 4, 5, 8}
SPECIFICATION CodecSpec
INVARIANT PieceTypeReturned
