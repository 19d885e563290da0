\* What the comment in read_metafile.cpp says of the size of info.
CONSTANTS
    PieceLengths = {20, 160, 1000, 9980, 10000, 51800, 100000}
    Tails = {0, 4, 6, 12}
    Files <- Regular
SPECIFICATION MetafileSpec
INVARIANT HashCoversInfo
CHECK_DEADLOCK FALSE
