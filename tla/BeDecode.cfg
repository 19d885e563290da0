\* Every text of at most four characters over the syntax of the format, the
\* encodings of small trees, and longer texts cut and damaged.
CONSTANTS
    Alphabet = {"l", "d", "i", "e", ":", "1", "0"}
    MaxLen = 4
    Inputs <- FreeTexts
    LLMax = 9
SPECIFICATION FreeSpec
INVARIANTS
    TypeOK
    CursorMatchesLength
    OpenFramesBounded
    CursorBounded
    DecodesWhatWasEncoded
    NeverTouchesFreed
    LeaksOnlyThroughNullEntries
    ShowsWhatIsFreed
PROPERTY ReleaseEnds
CHECK_DEADLOCK FALSE
