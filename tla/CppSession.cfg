\* Every text of at most four characters, and longer ones cut and damaged;
\* up to two changes, two calls of encode()
\* and two of getPrettyRepr() on what was decoded, two in all.
CONSTANTS
    Alphabet = {"l", "d", "i", "e", ":", "0", "1", "-"}
    MaxLen = 4
    Texts <- AllTexts
    IntMax = 9
    SizeMax = 99
    StrMax = 9
    Keys <- MCKeys
    Values <- MCValues
    MaxEdits = 2
    MaxCalls = 2
    Indents <- MCIndents
    MaxPrints = 2
    MaxUses = 2
SPECIFICATION SessionSpec
INVARIANTS
    StreamStaysGood
    KeysInOrder
    AcceptsExactlyTheFormat
    FirstEncodingReadsBack
    EncodingIsShortest
    PrintsTheLayout
    DecodedItemsAreWhole
CHECK_DEADLOCK FALSE
