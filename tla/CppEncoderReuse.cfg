\* One Encoder that encodes two items; nothing is changed or printed.
CONSTANTS
    Alphabet = {"i", "e", "0"}
    MaxLen = 3
    Texts <- AllTexts
    IntMax = 9
    SizeMax = 99
    StrMax = 9
    Keys <- MCKeys
    Values <- MCValues
    MaxEdits = 0
    MaxCalls = 2
    Indents <- MCIndents
    MaxPrints = 0
    MaxUses = 2
SPECIFICATION SessionSpec
INVARIANT EncodesGivenData
CHECK_DEADLOCK FALSE
