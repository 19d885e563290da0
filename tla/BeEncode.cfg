\* Trees of depth three, every buffer size from none to more than enough.
CONSTANTS
    CapMax = 28
    Byte <- MCByte
    Nodes <- MCNodes
    Ints <- MCInts
    Decimal <- MCDecimal
    Caps <- MCCaps
SPECIFICATION Spec
INVARIANTS
    TypeOK
    CursorsAgree
    NoGapNoOverlap
    NeverOverruns
    SizeIsBytesWritten
    FailureLeavesPrefix
    EncodesExactly
PROPERTY FillsOneBuffer
CHECK_DEADLOCK FALSE
