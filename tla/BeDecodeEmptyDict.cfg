\* What bencode/test.c expects of every text; "de" is enough.
CONSTANTS
    Alphabet = {"l", "d", "i", "e", ":", "1", "0"}
    MaxLen = 3
    Inputs <- Short
    LLMax = 9
SPECIFICATION Spec
INVARIANT NeverCrashes
CHECK_DEADLOCK FALSE
