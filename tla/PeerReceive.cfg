\* What the comment of peers::receive says of the bytes it reads.
CONSTANTS
    NotSet = NotSet
    Ints = {}
    Pieces = {}
    Hashes <- HashOnly
    BlockLens = {}
    Listed <- MCListed
    Messages <- Greeting
    Sizes = {2, 6}
    Splits = {1}
    MaxSends = 1
    MaxErrors = 0
SPECIFICATION Spec
INVARIANT ReceiveGivesBytes
CHECK_DEADLOCK FALSE
