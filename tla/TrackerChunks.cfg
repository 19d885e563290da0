\* What the comment in tracker_connector.cpp says of the callback.
CONSTANTS
    MaxBody = 3
    BufSize = 5
    MaxChunk = 4
    MaxRequests = 1
    Bodies <- MCBodies
    Spelled <- MCSpelled
SPECIFICATION TrackerSpec
INVARIANT BufferHoldsResponse
CHECK_DEADLOCK FALSE
