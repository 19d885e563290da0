\* What the comment of peers::setup says of the port.
CONSTANTS
    Lists <- MCLists
    Clients = {c1, c2}
    Backlog = 5
SPECIFICATION Spec
INVARIANT DialsListedPort
CHECK_DEADLOCK FALSE
