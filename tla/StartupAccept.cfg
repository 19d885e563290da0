\* What the comment at accept() says of clients.
CONSTANTS
    Lists <- MCLists
    Clients = {c1, c2}
    Backlog = 5
SPECIFICATION Spec
PROPERTY ClientsAccepted
CHECK_DEADLOCK FALSE
