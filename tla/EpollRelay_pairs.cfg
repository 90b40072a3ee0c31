SPECIFICATION SpecOverlapping
CONSTANTS
    Clients = {c1, c2}
    Fd = {1, 2, 3, 4}
    BUFSIZE = 2
    MaxSend = 1
    MaxReply = 1
INVARIANT InOrder
CHECK_DEADLOCK FALSE
