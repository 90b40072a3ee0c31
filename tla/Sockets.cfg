SPECIFICATION SocketsSpec
CONSTANTS
    Clients = {c1, c2}
    Sockets = {s1, s2, s3}
    NoSocket = NoSocket
    bounds = 2
    Errno = Errno
    NoConn = NoConn
    Fd = {1, 2, 3, 4}
    BUFSIZE = 2
    MaxSend = 3
    MaxReply = 1
    Talkers = {c1}
INVARIANTS  FramesWhole TransfersExact
PROPERTIES  CallsReturn 
\* The sender closes the connection in the end, a destroyed pool has no more calls, and
\* the programs end.
CHECK_DEADLOCK FALSE
