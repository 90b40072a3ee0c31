SPECIFICATION UtilSpec
CONSTANTS
    Networks = {"ipv4", "onion"}
    NetProxies = {"q"}
    NameProxies = {"p"}
    Randomize = {"p"}
    SOCKS5_RECV_TIMEOUT = 2
    Methods <- MCMethods
    Verdicts <- MCVerdicts
    Grants <- MCGrants
    Refusals <- MCRefusals
    Thread <- MCThread
    Grant <- MCGrant
    Owner <- MCOwner
    Count = 2
    Blocks <- MCBlocks
    Base <- MCBase
    Size <- MCSize
    page_size = 4
    Strings = {1, 2}
    Numbers = {7}
    Samples <- MCSamples
    MaxTokens = 7
    MaxValues = 3
INVARIANT Base64Inverts
\* As in Util.cfg: the parts may end.
CHECK_DEADLOCK FALSE
