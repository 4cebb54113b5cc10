\* Two dials, shutdown and restart.
SPECIFICATION FairSpec
CONSTANTS
    c1 = c1
    c2 = c2
    s1 = s1
    None = None
    Conn = {c1, c2}
    SKI = {s1}
    RemoteSKI <- OneNode
    Outgoing = {c1, c2}
    SmallerSKIs = {s1}
    MaxConnections = 1
    MayShutdown = TRUE
INVARIANT OneDialPerSKI
PROPERTY CopiedIsClosed
