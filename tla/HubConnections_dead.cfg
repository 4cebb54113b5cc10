\* One dial that is lost before it is registered.
SPECIFICATION Spec
CONSTANTS
    c1 = c1
    c2 = c2
    s1 = s1
    None = None
    Conn = {c1, c2}
    SKI = {s1}
    RemoteSKI <- OneNode
    Outgoing = {c1}
    SmallerSKIs = {s1}
    MaxConnections = 1
    MayShutdown = FALSE
INVARIANT DeadEntryIsRemoved
\* The attempts are used up in the end.
CHECK_DEADLOCK FALSE
