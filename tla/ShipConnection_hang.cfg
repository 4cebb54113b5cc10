SPECIFICATION FairSpec
CONSTANT Environments <- PeerEnds
PROPERTY ClosedIsReported
CHECK_DEADLOCK FALSE
