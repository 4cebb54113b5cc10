SPECIFICATION FairSpec
CONSTANT Environments <- Timeouts
PROPERTIES
    EndedIsClosed
    EndIsReported
CHECK_DEADLOCK FALSE
