SPECIFICATION Spec
CONSTANT Environments <- PairingAndData
INVARIANTS
    TypeOK
    TrustBeforeProtocol
    SpineInOrder
    ReportedIsClosed
    EndIsNotLost
CHECK_DEADLOCK FALSE
