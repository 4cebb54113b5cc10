\* A request to replace the known control unit, which comes and goes, or is registered
\* or removed while both are offline.
SPECIFICATION Spec
CONSTANTS
    a = a
    b = b
    rb = rb
    s1 = s1
    None = None
    Device = {a, b}
    ShipID <- OwnID
    Request = {rb}
    From <- OfB
    Snapshots = {s1}
    Known = {a}
    Environments <- TwoAtATime
INVARIANTS
    TypeOK
    NothingMissed
    TrustIsAccountedFor
    StaysOff
CHECK_DEADLOCK FALSE
