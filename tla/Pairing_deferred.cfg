\* A request is deferred in the replacement window.
SPECIFICATION Spec
CONSTANTS
    a = a
    b = b
    rb = rb
    s1 = s1
    None = None
    Device = {a, b}
    ShipID <- OwnID
    Request = {rb}
    From <- OfB
    Snapshots = {s1}
    Known = {a}
    Environments <- OnlyComesAndGoes
PROPERTY DeferredIsNotSpent
CHECK_DEADLOCK FALSE
