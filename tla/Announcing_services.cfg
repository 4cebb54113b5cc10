\* Interfaces that change, an avahi daemon that restarts, announcements that fail, and
\* Shutdown.
SPECIFICATION FairSpec
CONSTANTS
    a1 = a1
    a2 = a2
    e1 = e1
    p1 = p1
    Refresh = refresh
    Ship = ship
    Mistyped = mistyped
    None = None
    Absent = Absent
    Iface = {e1}
    Announcement = {a1, a2}
    Target <- EachItsOwn
    Caller = {p1}
    Id = {1, 2, 3, 4, 5, 6, 7}
    Environments <- All
INVARIANTS
    TypeOK
    PairingIsAccountedFor
PROPERTIES
    StaysOnTheNetwork
    AnnouncedIsPublished
    ShutdownReturns
\* The announcements are used up in the end.
CHECK_DEADLOCK FALSE
