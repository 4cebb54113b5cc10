SPECIFICATION FairSpec
CONSTANTS
    SKI = {s1}
    Path = {p1, p2}
    Reporter = {r1, r2}
    Timer = {t1, t2, t3}
    Tries = 1
    LastRange = 2
    None = None
    Environments <- OnlyAgain
PROPERTIES
    RetriedIfPaired
CHECK_DEADLOCK FALSE
