SPECIFICATION FairSpec
CONSTANTS
    a = a
    b = b
    Threads = {t1, t2, t3}
    Objects = {a, b}
    Uses <- CircularUse
    Throws = {a, b}
CHECK_DEADLOCK FALSE
INVARIANTS
    Inv
PROPERTIES
    ImplementsOnce
    EveryCallReturns
