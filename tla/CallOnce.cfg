SPECIFICATION FlagFairSpec
CONSTANTS
    a = a
    b = b
    Threads = {t1, t2, t3}
    Objects = {a, b}
    Uses <- TwoLayered
    Throws = {a, b}
INVARIANT FlagInv
PROPERTIES
    FlagImplementsOnce
    EveryFlagCallReturns
