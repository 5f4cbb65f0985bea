SPECIFICATION AllFairSpec
CONSTANTS
    a = a
    b = b
    c = c
    d = d
    Threads = {t1, t2, t3}
    Locks <- MCLocks
    Lists <- MCLists
    None = None
INVARIANTS
    AllInv
PROPERTIES
    ImplementsAtomic
    LoneCallReturns
