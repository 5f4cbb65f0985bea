SPECIFICATION FairSpec
CONSTANTS
    Providers = {p1, p2}
    Consumers = {c1, c2}
    None = None
    Kinds <- AllKinds
CHECK_DEADLOCK FALSE
INVARIANTS
    Inv
    NoUseAfterFree
PROPERTIES
    ImplementsOneResult
    EveryWaitEnds
