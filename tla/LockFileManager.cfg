SPECIFICATION FairSpec
CONSTANTS
    Procs = {p1, p2, p3}
    Host <- OneHost
    Nobody = Nobody
    Elsewhere = Elsewhere
    WaitLimit = 3
    GoneLimit = 2
    Faults <- AllFaults
CHECK_DEADLOCK FALSE
INVARIANTS
    Inv
    LockHasOwner
    NoLiveOwnerTakenForDead
PROPERTY EveryCompilationEnds
