SPECIFICATION FairSpec
CONSTANTS
    Threads = {t1, t2, t3}
    Locks = {1, 2}
    MaxDepth = 2
    MaxTicket = 6
    Oversubscription = {TRUE, FALSE}
    None = None
INVARIANTS
    Inv
    StrayIsKnown
PROPERTIES
    ImplementsOwned
    ImplementsFifo
    IsPassedOn
