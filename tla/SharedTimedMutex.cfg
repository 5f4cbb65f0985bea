SPECIFICATION FairSpec
CONSTANTS
    Threads = {t1, t2, t3}
    MaxReaders = 2
    Calls <- AllCalls
INVARIANTS
    Inv
PROPERTIES
    ImplementsLock
    NoOvertaking
    Gate1Notified
    Gate2Drains
