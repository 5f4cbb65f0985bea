SPECIFICATION FairSpec
CONSTANTS
    Threads = {t1, t2, t3, t4}
    MaxCount = 2
    None = None
CHECK_DEADLOCK FALSE
INVARIANTS
    Inv
    NoUseAfterDestroy
    NoLostWakeup
PROPERTIES
    ImplementsLock
    FreeIsTaken
