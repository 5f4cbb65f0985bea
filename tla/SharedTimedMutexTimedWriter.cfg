SPECIFICATION Spec
CONSTANTS
    Threads = {t1, t2, t3}
    MaxReaders = 3
    Calls <- AllCalls
SYMMETRY Symmetry
INVARIANT NoSleeperOnFreeMutex
