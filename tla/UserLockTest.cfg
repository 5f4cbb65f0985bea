SPECIFICATION Spec
CONSTANTS
    Threads = {t1, t2, t3, t4}
    Locks = {1}
    MaxDepth = 1
    MaxTicket = 4
    Oversubscription = {FALSE}
    None = None
INVARIANTS
    TestStaysInside
