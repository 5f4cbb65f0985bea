SPECIFICATION FairSpec
CONSTANTS
    Threads = {t1, t2, t3}
    MaxTokens = 2
    None = None
CHECK_DEADLOCK FALSE
INVARIANTS
    Inv
    NoUseAfterDestroy
PROPERTIES
    EveryWaitEnds
    TokenIsTaken
