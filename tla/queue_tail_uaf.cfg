CONSTANTS
    t1 = t1
    t2 = t2
    t3 = t3
    NONE = NONE
    Threads <- MCThreads3
    Ops <- MCOpsTwoConsumers
    K = 1
    SCAN_THRESHOLD = 0
    SPURIOUS_CAS = FALSE
    ADDRESS_REUSE = FALSE
SPECIFICATION Spec
CONSTRAINT NoNoneLeaked
INVARIANT NoUseAfterFree
