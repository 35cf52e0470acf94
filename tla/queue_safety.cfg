CONSTANTS
    t1 = t1
    t2 = t2
    t3 = t3
    NONE = NONE
    Threads <- MCThreads2
    Ops <- MCOpsPair
    K = 2
    SCAN_THRESHOLD = 0
    SPURIOUS_CAS = FALSE
    ADDRESS_REUSE = FALSE
SPECIFICATION Spec
INVARIANT TypeOK
INVARIANT ListWellFormed
INVARIANT NoUseAfterFree
INVARIANT NoDoubleFree
INVARIANT NoSegmentLeak
PROPERTY OpsComplete
