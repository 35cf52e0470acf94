CONSTANTS
    t1 = t1
    t2 = t2
    t3 = t3
    a = a
    b = b
    c = c
    d = d
    Threads <- MCThreads
    Keys <- MCKeys
    Hash <- MCHash
    Ops <- MCOpsSeq
    HEAD_SIZE = 2
    KEY_SIZE = 3
    MAX_FAILURES = 10
    SPURIOUS_CAS = FALSE
    WORD_BITS = 6
SPECIFICATION Spec
INVARIANT ArrayCellsFlagged
