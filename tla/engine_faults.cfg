SPECIFICATION FairSpec
CONSTANTS
    c1 = c1
    c2 = c2
    o1 = o1
    o2 = o2
    NULL = NULL
    FREED = FREED
    Chunks = {c1, c2}
    Outputs = {o1}
    Threaded = {o1}
    Limited = {}
    Direct = TRUE
    RetryLimit <- MCLimit1
    MaxTaskId = 0
    KeepRejected = TRUE
    Grace = 2
    Faults = {"content", "alloc", "route", "flush", "up", "sched", "dlq"}
    MaxAttempts = 2
INVARIANTS IndInv
PROPERTIES StopCompletes
