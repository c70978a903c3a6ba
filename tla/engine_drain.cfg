SPECIFICATION FairSpec
CONSTANTS
    c1 = c1
    c2 = c2
    o1 = o1
    o2 = o2
    NULL = NULL
    FREED = FREED
    Chunks = {c1}
    Outputs = {o1, o2}
    Threaded = {o1}
    Limited = {}
    Direct = FALSE
    RetryLimit <- MCLimits
    MaxTaskId = 0
    KeepRejected = FALSE
    Grace <- MCWait
    Faults = {}
    MaxAttempts = 2
PROPERTIES Drained StopCompletes
