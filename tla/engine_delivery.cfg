SPECIFICATION Spec
CONSTANTS
    c1 = c1
    c2 = c2
    o1 = o1
    o2 = o2
    NULL = NULL
    FREED = FREED
    Chunks = {c1, c2}
    Outputs = {o1, o2}
    Threaded = {o1}
    Limited = {}
    Direct = FALSE
    RetryLimit <- MCUnlimited
    MaxTaskId = 0
    KeepRejected = TRUE
    Grace = 1
    Faults = {"sched", "alloc"}
    MaxAttempts = 2
PROPERTIES DeliveryPromise
