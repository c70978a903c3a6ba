SPECIFICATION Spec
CONSTANTS
    c1 = c1
    c2 = c2
    o1 = o1
    o2 = o2
    NULL = NULL
    FREED = FREED
    Chunks = {c1, c2}
    Outputs = {o1, o2}
    Threaded = {o1}
    Limited = {o2}
    Direct = FALSE
    RetryLimit <- MCLimits
    MaxTaskId = 1
    KeepRejected = TRUE
    Grace = 2
    Faults = {"dlq"}
    MaxAttempts = 2
INVARIANTS TriesWithinLimit RunningIsActive NothingStranded NoSilentLoss
PROPERTIES DeliveredIsFinal
SYMMETRY MCSymmetry
