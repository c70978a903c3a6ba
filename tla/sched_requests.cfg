SPECIFICATION FairSpec
CONSTANTS
    r1 = r1
    r2 = r2
    t1 = t1
    t2 = t2
    t3 = t3
    NONE = NONE
    Retries = {r1, r2}
    Timers = {t1, t2}
    Frame = 2
    Waits = {1, 2, 3, 5}
    Faults = {"timeout", "request"}
INVARIANTS ListsInv OnTime
PROPERTIES EveryRequestEnds
