SPECIFICATION FairSpec
CONSTANTS
    TTL = 1
    IgnoreFields = {"seq"}
    IgnoreRegexes = {}
    WindowSize = 3
    MaxLogs = 2
    Settings <- MCSettings
INVARIANTS CursorConsistent NoDuplicateOut WindowBound
PROPERTIES VisitedOnce RunEnds
CHECK_DEADLOCK FALSE
