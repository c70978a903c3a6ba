SPECIFICATION Spec
CONSTANTS
    TTL = 1
    IgnoreFields = {"seq"}
    IgnoreRegexes = {}
    WindowSize = 3
    MaxLogs = 2
    Settings <- Alone
INVARIANT NothingLost
CHECK_DEADLOCK FALSE
