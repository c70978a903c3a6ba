SPECIFICATION FairSpec
CONSTANTS
    Commits = {1, 2, 3}
    Settings <- MCSettings
    MaxHups = 1
    MaxCrashes = 2
INVARIANTS DiskConsistent
PROPERTIES CommittedRuns SignalsServed Converges
CHECK_DEADLOCK FALSE
